------------------------------- MODULE Words -------------------------------
(***************************************************************************)
(* The C arithmetic that the codecs of adpcm/ and gsm/ are written in.     *)
(* `>>' of a signed number is \div a power of two, `& (2^n - 1)' is % 2^n. *)
(***************************************************************************)
EXTENDS Integers, FiniteSets, Sequences

(* What a short keeps of an int.                                           *)
Short(x) == ((x + 32768) % 65536) - 32768

Abs(x) == IF x < 0 THEN -x ELSE x

(* x << n, or x >> -n when n is negative                                   *)
Shift(x, n) == IF n >= 0 THEN x * 2^n ELSE x \div 2^(-n)

(* The number of bits of a natural number.                                 *)
BitLength(x) == Cardinality({i \in 0..30 : 2^i <= x})

(* A C table, numbered from 0.                                             *)
Table(seq) == [i \in 0..(Len(seq) - 1) |-> seq[i + 1]]

=============================================================================
