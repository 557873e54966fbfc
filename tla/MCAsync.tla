------------------------------ MODULE MCAsync ------------------------------
(* Instances of Async.                                                     *)
EXTENDS Async

TwoThenOne == [c \in Fds |-> IF c = 1 THEN 2 ELSE 1]
SomeLines == [c \in Fds |-> IF c = 1 THEN <<"@done", "+">> ELSE <<"+">>]
SomeMasks == {{"+", "close"}}
=============================================================================
