------------------------------ MODULE MCCodec ------------------------------
(* Codec for TLC.                                                          *)
EXTENDS Codec

(* Silence, then the loudest square wave; a soft tone; a ripple at a high  *)
(* level, where u-law and A-law codes are coarser than the ADPCM codes.    *)
MCWaves ==
    {[i \in 1..23 |-> IF i < 6 THEN 0
                      ELSE IF (i \div 4) % 2 = 0 THEN 32767 ELSE -32768],
     [i \in 1..23 |-> IF i % 2 = 0 THEN 300 ELSE -300],
     [i \in 1..39 |-> 8000 + ((i * i * 7) % 97)]}

(* Noise, and a short frame with a square wave.                            *)
MCFrames == <<[i \in 1..160 |-> ((i * i * 7919) % 20011) - 10000],
              [i \in 1..100 |-> IF (i \div 10) % 2 = 0 THEN 30000
                                                       ELSE -30000]>>

MCLtps == {[Nc |-> 40, bc |-> 3], [Nc |-> 103, bc |-> 1]}

MCOptions ==
    {[format |-> "u-law", f_force |-> FALSE, f_precious |-> FALSE],
     [format |-> "linear", f_force |-> TRUE, f_precious |-> FALSE],
     [format |-> "A-law", f_force |-> FALSE, f_precious |-> TRUE]}

MCCoders == {g721, g723_24, g723_40}
=============================================================================
