------------------------------ MODULE MCDevice ------------------------------
(* Instances of Device: every driver, and configurations it may refuse.    *)
EXTENDS Device

MCStarts == {<<>>}
MCAsks == {[fmt |-> "ulaw", rate |-> 6, prec |-> 8, chan |-> 1],
           [fmt |-> "linear16", rate |-> 7, prec |-> 16],
           [fmt |-> "none", rate |-> 8, prec |-> 12, chan |-> 2]}
=============================================================================
