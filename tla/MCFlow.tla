------------------------------- MODULE MCFlow -------------------------------
(* Instances of Flow.                                                      *)
EXTENDS Flow
=============================================================================
