---------------------------- MODULE MCSession ----------------------------
(* Instances of Session.                                                   *)
EXTENDS Session
=============================================================================
