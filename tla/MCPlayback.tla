----------------------------- MODULE MCPlayback -----------------------------
(***************************************************************************)
(* Constants of the TLC runs of Playback.                                  *)
(***************************************************************************)
EXTENDS Playback

=============================================================================
