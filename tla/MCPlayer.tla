----------------------------- MODULE MCPlayer ------------------------------
(* Playback, checked by TLC.                                               *)
EXTENDS Player
=============================================================================
