------------------------------ MODULE MCWindow ------------------------------
(* The window, its modes and timers, checked by TLC.                       *)
EXTENDS Window
=============================================================================
