------------------------------ MODULE MCThread ------------------------------
(* The class Thread, checked by TLC.                                       *)
EXTENDS Thread
=============================================================================
