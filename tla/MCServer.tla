----------------------------- MODULE MCServer ------------------------------
(* The server's processes, checked by TLC.                                 *)
EXTENDS Server
=============================================================================
