------------------------------ MODULE MCLogin ------------------------------
(* Logging in, checked by TLC.                                             *)
EXTENDS Login
=============================================================================
