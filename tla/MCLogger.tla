----------------------------- MODULE MCLogger ------------------------------
(* The log server and its writers, checked by TLC.                         *)
EXTENDS Logger
=============================================================================
