------------------------------ MODULE MCMedia ------------------------------
(* The reader of media files, checked by TLC: one file within the width of  *)
(* its counter and the key, one beyond both.                                *)
EXTENDS Media

CONSTANTS short, long

MCMediaFiles == {short, long}

MCSize == [m \in {short, long} |-> IF m = short THEN 3 ELSE 9]
=============================================================================
