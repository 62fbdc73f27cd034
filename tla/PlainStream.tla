----------------------------- MODULE PlainStream -----------------------------
(***************************************************************************)
(* What the reader of media files promises libvlc: the plain bytes of the  *)
(* medium it has opened, in their places, however they are sought and      *)
(* however many are asked for at a time.  A byte that is not of the medium *)
(* comes only past its end or when the device fails, and after it the      *)
(* places are wrong until the next seek.                                   *)
(***************************************************************************)
EXTENDS Integers

CONSTANTS Media,      (* the media                                         *)
          Size,       (* their sizes                                       *)
          NoMedium,
          Chunk       (* bytes read at a time, at most                     *)

VARIABLES medium, (* the medium that is open                               *)
          offset, (* the place libvlc is at                                *)
          lost,   (* whether the places are wrong                          *)
          got,    (* the bytes of the last read                            *)
          faults  (* failures of the device so far                         *)

vars == <<medium, offset, lost, got, faults>>

\* The byte at place x of medium m, and one that is of none.
Plain(m, x) == [of |-> m, at |-> x]

Junk == [of |-> NoMedium, at |-> 0]

Bytes(m, x, n) == [i \in 1..n |-> Plain(m, x + i - 1)]

Init == /\ medium = NoMedium /\ offset = 0 /\ lost = FALSE /\ got = << >>
        /\ faults = 0

Open == /\ medium = NoMedium
        /\ medium' \in Media
        /\ offset' = 0 /\ lost' = FALSE /\ got' = << >>
        /\ UNCHANGED faults

\* Where the places are right, the bytes are those of the place.
Read == /\ medium # NoMedium
        /\ \E n \in 1..Chunk :
             /\ offset' = offset + n
             /\ IF lost
                THEN \E x \in 0..(Size[medium] - 1) : got' = Bytes(medium, x, n)
                ELSE /\ offset + n <= Size[medium]
                     /\ got' = Bytes(medium, offset, n)
        /\ UNCHANGED <<medium, lost, faults>>

Slip == /\ medium # NoMedium
        /\ \/ lost /\ UNCHANGED faults
           \/ offset >= Size[medium] /\ UNCHANGED faults
           \/ faults' = faults + 1
        /\ offset' = offset + 1 /\ lost' = TRUE /\ got' = <<Junk>>
        /\ UNCHANGED medium

Seek == /\ medium # NoMedium
        /\ offset' \in Nat /\ lost' = FALSE /\ got' = << >>
        /\ UNCHANGED <<medium, faults>>

\* A call that fails and changes nothing.
Refuse == faults' = faults + 1 /\ UNCHANGED <<medium, offset, lost, got>>

Close == /\ medium # NoMedium
         /\ medium' = NoMedium
         /\ offset' = 0 /\ lost' = FALSE /\ got' = << >>
         /\ UNCHANGED faults

Next == Open \/ Read \/ Slip \/ Seek \/ Refuse \/ Close

Spec == Init /\ [][Next]_vars
=============================================================================
