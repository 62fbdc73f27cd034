-------------------------------- MODULE Media --------------------------------
(***************************************************************************)
(* The media files of the client.  vlchelper gives libvlc a medium whose   *)
(* bytes come from callbacks of vlcmedia, and these hand every call on to  *)
(* the one MediaMP4, which opens the file and undoes its encoding: the     *)
(* byte at place x was combined with the byte of the key at place          *)
(* (the low bits of the file's size + x) modulo the size of the key.       *)
(*                                                                         *)
(* The GUI thread prepares, plays and stops; the input thread of libvlc    *)
(* opens, reads, seeks and closes.  libvlc's stop returns when the input   *)
(* thread has ended, so a medium is prepared only while none is read.      *)
(***************************************************************************)
EXTENDS Integers, Sequences

CONSTANTS Media,     (* files                                              *)
          Size,      (* their sizes                                        *)
          KeySize,   (* bytes of the key                                   *)
          Width,     (* values of uint16_t: 2^16 in the code               *)
          Chunk,     (* bound: bytes read at a time                        *)
          Past,      (* bound: places past the end libvlc goes to          *)
          MaxFaults, (* bound: calls that fail                             *)
          NoMedium

ASSUME MediaAssumption ==
  /\ Size \in [Media -> Nat] /\ NoMedium \notin Media
  /\ KeySize \in Nat \ {0} /\ Width \in Nat \ {0}
  /\ Chunk \in Nat /\ Past \in Nat /\ MaxFaults \in Nat

VARIABLES
  strPath, (* the file vlcmedia was last set to                            *)
  input,   (* libvlc's input: "none", "starting", "open"                   *)
  offset,  (* the place it takes the stream to be at                       *)
  file,    (* the QFile: its name, whether it is open, its position        *)
  pos,     (* MediaMP4's pos, uninitialised until a file is opened         *)
  got,     (* the bytes of the last read, and the key's byte for each      *)
  faults

vars == <<strPath, input, offset, file, pos, got, faults>>

NoFile == [name |-> NoMedium, open |-> FALSE, at |-> 0]

\* A byte libvlc was given: where it is from and the key it was decoded with.
Byte(m, x, k) == [of |-> m, at |-> x, key |-> k]

Init == /\ strPath = NoMedium
        /\ input = "none" /\ offset = 0 /\ got = << >>
        /\ file = NoFile
        /\ pos \in 0..(Width - 1)
        /\ faults = 0

Fault == faults < MaxFaults /\ faults' = faults + 1
-----------------------------------------------------------------------------
(* The GUI thread.                                                         *)

\* prepare, of the medium clicked on.
Prepare ==
  /\ input = "none"
  /\ strPath' \in Media
  /\ UNCHANGED <<input, offset, file, pos, got, faults>>

Play ==
  /\ input = "none" /\ strPath # NoMedium
  /\ input' = "starting"
  /\ UNCHANGED <<strPath, offset, file, pos, got, faults>>
-----------------------------------------------------------------------------
(* The input thread.                                                       *)

\* Mutant of Opened: the key's place is that of the first file for ever.
OpenedKeepsPlace == UNCHANGED pos

\* Mutant of Opened: the size is not cut to 16 bits.
OpenedWide == pos' = Size[strPath]

\* Where in the key the file begins.
Opened == pos' = Size[strPath] % Width

\* open: the last QFile is deleted, the new one starts at 0.
Open ==
  /\ input = "starting"
  /\ file' = [name |-> strPath, open |-> TRUE, at |-> 0]
  /\ Opened
  /\ input' = "open" /\ offset' = 0 /\ got' = << >>
  /\ UNCHANGED <<strPath, faults>>

\* The file cannot be opened, and libvlc calls nothing more.
OpenFails ==
  /\ input = "starting" /\ Fault
  /\ file' = [name |-> strPath, open |-> FALSE, at |-> 0]
  /\ input' = "none"
  /\ UNCHANGED <<strPath, offset, pos, got>>

\* The n bytes at the position of the file.
Decoded(n) ==
  [i \in 1..n |-> Byte(file.name, file.at + i - 1,
                       (pos + file.at + i - 1) % KeySize)]

Read ==
  /\ input = "open"
  /\ \E n \in 1..Chunk :
       /\ file.at + n <= Size[file.name]
       /\ got' = Decoded(n)
       /\ file' = [file EXCEPT !.at = @ + n]
       /\ offset' = offset + n
  /\ UNCHANGED <<strPath, input, pos, faults>>

\* Nothing is read, at the end or because the device fails; the code answers
\* ReadError, which is 1, and libvlc takes what is in its buffer for a byte.
ReadNothing ==
  /\ input = "open" /\ offset < Size[file.name] + Past
  /\ \/ file.at >= Size[file.name] /\ UNCHANGED faults
     \/ file.at < Size[file.name] /\ Fault
  /\ got' = <<Byte(NoMedium, 0, 0)>>
  /\ offset' = offset + 1
  /\ UNCHANGED <<strPath, input, file, pos>>

\* To any place libvlc names: QFile takes those past the end too.
Seek ==
  /\ input = "open"
  /\ \E x \in 0..(Size[file.name] + Past) :
       file' = [file EXCEPT !.at = x] /\ offset' = x
  /\ got' = << >>
  /\ UNCHANGED <<strPath, input, pos, faults>>

SeekFails ==
  /\ input = "open" /\ Fault
  /\ UNCHANGED <<strPath, input, offset, file, pos, got>>

\* Mutant of Close: the file stays open until the next one is.
CloseLater ==
  /\ input = "open"
  /\ input' = "none" /\ offset' = 0 /\ got' = << >>
  /\ UNCHANGED <<strPath, file, pos, faults>>

\* close, when the input ends or is stopped.
Close ==
  /\ input = "open"
  /\ file' = [file EXCEPT !.open = FALSE]
  /\ input' = "none" /\ offset' = 0 /\ got' = << >>
  /\ UNCHANGED <<strPath, pos, faults>>
-----------------------------------------------------------------------------
Next == \/ Prepare \/ Play \/ Open \/ OpenFails \/ Read \/ ReadNothing \/ Seek
        \/ SeekFails \/ Close

Spec == Init /\ [][Next]_vars
-----------------------------------------------------------------------------
(* Properties.                                                             *)

TypeOK ==
  /\ strPath \in Media \union {NoMedium}
  /\ input \in {"none", "starting", "open"}
  /\ offset \in Nat
  /\ file \in [name : Media \union {NoMedium}, open : BOOLEAN, at : Nat]
  /\ pos \in 0..(Width - 1)
  /\ faults \in 0..MaxFaults

\* The file that is open is the one of the last medium prepared, open exactly
\* while libvlc's input is: failed opens and the QFile objects they leave, stops and
\* ends leave no file open and no input without one (mediamp4.cpp:29-61, 97-103).
FileFollowsInput ==
  /\ file.open <=> input = "open"
  /\ file.open => file.name = strPath /\ strPath # NoMedium

\* The place of the key's byte that the byte at x of a file was encoded with.
KeyAt(m, x) == ((Size[m] % Width) + x) % KeySize

\* What a byte is worth: the plain byte if its key is the one it was encoded with.
PlainByte(b) ==
  IF b.of # NoMedium /\ b.key = KeyAt(b.of, b.at)
  THEN [of |-> b.of, at |-> b.at]
  ELSE [of |-> NoMedium, at |-> 0]

Stream == INSTANCE PlainStream WITH
            medium <- IF input = "open" THEN file.name ELSE NoMedium,
            lost <- input = "open" /\ offset # file.at,
            got <- [i \in DOMAIN got |-> PlainByte(got[i])]

\* Whatever was opened before, and however libvlc reads and seeks, it gets the
\* plain bytes of the medium in their places until a read finds nothing
\* (mediamp4.cpp:56, 70-82, 86-95).
StreamSpec == Stream!Spec
=============================================================================
