---------------------------- MODULE MediaProofs ----------------------------
(* Proofs about the reader of media files, for any files, key and widths:  *)
(* it implements PlainStream.                                              *)
EXTENDS Media, TLAPS

\* What the two properties need besides: a file that is read has its own place in
\* the key, libvlc is never behind the file, and nothing is left of the last input
\* when none is open.
KeyOfFile ==
  input = "open" =>
    /\ file.name \in Media
    /\ pos = Size[file.name] % Width
    /\ file.at <= offset

NothingLeft == input # "open" => offset = 0 /\ got = << >>

Prepared == input = "starting" => strPath # NoMedium

IInv == TypeOK /\ FileFollowsInput /\ KeyOfFile /\ NothingLeft /\ Prepared

LEMMA PlaceFits == \A m \in Media : Size[m] \in Nat /\ Size[m] % Width \in 0..(Width - 1)
BY MediaAssumption

LEMMA InitIInv == Init => IInv
BY MediaAssumption DEF Init, IInv, TypeOK, FileFollowsInput, KeyOfFile,
   NothingLeft, Prepared, NoFile

LEMMA NextIInv == IInv /\ [Next]_vars => IInv'
<1> SUFFICES ASSUME IInv, [Next]_vars PROVE IInv'
  OBVIOUS
<1>0. /\ TypeOK /\ FileFollowsInput /\ KeyOfFile /\ NothingLeft /\ Prepared
      /\ MaxFaults \in Nat /\ Chunk \in Nat /\ NoMedium \notin Media
  BY MediaAssumption DEF IInv
<1> USE DEF TypeOK, FileFollowsInput, KeyOfFile, NothingLeft, Prepared
<1>1. CASE Prepare
  BY <1>0, <1>1 DEF Prepare, IInv
<1>2. CASE Play
  BY <1>0, <1>2 DEF Play, IInv
<1>3. CASE Open
  <2>1. strPath \in Media
    BY <1>0, <1>3 DEF Open
  <2>2. pos' = Size[strPath] % Width /\ pos' \in 0..(Width - 1)
    BY <1>3, <2>1, PlaceFits DEF Open, Opened
  <2> QED
    BY <1>0, <1>3, <2>1, <2>2, PlaceFits DEF Open, IInv
<1>4. CASE OpenFails
  BY <1>0, <1>4 DEF OpenFails, Fault, IInv
<1>5. CASE Read
  <2>1. PICK n \in 1..Chunk : /\ file.at + n <= Size[file.name]
                              /\ file' = [file EXCEPT !.at = @ + n]
                              /\ offset' = offset + n
    BY <1>5 DEF Read
  <2>2. /\ input = "open" /\ UNCHANGED <<strPath, input, pos, faults>>
    BY <1>5 DEF Read
  <2> QED
    BY <1>0, <2>1, <2>2, PlaceFits DEF IInv
<1>6. CASE ReadNothing
  BY <1>0, <1>6 DEF ReadNothing, Fault, IInv
<1>7. CASE Seek
  <2>1. PICK x \in 0..(Size[file.name] + Past) : /\ file' = [file EXCEPT !.at = x]
                                                 /\ offset' = x
    BY <1>7 DEF Seek
  <2>2. /\ input = "open" /\ UNCHANGED <<strPath, input, pos, faults>>
        /\ x \in Nat
    BY <1>7 DEF Seek
  <2> QED
    BY <1>0, <2>1, <2>2, PlaceFits DEF IInv
<1>8. CASE SeekFails
  BY <1>0, <1>8 DEF SeekFails, Fault, IInv
<1>9. CASE Close
  BY <1>0, <1>9 DEF Close, IInv
<1>10. CASE UNCHANGED vars
  BY <1>0, <1>10 DEF vars, IInv
<1> QED
  BY <1>1, <1>2, <1>3, <1>4, <1>5, <1>6, <1>7, <1>8, <1>9, <1>10 DEF Next

LEMMA MediaInvariant == Spec => []IInv
BY InitIInv, NextIInv, PTL DEF Spec

\* The variables keep their types; the place in the key stays below 2^16, however
\* large the files are (mediamp4.cpp:56).
THEOREM MediaTypes == Spec => []TypeOK
<1>1. IInv => TypeOK
  BY DEF IInv
<1> QED
  BY <1>1, MediaInvariant, PTL

\* No file is left open and none is read that is not (mediamp4.cpp:29-61, 97-103).
THEOREM FilesFollowInputs == Spec => []FileFollowsInput
<1>1. IInv => FileFollowsInput
  BY DEF IInv
<1> QED
  BY <1>1, MediaInvariant, PTL

\* The variables of PlainStream.
Medium == IF input = "open" THEN file.name ELSE NoMedium

Lost == input = "open" /\ offset # file.at

Given == [i \in DOMAIN got |-> PlainByte(got[i])]

LEMMA InitStream == Init => Stream!Init
BY DEF Init, Stream!Init, NoFile

\* What Read hands over decodes to the bytes of the file.
LEMMA DecodedIsPlain ==
  ASSUME IInv, input = "open", NEW n \in Nat
  PROVE  [i \in DOMAIN Decoded(n) |-> PlainByte(Decoded(n)[i])]
           = Stream!Bytes(file.name, file.at, n)
<1>1. /\ file.name \in Media /\ file.name # NoMedium /\ file.at \in Nat
      /\ pos = Size[file.name] % Width /\ pos \in Nat
  BY MediaAssumption DEF IInv, KeyOfFile, TypeOK
<1>2. ASSUME NEW i \in 1..n
      PROVE  PlainByte(Decoded(n)[i])
               = [of |-> file.name, at |-> file.at + i - 1]
  <2>1. Decoded(n)[i] = [of |-> file.name, at |-> file.at + i - 1,
                         key |-> (pos + file.at + i - 1) % KeySize]
    BY DEF Decoded, Byte
  <2>2. pos + file.at + i - 1 = pos + (file.at + i - 1)
    BY <1>1
  <2>3. (pos + file.at + i - 1) % KeySize = KeyAt(file.name, file.at + i - 1)
    BY <1>1, <2>2 DEF KeyAt
  <2> QED
    BY <1>1, <2>1, <2>3 DEF PlainByte
<1>3. DOMAIN Decoded(n) = 1..n
  BY DEF Decoded
<1> QED
  BY <1>2, <1>3 DEF Stream!Bytes, Stream!Plain

LEMMA NextStream == IInv /\ [Next]_vars => [Stream!Next]_(Stream!vars)
<1> SUFFICES ASSUME IInv, [Next]_vars
             PROVE  Stream!Next \/ UNCHANGED Stream!vars
  OBVIOUS
<1>0. /\ TypeOK /\ FileFollowsInput /\ KeyOfFile /\ NothingLeft /\ Prepared
      /\ NoMedium \notin Media
  BY MediaAssumption DEF IInv
<1>1. CASE Prepare
  BY <1>1 DEF Prepare, Stream!vars
<1>2. CASE Play
  BY <1>2 DEF Play, Stream!vars
<1>3. CASE Open
  <2>1. Stream!Open
    BY <1>0, <1>3 DEF Open, Stream!Open, Prepared, TypeOK
  <2> QED
    BY <2>1 DEF Stream!Next
<1>4. CASE OpenFails
  <2>1. Stream!Refuse
    BY <1>0, <1>4 DEF OpenFails, Fault, Stream!Refuse
  <2> QED
    BY <2>1 DEF Stream!Next
<1>5. CASE Read
  <2>1. PICK n \in 1..Chunk :
          /\ file.at + n <= Size[file.name]
          /\ got' = Decoded(n)
          /\ file' = [file EXCEPT !.at = @ + n]
          /\ offset' = offset + n
    BY <1>5 DEF Read
  <2>2. /\ input = "open" /\ input' = "open" /\ UNCHANGED faults
        /\ file.name \in Media /\ file.name # NoMedium
        /\ file'.name = file.name /\ file'.at = file.at + n
        /\ file.at \in Nat /\ offset \in Nat /\ n \in Nat
        /\ Size[file.name] \in Nat
    BY <1>0, <1>5, <2>1, PlaceFits, MediaAssumption DEF Read, TypeOK, KeyOfFile
  <2>3. Given' = Stream!Bytes(file.name, file.at, n)
    BY <2>1, <2>2, DecodedIsPlain DEF Given
  <2>4. (offset' # file'.at) <=> (offset # file.at)
    BY <2>1, <2>2
  <2>5. file.at \in 0..(Size[file.name] - 1)
    BY <2>1, <2>2
  <2>6. Stream!Read
    BY <2>1, <2>2, <2>3, <2>4, <2>5 DEF Stream!Read, Given
  <2> QED
    BY <2>6 DEF Stream!Next
<1>6. CASE ReadNothing
  <2>1. /\ input = "open" /\ input' = "open" /\ offset' = offset + 1
        /\ file' = file /\ file.name # NoMedium /\ file.at <= offset
        /\ file.at \in Nat /\ offset \in Nat
    BY <1>0, <1>6 DEF ReadNothing, KeyOfFile, TypeOK
  <2>2. Given' = <<Stream!Junk>>
    <3>1. DOMAIN got' = 1..1 /\ got'[1] = Byte(NoMedium, 0, 0)
      BY <1>6 DEF ReadNothing
    <3>2. PlainByte(got'[1]) = Stream!Junk
      BY <3>1 DEF PlainByte, Byte, Stream!Junk
    <3>3. \A i \in 1..1 : PlainByte(got'[i]) = Stream!Junk
      BY <3>2
    <3> QED
      BY <3>1, <3>3 DEF Given
  <2>3. \/ offset # file.at /\ UNCHANGED faults
        \/ offset >= Size[file.name] /\ UNCHANGED faults
        \/ faults' = faults + 1
    BY <1>6 DEF ReadNothing, Fault
  <2>4. offset' # file'.at
    BY <2>1
  <2>5. Stream!Slip
    BY <2>1, <2>2, <2>3, <2>4 DEF Stream!Slip, Given
  <2> QED
    BY <2>5 DEF Stream!Next
<1>7. CASE Seek
  <2>1. PICK x \in 0..(Size[file.name] + Past) : /\ file' = [file EXCEPT !.at = x]
                                                 /\ offset' = x
    BY <1>7 DEF Seek
  <2>2. /\ input = "open" /\ input' = "open" /\ UNCHANGED faults /\ got' = << >>
        /\ file.name # NoMedium /\ x \in Nat
    BY <1>0, <1>7 DEF Seek, KeyOfFile
  <2>3. file'.name = file.name /\ file'.at = x
    BY <1>0, <2>1 DEF TypeOK
  <2>4. Stream!Seek
    BY <2>1, <2>2, <2>3 DEF Stream!Seek
  <2> QED
    BY <2>4 DEF Stream!Next
<1>8. CASE SeekFails
  <2>1. Stream!Refuse
    BY <1>8 DEF SeekFails, Fault, Stream!Refuse
  <2> QED
    BY <2>1 DEF Stream!Next
<1>9. CASE Close
  <2>1. Stream!Close
    BY <1>0, <1>9 DEF Close, KeyOfFile, Stream!Close
  <2> QED
    BY <2>1 DEF Stream!Next
<1>10. CASE UNCHANGED vars
  BY <1>10 DEF vars, Stream!vars
<1> QED
  BY <1>1, <1>2, <1>3, <1>4, <1>5, <1>6, <1>7, <1>8, <1>9, <1>10 DEF Next

\* The reader implements PlainStream: whatever was opened before, and however
\* libvlc reads and seeks, it gets the plain bytes in their places until a read
\* finds nothing (mediamp4.cpp:56, 70-82, 86-95).
THEOREM BytesArePlain == Spec => StreamSpec
<1>1. Spec => Stream!Init /\ [][Stream!Next]_(Stream!vars)
  BY InitStream, NextStream, MediaInvariant, PTL DEF Spec
<1> QED
  BY <1>1 DEF StreamSpec, Stream!Spec
=============================================================================
