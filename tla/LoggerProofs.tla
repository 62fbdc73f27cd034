---------------------------- MODULE LoggerProofs ----------------------------
(***************************************************************************)
(* What holds of the log server and its writers for any number of threads, *)
(* records, failures and kills.                                            *)
(*                                                                         *)
(* What is written, what ThreadFunc has read and what is on the way are    *)
(* one sequence, as long as the connection lasts and the log file is open: *)
(* Flow counts it, HolesAreFailedWrites and the refinement of RecordLog    *)
(* follow from it.                                                         *)
(***************************************************************************)
EXTENDS Logger, SequenceTheorems, TLAPS

\* The reading thread exists only in a log process that is up, holds data only of
\* the client it serves, and nobody connects to a server that is closed.
ThreadInv ==
  /\ log \in {"down", "starting"} => cur = "off"
  /\ cur = "off" => snap = {}
  /\ data # << >> => cur \in Writers
  /\ hasFile => cur \in Writers /\ data # << >>
  /\ path = "live" => log \in {"starting", "up"}

\* What the thread looks at, or will, is open, and it looks at nothing twice.
ServedInv ==
  /\ cur \notin snap
  /\ \A c \in Writers : c \in snap \/ cur = c => conn[c] = "open"

\* A connection that never was has carried nothing.
FreshInv ==
  \A c \in Writers :
    /\ conn[c] = "none" => written[c] = << >> /\ stream[c] = << >>
    /\ status[c] = "fresh" => conn[c] = "none" /\ traced[c] = 0
    /\ status[c] = "linked" => conn[c] # "none"
    /\ status[c] = "closed" => conn[c] = "none"

\* Records of c that have been read.
Taken(c) == Len(written[c]) + (IF cur = c THEN Len(data) ELSE 0)

LEMMA Shift ==
  ASSUME NEW a \in Nat, NEW b \in Nat, NEW n \in Nat
  PROVE  (a + n) + (b - n) = a + b
OBVIOUS

\* Written, data and stream of c number its records one after the other.
Flow(c) ==
  /\ cur = c => \A i \in 1..Len(data) : data[i] = Len(written[c]) + i
  /\ \A i \in 1..Len(stream[c]) : stream[c][i] = Taken(c) + i
  /\ Taken(c) + Len(stream[c]) = traced[c]

FlowInv == \A c \in Writers : Linked(c) => Flow(c)

\* What is written does not depend on a connection.
WrittenInv == \A c \in Writers :
                Prefix(written[c]) /\ Len(written[c]) <= traced[c]

\* Only what was written failed to be, and only if some call did fail.
FailedInv == \A c \in Writers : /\ failed[c] \subseteq 1..Len(written[c])
                                /\ faults = 0 => failed[c] = {}

IInv == /\ TypeOK /\ ThreadInv /\ ServedInv /\ FreshInv
        /\ FlowInv /\ WrittenInv /\ FailedInv

\* The lengths the flow is counted in.
LEMMA Lengths ==
  ASSUME TypeOK
  PROVE  /\ Len(data) \in Nat
         /\ \A c \in Writers : /\ Len(written[c]) \in Nat
                               /\ Len(stream[c]) \in Nat
                               /\ traced[c] \in Nat /\ Taken(c) \in Nat
<1>1. /\ data \in Seq(Nat)
      /\ \A c \in Writers : /\ written[c] \in Seq(Nat) /\ stream[c] \in Seq(Nat)
                            /\ traced[c] \in Nat
  BY DEF TypeOK
<1>2. /\ Len(data) \in Nat
      /\ \A c \in Writers : Len(written[c]) \in Nat /\ Len(stream[c]) \in Nat
  BY <1>1, LenProperties
<1>3. ASSUME NEW c \in Writers PROVE Taken(c) \in Nat
  <2>1. CASE cur = c
    BY <1>2, <2>1 DEF Taken
  <2>2. CASE cur # c
    BY <1>2, <2>2 DEF Taken
  <2> QED
    BY <2>1, <2>2
<1> QED
  BY <1>1, <1>2, <1>3

LEMMA InitIInv == Init => IInv
<1> SUFFICES ASSUME Init PROVE IInv
  OBVIOUS
<1>1. TypeOK
  BY EmptySeq DEF Init, TypeOK
<1>2. ThreadInv /\ ServedInv
  BY LoggerAssumption DEF Init, ThreadInv, ServedInv
<1>3. FreshInv /\ FlowInv
  BY DEF Init, FreshInv, FlowInv, Linked
<1>4. WrittenInv /\ FailedInv
  <2>1. \A c \in Writers : written[c] = << >> /\ traced[c] = 0 /\ failed[c] = {}
    BY DEF Init
  <2> QED
    BY <2>1 DEF WrittenInv, FailedInv, Prefix
<1> QED
  BY <1>1, <1>2, <1>3, <1>4 DEF IInv

\* A connection that has carried nothing yet.
Empty(c) == written[c] = << >> /\ stream[c] = << >> /\ traced[c] = 0 /\ cur # c

\* A step that moves no record keeps the flow.
LEMMA FlowUnmoved ==
  ASSUME TypeOK, FlowInv, WrittenInv, UNCHANGED <<written, failed, stream>>,
         \A c \in Writers : traced'[c] \in Nat /\ traced'[c] >= traced[c],
         \A c \in Writers :
           Linked(c)' =>
             \/ /\ Linked(c)
                /\ cur' = c => data' = IF cur = c THEN data ELSE << >>
                /\ cur' # c => cur # c \/ data = << >>
                /\ traced'[c] = traced[c]
             \/ Empty(c) /\ Empty(c)'
  PROVE  FlowInv' /\ WrittenInv'
<1>1. WrittenInv'
  <2> SUFFICES ASSUME NEW c \in Writers
               PROVE  Prefix(written[c]) /\ Len(written[c]) <= traced'[c]
    BY DEF WrittenInv, Prefix
  <2>1. Len(written[c]) <= traced[c] /\ traced'[c] >= traced[c]
        /\ Prefix(written[c])
    BY DEF WrittenInv
  <2>2. Len(written[c]) \in Nat /\ traced[c] \in Nat /\ traced'[c] \in Nat
    BY Lengths
  <2> QED
    BY <2>1, <2>2
<1>2. ASSUME NEW c \in Writers, Linked(c)'
      PROVE  Flow(c)'
  <2>0. /\ Len(written[c]) \in Nat /\ Len(stream[c]) \in Nat
        /\ Len(data) \in Nat
        /\ Taken(c) \in Nat /\ traced[c] \in Nat
        /\ traced'[c] \in Nat /\ traced'[c] >= traced[c]
        /\ written'[c] = written[c] /\ stream'[c] = stream[c]
    BY <1>2, Lengths
  <2>1. CASE /\ Linked(c)
             /\ cur' = c => data' = IF cur = c THEN data ELSE << >>
             /\ cur' # c => cur # c \/ data = << >>
             /\ traced'[c] = traced[c]
    <3>1. Flow(c)
      BY <2>1 DEF FlowInv, Linked
    <3>2. Taken(c)' = Taken(c)
      BY <2>1, <2>0 DEF Taken
    <3>3. cur' = c => \A i \in 1..Len(data') : data'[i] = Len(written[c]) + i
      <4>1. CASE cur = c
        BY <2>1, <3>1, <4>1 DEF Flow
      <4>2. CASE cur # c
        BY <2>1, <4>2
      <4> QED
        BY <4>1, <4>2
    <3>4. \A i \in 1..Len(stream'[c]) : stream'[c][i] = Taken(c)' + i
      BY <2>0, <3>1, <3>2 DEF Flow
    <3>5. Taken(c) + Len(stream[c]) = traced[c]
      BY <3>1 DEF Flow
    <3>6. Taken(c)' + Len(stream'[c]) = traced'[c]
      BY <2>0, <2>1, <3>2, <3>5
    <3> QED
      BY <2>0, <3>3, <3>4, <3>6 DEF Flow
  <2>2. CASE Empty(c) /\ Empty(c)'
    <3>1. Taken(c)' = 0 /\ Len(stream'[c]) = 0 /\ cur' # c /\ traced'[c] = 0
      BY <2>0, <2>2 DEF Taken, Empty
    <3> QED
      BY <3>1 DEF Flow
  <2> QED
    BY <1>2, <2>1, <2>2
<1> QED
  BY <1>1, <1>2 DEF FlowInv, Linked

StructInv == TypeOK /\ ThreadInv /\ ServedInv /\ FreshInv

\* Steps that touch neither a writer nor the reading thread's data.
LEMMA StartingStruct == StructInv /\ Starting => StructInv'
<1> SUFFICES ASSUME StructInv, Starting PROVE StructInv'
  OBVIOUS
<1>0. TypeOK /\ ThreadInv /\ ServedInv /\ FreshInv
  BY DEF StructInv
<1>1. CASE StartFailsEarly \/ StartOnTakenPath \/ StartListens
  <2>1. /\ UNCHANGED <<threadVars, writerVars, conn, written, failed, crash,
                       crashes>>
        /\ faults' \in Nat
        /\ log = "down" /\ log' \in {"down", "starting"}
        /\ path' \in {path, "none", "live"} /\ path' = "live" /\ path # "live"
             => log' = "starting"
        /\ path' \in {"none", "stale", "live"}
    BY <1>0, <1>1 DEF StartFailsEarly, StartOnTakenPath, StartListens, Fault,
       TypeOK
  <2>2. path' = "live" => log' \in {"starting", "up"}
    BY <1>0, <1>1 DEF StartFailsEarly, StartOnTakenPath, StartListens, ThreadInv
  <2>3. TypeOK'
    BY <1>0, <2>1 DEF TypeOK, threadVars, writerVars
  <2>4. ThreadInv' /\ ServedInv' /\ FreshInv'
    BY <1>0, <2>1, <2>2 DEF ThreadInv, ServedInv, FreshInv, threadVars,
       writerVars
  <2> QED
    BY <2>3, <2>4 DEF StructInv
<1>2. CASE StartThread
  <2>1. TypeOK'
    BY <1>0, <1>2 DEF StartThread, TypeOK, writerVars
  <2>2. /\ log' = "up" /\ cur' = "idle" /\ cur = "off" /\ snap = {}
        /\ UNCHANGED <<path, snap, data, hasFile, conn, written, failed>>
        /\ UNCHANGED writerVars
    BY <1>0, <1>2 DEF StartThread, ThreadInv
  <2>3. data = << >> /\ ~ hasFile
    BY <1>0, <2>2, LoggerAssumption DEF ThreadInv, TypeOK
  <2>4. ThreadInv' /\ ServedInv'
    BY <2>2, <2>3, LoggerAssumption DEF ThreadInv, ServedInv
  <2>5. FreshInv'
    BY <1>0, <2>2 DEF FreshInv, writerVars
  <2> QED
    BY <2>1, <2>4, <2>5 DEF StructInv
<1>3. CASE StartFailsLate
  <2>1. /\ conn' = Severed /\ log' = "down" /\ path' = "none"
        /\ cur = "off" /\ snap = {} /\ faults' \in Nat
        /\ UNCHANGED threadVars /\ UNCHANGED writerVars
        /\ UNCHANGED <<written, failed, crash, crashes>>
    BY <1>0, <1>3 DEF StartFailsLate, Fault, ThreadInv, TypeOK
  <2>2. TypeOK'
    BY <1>0, <2>1 DEF TypeOK, Severed, threadVars, writerVars
  <2>3. ThreadInv' /\ ServedInv'
    BY <1>0, <2>1, LoggerAssumption DEF ThreadInv, ServedInv, threadVars
  <2>4. FreshInv'
    BY <1>0, <2>1 DEF FreshInv, Severed, writerVars
  <2> QED
    BY <2>2, <2>3, <2>4 DEF StructInv
<1> QED
  BY <1>1, <1>2, <1>3 DEF Starting

LEMMA ThreadStruct == StructInv /\ ThreadFunc => StructInv'
<1> SUFFICES ASSUME StructInv, ThreadFunc PROVE StructInv'
  OBVIOUS
<1>0. TypeOK /\ ThreadInv /\ ServedInv /\ FreshInv
  BY DEF StructInv
<1>1. CASE WaitForEpoll
  <2>1. /\ snap' = ReadySet /\ cur = "idle" /\ log = "up"
        /\ UNCHANGED <<path, log, cur, data, hasFile, conn, written, failed,
                       crash, faults, crashes>>
        /\ UNCHANGED writerVars
    BY <1>1 DEF WaitForEpoll
  <2>2. /\ snap' \subseteq Writers \union {"server"}
        /\ \A c \in Writers : c \in snap' => conn[c] = "open"
    BY <2>1, LoggerAssumption DEF ReadySet, Ready
  <2>3. TypeOK'
    BY <1>0, <2>1, <2>2 DEF TypeOK, writerVars
  <2>4. ThreadInv' /\ ServedInv'
    BY <1>0, <2>1, <2>2, LoggerAssumption DEF ThreadInv, ServedInv
  <2>5. FreshInv'
    BY <1>0, <2>1 DEF FreshInv, writerVars
  <2> QED
    BY <2>3, <2>4, <2>5 DEF StructInv
<1>2. ASSUME NEW f \in Writers \union {"server"}, Dispatch(f)
      PROVE  StructInv'
  <2>1. /\ f \in snap /\ snap' = snap \ {f} /\ cur = "idle"
        /\ crash' \in {"none", "uaf"} /\ cur' \in {cur, f}
        /\ UNCHANGED <<path, log, data, hasFile, conn, written, failed,
                       faults, crashes>>
        /\ UNCHANGED writerVars
    BY <1>2 DEF Dispatch
  <2>2. data = << >> /\ ~ hasFile
    BY <1>0, <2>1, LoggerAssumption DEF ThreadInv, TypeOK
  <2>3. TypeOK'
    BY <1>0, <2>1 DEF TypeOK, writerVars
  <2>4. ThreadInv'
    BY <1>0, <2>1, <2>2, LoggerAssumption DEF ThreadInv
  <2>5. ServedInv'
    BY <1>0, <2>1, LoggerAssumption DEF ServedInv, TypeOK
  <2>6. FreshInv'
    BY <1>0, <2>1 DEF FreshInv, writerVars
  <2> QED
    BY <2>3, <2>4, <2>5, <2>6 DEF StructInv
<1>3. CASE Accept \/ AcceptFails \/ RecvEnd
  <2>1. /\ cur \in Writers \union {"server"} /\ cur' = "idle"
        /\ crash' \in {"none", "uaf"} /\ faults' \in Nat
        /\ UNCHANGED <<path, log, snap, data, hasFile, written, failed,
                       crashes>>
        /\ UNCHANGED writerVars
    BY <1>0, <1>3 DEF Accept, AcceptFails, RecvEnd, Fault, TypeOK
  <2>2. data = << >> /\ ~ hasFile
    <3>1. CASE cur = "server"
      BY <1>0, <3>1, LoggerAssumption DEF ThreadInv, TypeOK
    <3>2. CASE RecvEnd
      BY <1>0, <3>2 DEF RecvEnd, ThreadInv
    <3> QED
      BY <1>3, <3>1, <3>2 DEF Accept, AcceptFails
  <2>3. /\ conn' \in [Writers -> {"none", "pending", "open", "gone"}]
        /\ \A c \in Writers : /\ conn'[c] = "none" => conn[c] = "none"
                              /\ conn[c] = "none" => conn'[c] = "none"
                              /\ conn[c] = "open" /\ c # cur
                                   => conn'[c] = "open"
    <3>1. CASE Accept
      <4>1. CASE conn' = conn
        BY <1>0, <4>1 DEF TypeOK
      <4>2. CASE conn' # conn
        <5>1. PICK c \in Writers :
                /\ conn[c] = "pending"
                /\ \/ conn' = [conn EXCEPT ![c] = "open"]
                   \/ conn' = [conn EXCEPT ![c] = "gone"]
          BY <3>1, <4>2 DEF Accept
        <5> QED
          BY <1>0, <5>1 DEF TypeOK
      <4> QED
        BY <4>1, <4>2
    <3>2. CASE AcceptFails
      BY <1>0, <3>2 DEF AcceptFails, TypeOK
    <3>3. CASE RecvEnd
      <4>1. /\ cur \in Writers /\ conn[cur] = "open"
            /\ conn' = [conn EXCEPT ![cur] = "gone"]
        BY <1>0, <3>3 DEF RecvEnd, ServedInv
      <4> QED
        BY <1>0, <4>1 DEF TypeOK
    <3> QED
      BY <1>3, <3>1, <3>2, <3>3
  <2>4. TypeOK'
    BY <1>0, <2>1, <2>3 DEF TypeOK, writerVars
  <2>5. ThreadInv'
    BY <1>0, <2>1, <2>2, LoggerAssumption DEF ThreadInv
  <2>6. ServedInv'
    BY <1>0, <2>1, <2>3, LoggerAssumption DEF ServedInv, TypeOK
  <2>7. FreshInv'
    BY <1>0, <2>1, <2>3 DEF FreshInv, writerVars
  <2> QED
    BY <2>4, <2>5, <2>6, <2>7 DEF StructInv
<1>4. CASE Recv
  <2>1. PICK n \in 1..Len(stream[cur]) :
          /\ data' = SubSeq(stream[cur], 1, n)
          /\ stream' = [stream EXCEPT ![cur] = SubSeq(@, n + 1, Len(@))]
    BY <1>4 DEF Recv
  <2>2. /\ cur \in Writers /\ ~ hasFile
        /\ UNCHANGED <<path, log, cur, snap, hasFile, status, conn, traced,
                       written, failed, crash, faults, crashes>>
    BY <1>0, <1>4 DEF Recv, ThreadInv
  <2>3. stream[cur] \in Seq(Nat) /\ Len(stream[cur]) \in Nat
    BY <1>0, <2>2, Lengths DEF TypeOK
  <2>4. /\ SubSeq(stream[cur], 1, n) \in Seq(Nat)
        /\ SubSeq(stream[cur], n + 1, Len(stream[cur])) \in Seq(Nat)
    <3>1. \A i \in 1..Len(stream[cur]) : stream[cur][i] \in Nat
      BY <2>3, ElementOfSeq
    <3> QED
      BY <2>3, <3>1, SubSeqProperties
  <2>5. TypeOK'
    BY <1>0, <2>1, <2>2, <2>4 DEF TypeOK
  <2>6. conn[cur] # "none"
    BY <1>0, <2>2 DEF ServedInv
  <2>7. ThreadInv' /\ ServedInv'
    BY <1>0, <2>2, LoggerAssumption DEF ThreadInv, ServedInv
  <2>8. FreshInv'
    BY <1>0, <2>1, <2>2, <2>6 DEF FreshInv, TypeOK
  <2> QED
    BY <2>5, <2>7, <2>8 DEF StructInv
<1>5. CASE FindFile
  <2>1. /\ cur \in Writers /\ data # << >>
        /\ \/ cur' = "idle" /\ data' = << >> /\ UNCHANGED hasFile /\ ~ hasFile
           \/ hasFile' = TRUE /\ UNCHANGED <<cur, data>>
        /\ UNCHANGED <<path, log, snap, conn, written, failed, crash, faults,
                       crashes>>
        /\ UNCHANGED writerVars
    BY <1>0, <1>5 DEF FindFile, ThreadInv
  <2>2. TypeOK'
    BY <1>0, <2>1, EmptySeq DEF TypeOK, writerVars
  <2>3. ThreadInv'
    BY <1>0, <2>1, LoggerAssumption DEF ThreadInv
  <2>5. "idle" \notin snap
    BY <1>0, LoggerAssumption DEF TypeOK
  <2>6. ServedInv'
    BY <1>0, <2>1, <2>5, LoggerAssumption DEF ServedInv
  <2>4. FreshInv'
    BY <1>0, <2>1 DEF FreshInv, writerVars
  <2> QED
    BY <2>2, <2>3, <2>4, <2>6 DEF StructInv
<1>6. CASE WriteLog
  <2>1. /\ cur \in Writers /\ data' = << >> /\ hasFile' = FALSE
        /\ cur' = "idle" /\ crash' \in {"none", "uaf"}
        /\ written' \in {written, [written EXCEPT ![cur] = @ \o data]}
        /\ faults' \in Nat
        /\ UNCHANGED <<path, log, snap, conn, crashes>>
        /\ UNCHANGED writerVars
    BY <1>0, <1>6 DEF WriteLog, ThreadInv, Fault, TypeOK
  <2>8. failed' \in [Writers -> SUBSET Nat]
    <3>1. \A n \in 1..Len(data) : {data[i] : i \in n..Len(data)} \subseteq Nat
      <4>1. data \in Seq(Nat) /\ Len(data) \in Nat
        BY <1>0, Lengths DEF TypeOK
      <4>2. \A i \in 1..Len(data) : data[i] \in Nat
        BY <4>1, ElementOfSeq
      <4>3. \A n \in 1..Len(data) : n..Len(data) \subseteq 1..Len(data)
        BY <4>1
      <4> QED
        BY <4>2, <4>3
    <3>2. failed \in [Writers -> SUBSET Nat]
      BY <1>0 DEF TypeOK
    <3>3. CASE UNCHANGED failed
      BY <3>2, <3>3
    <3>4. ASSUME NEW n \in 1..Len(data),
                 failed' = [failed EXCEPT ![cur] =
                              @ \union {data[i] : i \in n..Len(data)}]
          PROVE  failed' \in [Writers -> SUBSET Nat]
      BY <2>1, <3>1, <3>2, <3>4
    <3> QED
      BY <1>6, <3>3, <3>4 DEF WriteLog
  <2>2. written[cur] \o data \in Seq(Nat)
    BY <1>0, <2>1, ConcatProperties DEF TypeOK
  <2>7. written' \in [Writers -> Seq(Nat)] /\ data' \in Seq(Nat)
    <3>1. CASE UNCHANGED written
      BY <1>0, <2>1, <3>1, EmptySeq DEF TypeOK
    <3>2. CASE written' = [written EXCEPT ![cur] = written[cur] \o data]
      BY <1>0, <2>1, <2>2, <3>2, EmptySeq DEF TypeOK
    <3> QED
      BY <2>1, <3>1, <3>2
  <2>3. TypeOK'
    BY <1>0, <2>1, <2>7, <2>8 DEF TypeOK, writerVars
  <2>4. ThreadInv' /\ ServedInv'
    BY <1>0, <2>1, LoggerAssumption DEF ThreadInv, ServedInv, TypeOK
  <2>5. conn[cur] # "none"
    BY <1>0, <2>1 DEF ServedInv
  <2>6. FreshInv'
    BY <1>0, <2>1, <2>5 DEF FreshInv, TypeOK, writerVars
  <2> QED
    BY <2>3, <2>4, <2>6 DEF StructInv
<1>7. CASE ThreadEnds
  <2>1. /\ cur = "idle" /\ snap = {} /\ cur' = "off"
        /\ UNCHANGED <<path, log, snap, data, hasFile, conn, written, failed,
                       crash, faults, crashes>>
        /\ UNCHANGED writerVars
    BY <1>7 DEF ThreadEnds
  <2>2. data = << >> /\ ~ hasFile
    BY <1>0, <2>1, LoggerAssumption DEF ThreadInv, TypeOK
  <2>3. TypeOK'
    BY <1>0, <2>1 DEF TypeOK, writerVars
  <2>4. ThreadInv' /\ ServedInv'
    BY <1>0, <2>1, <2>2, LoggerAssumption DEF ThreadInv, ServedInv
  <2>5. FreshInv'
    BY <1>0, <2>1 DEF FreshInv, writerVars
  <2> QED
    BY <2>3, <2>4, <2>5 DEF StructInv
<1> QED
  BY <1>1, <1>2, <1>3, <1>4, <1>5, <1>6, <1>7 DEF ThreadFunc

LEMMA ClosingStruct == StructInv /\ Closing => StructInv'
<1> SUFFICES ASSUME StructInv, Closing PROVE StructInv'
  OBVIOUS
<1>0. TypeOK /\ ThreadInv /\ ServedInv /\ FreshInv
  BY DEF StructInv
<1>1. CASE CloseServer \/ CloseEpoll \/ CloseFile
  <2>1. /\ log' \in {"noserver", "noepoll", "nofile"}
        /\ path' # "live" /\ path' \in {"none", "stale", "live"}
        /\ conn' \in {conn, Refused}
        /\ UNCHANGED threadVars /\ UNCHANGED writerVars
        /\ UNCHANGED <<written, failed, crash, faults, crashes>>
    BY <1>0, <1>1 DEF CloseServer, CloseEpoll, CloseFile, ThreadInv, TypeOK
  <2>2. /\ conn' \in [Writers -> {"none", "pending", "open", "gone"}]
        /\ \A c \in Writers : /\ conn'[c] = "none" <=> conn[c] = "none"
                              /\ conn[c] = "open" => conn'[c] = "open"
    BY <1>0, <2>1 DEF Refused, TypeOK
  <2>3. TypeOK'
    BY <1>0, <2>1, <2>2 DEF TypeOK, threadVars, writerVars
  <2>4. ThreadInv' /\ ServedInv'
    BY <1>0, <2>1, <2>2 DEF ThreadInv, ServedInv, threadVars
  <2>5. FreshInv'
    BY <1>0, <2>1, <2>2 DEF FreshInv, writerVars
  <2> QED
    BY <2>3, <2>4, <2>5 DEF StructInv
<1>2. CASE Exit \/ LogKilled
  <2>1. /\ log' \in {"done", "down"}
        /\ path' # "live" /\ path' \in {"none", "stale", "live"}
        /\ conn' = Severed /\ crashes' \in Nat
        /\ ThreadGone /\ UNCHANGED writerVars
        /\ UNCHANGED <<written, failed, crash, faults>>
    BY <1>0, <1>2 DEF Exit, LogKilled, ThreadInv, TypeOK
  <2>2. /\ conn' \in [Writers -> {"none", "pending", "open", "gone"}]
        /\ \A c \in Writers : conn'[c] = "none" <=> conn[c] = "none"
    BY <1>0, <2>1 DEF Severed, TypeOK
  <2>3. TypeOK'
    BY <1>0, <2>1, <2>2, EmptySeq DEF TypeOK, ThreadGone, writerVars
  <2>4. ThreadInv' /\ ServedInv'
    BY <1>0, <2>1, <2>2, LoggerAssumption DEF ThreadInv, ServedInv, ThreadGone
  <2>5. FreshInv'
    BY <1>0, <2>1, <2>2 DEF FreshInv, writerVars
  <2> QED
    BY <2>3, <2>4, <2>5 DEF StructInv
<1> QED
  BY <1>1, <1>2 DEF Closing

LEMMA TracingStruct ==
  ASSUME StructInv, NEW c \in Writers, Tracing(c)
  PROVE  StructInv'
<1>0. TypeOK /\ ThreadInv /\ ServedInv /\ FreshInv
  BY DEF StructInv
<1>1. /\ UNCHANGED <<path, log, written, failed, faults, crashes>>
      /\ UNCHANGED threadVars
  BY DEF Tracing, TraceLinks, TraceSends, TraceSilently, WriterEnds
<1>2. CASE TraceLinks(c)
  <2>1. /\ status[c] = "fresh" /\ conn[c] = "none" /\ traced[c] = 0
        /\ UNCHANGED <<stream, crash>>
        /\ \/ /\ status' = [status EXCEPT ![c] = "linked"]
              /\ conn' = [conn EXCEPT ![c] = "pending"]
              /\ UNCHANGED traced
           \/ /\ status' = [status EXCEPT ![c] = "closed"]
              /\ traced' = [traced EXCEPT ![c] = @ + 1]
              /\ UNCHANGED conn
    BY <1>0, <1>2 DEF TraceLinks, FreshInv
  <2>5. /\ status' \in [Writers -> {"fresh", "linked", "closed", "ended"}]
        /\ conn' \in [Writers -> {"none", "pending", "open", "gone"}]
        /\ traced' \in [Writers -> Nat]
    <3>1. traced[c] + 1 \in Nat
      BY <1>0 DEF TypeOK
    <3>2. CASE /\ status' = [status EXCEPT ![c] = "linked"]
               /\ conn' = [conn EXCEPT ![c] = "pending"]
               /\ UNCHANGED traced
      BY <1>0, <3>2 DEF TypeOK
    <3>3. CASE /\ status' = [status EXCEPT ![c] = "closed"]
               /\ traced' = [traced EXCEPT ![c] = traced[c] + 1]
               /\ UNCHANGED conn
      BY <1>0, <3>1, <3>3 DEF TypeOK
    <3> QED
      BY <2>1, <3>2, <3>3
  <2>2. TypeOK'
    BY <1>0, <1>1, <2>1, <2>5 DEF TypeOK, threadVars
  <2>3. ThreadInv' /\ ServedInv'
    BY <1>0, <1>1, <2>1 DEF ThreadInv, ServedInv, TypeOK, threadVars
  <2>4. FreshInv'
    BY <1>0, <1>1, <2>1 DEF FreshInv, TypeOK
  <2> QED
    BY <2>2, <2>3, <2>4 DEF StructInv
<1>3. CASE TraceSends(c)
  <2>1. /\ status[c] = "linked" /\ UNCHANGED <<status, conn>>
        /\ traced' = [traced EXCEPT ![c] = @ + 1]
        /\ stream' \in {stream, [stream EXCEPT ![c] = Append(@, traced[c] + 1)]}
        /\ crash' \in {"none", "sigpipe"}
    BY <1>3 DEF TraceSends
  <2>2. conn[c] # "none" /\ status[c] # "fresh"
    BY <1>0, <2>1 DEF FreshInv
  <2>3. Append(stream[c], traced[c] + 1) \in Seq(Nat)
    BY <1>0, AppendProperties DEF TypeOK
  <2>4. stream' \in [Writers -> Seq(Nat)]
    <3>1. CASE UNCHANGED stream
      BY <1>0, <3>1 DEF TypeOK
    <3>2. CASE stream' = [stream EXCEPT ![c] = Append(stream[c], traced[c] + 1)]
      BY <1>0, <2>3, <3>2 DEF TypeOK
    <3> QED
      BY <2>1, <3>1, <3>2
  <2>8. traced' \in [Writers -> Nat]
    BY <1>0, <2>1 DEF TypeOK
  <2>5. TypeOK'
    BY <1>0, <1>1, <2>1, <2>4, <2>8 DEF TypeOK, threadVars
  <2>6. ThreadInv' /\ ServedInv'
    BY <1>0, <1>1, <2>1 DEF ThreadInv, ServedInv, threadVars
  <2>7. FreshInv'
    BY <1>0, <1>1, <2>1, <2>2 DEF FreshInv, TypeOK
  <2> QED
    BY <2>5, <2>6, <2>7 DEF StructInv
<1>4. CASE TraceSilently(c) \/ WriterEnds(c)
  <2>1. /\ UNCHANGED <<conn, stream, crash>>
        /\ \/ /\ status[c] = "closed" /\ UNCHANGED status
              /\ traced' = [traced EXCEPT ![c] = @ + 1]
           \/ status' = [status EXCEPT ![c] = "ended"] /\ UNCHANGED traced
    BY <1>4 DEF TraceSilently, WriterEnds
  <2>5. status' \in [Writers -> {"fresh", "linked", "closed", "ended"}]
    BY <1>0, <2>1 DEF TypeOK
  <2>6. traced' \in [Writers -> Nat]
    <3>1. traced[c] + 1 \in Nat
      BY <1>0 DEF TypeOK
    <3>2. traced' = traced \/ traced' = [traced EXCEPT ![c] = traced[c] + 1]
      BY <2>1
    <3>3. CASE traced' = [traced EXCEPT ![c] = traced[c] + 1]
      <4>1. traced \in [Writers -> Nat]
        BY <1>0 DEF TypeOK
      <4> QED
        BY <3>1, <3>3, <4>1
    <3> QED
      BY <1>0, <3>2, <3>3 DEF TypeOK
  <2>2. TypeOK'
    BY <1>0, <1>1, <2>1, <2>5, <2>6 DEF TypeOK, threadVars
  <2>3. ThreadInv' /\ ServedInv'
    BY <1>0, <1>1, <2>1 DEF ThreadInv, ServedInv, threadVars
  <2>4. FreshInv'
    BY <1>0, <1>1, <2>1 DEF FreshInv, TypeOK
  <2> QED
    BY <2>2, <2>3, <2>4 DEF StructInv
<1> QED
  BY <1>2, <1>3, <1>4 DEF Tracing

LEMMA NextStruct == StructInv /\ [Next]_vars => StructInv'
<1>1. StructInv /\ UNCHANGED vars => StructInv'
  BY DEF vars, threadVars, writerVars, StructInv, TypeOK, ThreadInv, ServedInv,
     FreshInv
<1>2. StructInv /\ PoolClose => StructInv'
  BY DEF PoolClose, threadVars, writerVars, StructInv, TypeOK, ThreadInv,
     ServedInv, FreshInv
<1> QED
  BY <1>1, <1>2, StartingStruct, ThreadStruct, ClosingStruct, TracingStruct
     DEF Next

\* What a step leaves alone of c keeps its flow.
LEMMA FlowSame ==
  ASSUME NEW c \in Writers, Flow(c),
         written'[c] = written[c], stream'[c] = stream[c],
         status'[c] = status[c], traced'[c] = traced[c],
         cur' = c <=> cur = c, cur = c => data' = data
  PROVE  Flow(c)'
<1>1. Taken(c)' = Taken(c)
  BY DEF Taken
<1> QED
  BY <1>1 DEF Flow

LEMMA StartingFlow ==
  ASSUME StructInv, StructInv', FlowInv, WrittenInv, Starting
  PROVE  FlowInv' /\ WrittenInv'
<1>0. /\ TypeOK /\ ThreadInv /\ UNCHANGED <<written, failed, stream, status,
                                            traced>>
      /\ \A c \in Writers : traced'[c] \in Nat /\ traced'[c] >= traced[c]
  <2>1. UNCHANGED <<written, failed, stream, status, traced>>
    BY DEF Starting, StartFailsEarly, StartOnTakenPath, StartListens,
       StartThread, StartFailsLate, writerVars
  <2> QED
    BY <2>1 DEF StructInv, TypeOK
<1>1. CASE StartFailsLate
  <2>1. \A c \in Writers : ~ Linked(c)'
    BY <1>1 DEF StartFailsLate, Severed, Linked
  <2> QED
    BY <1>0, <2>1, FlowUnmoved
<1>2. CASE ~ StartFailsLate
  <2>1. /\ UNCHANGED <<conn, data>> /\ cur = "off" /\ data = << >>
        /\ log \in {"down", "starting"} /\ cur' \notin Writers
    BY <1>0, <1>2, LoggerAssumption DEF Starting, StartFailsEarly,
       StartOnTakenPath, StartListens, StartThread, threadVars, ThreadInv
  <2>2. \A c \in Writers : Linked(c)' => /\ Linked(c) /\ cur' # c
                                           /\ status'[c] = status[c]
                                           /\ traced'[c] = traced[c]
    BY <1>0, <2>1 DEF Linked
  <2> QED
    BY <1>0, <2>1, <2>2, FlowUnmoved
<1> QED
  BY <1>1, <1>2

\* Everything the thread does but take and write.
LEMMA ThreadFlow ==
  ASSUME StructInv, StructInv', FlowInv, WrittenInv, ThreadFunc, ~ Recv,
         ~ WriteLog
  PROVE  FlowInv' /\ WrittenInv'
<1>0. /\ TypeOK /\ ThreadInv /\ ServedInv
      /\ UNCHANGED <<written, failed, stream, status, traced, log>>
      /\ \A c \in Writers : traced'[c] \in Nat /\ traced'[c] >= traced[c]
  <2>1. UNCHANGED <<written, failed, stream, status, traced, log>>
    BY DEF ThreadFunc, WaitForEpoll, Dispatch, Accept, AcceptFails, RecvEnd,
       FindFile, ThreadEnds, writerVars
  <2> QED
    BY <2>1 DEF StructInv, TypeOK
<1>1. \/ UNCHANGED <<cur, data>>
      \/ cur' = "idle" /\ log = "nofile"
      \/ cur \notin Writers /\ UNCHANGED data /\ data = << >>
      \/ cur' = "idle" /\ UNCHANGED data /\ data = << >>
  <2>1. CASE cur \notin Writers
    BY <1>0, <2>1 DEF ThreadInv, ThreadFunc, WaitForEpoll, Dispatch, Accept,
       AcceptFails, RecvEnd, FindFile, ThreadEnds
  <2>2. CASE RecvEnd
    BY <2>2 DEF RecvEnd
  <2>3. CASE FindFile
    <3>1. CASE log = "nofile"
      BY <2>3, <3>1 DEF FindFile
    <3>2. CASE log # "nofile"
      BY <2>3, <3>2 DEF FindFile
    <3> QED
      BY <3>1, <3>2
  <2>4. CASE cur \in Writers
    BY <2>2, <2>3, <2>4, LoggerAssumption DEF ThreadFunc, WaitForEpoll,
       Dispatch, Accept, AcceptFails, ThreadEnds
  <2> QED
    BY <2>1, <2>4
<1>2. \A c \in Writers : conn'[c] \in {"pending", "open"}
                           => conn[c] \in {"pending", "open"}
  <2>1. CASE UNCHANGED conn
    BY <2>1
  <2>2. CASE Accept
    <3>1. CASE UNCHANGED conn
      BY <3>1
    <3>2. CASE conn' # conn
      <4>1. PICK c \in Writers :
              /\ conn[c] = "pending"
              /\ \/ conn' = [conn EXCEPT ![c] = "open"]
                 \/ conn' = [conn EXCEPT ![c] = "gone"]
        BY <2>2, <3>2 DEF Accept
      <4> QED
        BY <1>0, <4>1 DEF TypeOK
    <3> QED
      BY <3>1, <3>2
  <2>3. CASE RecvEnd
    BY <1>0, <2>3 DEF RecvEnd, TypeOK
  <2> QED
    BY <2>1, <2>2, <2>3 DEF ThreadFunc, WaitForEpoll, Dispatch, AcceptFails,
       FindFile, ThreadEnds
<1>3. \A c \in Writers : Linked(c)' =>
        /\ Linked(c)
        /\ cur' = c => data' = IF cur = c THEN data ELSE << >>
        /\ cur' # c => cur # c \/ data = << >>
        /\ status'[c] = status[c] /\ traced'[c] = traced[c]
  BY <1>0, <1>1, <1>2, LoggerAssumption DEF Linked
<1> QED
  BY <1>0, <1>3, FlowUnmoved

LEMMA ClosingFlow ==
  ASSUME StructInv, StructInv', FlowInv, WrittenInv, Closing \/ PoolClose
  PROVE  FlowInv' /\ WrittenInv'
<1>0. /\ TypeOK /\ UNCHANGED <<written, failed, stream, status, traced>>
      /\ \A c \in Writers : traced'[c] \in Nat /\ traced'[c] >= traced[c]
  <2>1. UNCHANGED <<written, failed, stream, status, traced>>
    BY DEF Closing, CloseServer, CloseEpoll, CloseFile, Exit, LogKilled,
       PoolClose, writerVars
  <2> QED
    BY <2>1 DEF StructInv, TypeOK
<1>1. \A c \in Writers : Linked(c)' => Linked(c) /\ UNCHANGED <<cur, data>>
  BY <1>0 DEF Closing, CloseServer, CloseEpoll, CloseFile, Exit, LogKilled,
     PoolClose, Refused, Severed, Linked, threadVars
<1> QED
  BY <1>0, <1>1, FlowUnmoved

LEMMA TracingFlow ==
  ASSUME StructInv, StructInv', FlowInv, WrittenInv, NEW c \in Writers,
         Tracing(c)
  PROVE  FlowInv' /\ WrittenInv'
<1>0. /\ TypeOK /\ ServedInv /\ FreshInv /\ UNCHANGED <<written, failed, cur,
                                                        data, log>>
      /\ \A d \in Writers : traced'[d] \in Nat
  BY DEF StructInv, TypeOK, Tracing, TraceLinks, TraceSends, TraceSilently,
     WriterEnds, threadVars
<1>1. /\ \A d \in Writers : traced'[d] >= traced[d]
      /\ \A d \in Writers \ {c} :
           /\ stream'[d] = stream[d] /\ status'[d] = status[d]
           /\ conn'[d] = conn[d] /\ traced'[d] = traced[d]
  <2>1. /\ \/ UNCHANGED traced
           \/ traced' = [traced EXCEPT ![c] = traced[c] + 1]
        /\ \/ UNCHANGED stream
           \/ stream' = [stream EXCEPT ![c] = Append(stream[c], traced[c] + 1)]
        /\ \/ UNCHANGED conn
           \/ conn' = [conn EXCEPT ![c] = "pending"]
        /\ \/ UNCHANGED status
           \/ \E v \in {"linked", "closed", "ended"} :
                status' = [status EXCEPT ![c] = v]
    BY DEF Tracing, TraceLinks, TraceSends, TraceSilently, WriterEnds
  <2>2. \A d \in Writers : traced[d] \in Nat
    BY <1>0 DEF TypeOK
  <2>3. \A d \in Writers : traced'[d] >= traced[d]
    <3>1. traced[c] + 1 >= traced[c]
      BY <2>2
    <3>2. traced \in [Writers -> Nat]
      BY <1>0 DEF TypeOK
    <3>3. \A d \in Writers : traced'[d] = traced[d] \/ d = c
      BY <2>1, <3>2
    <3>4. traced'[c] \in {traced[c], traced[c] + 1}
      BY <2>1, <3>2
    <3> QED
      BY <2>2, <3>1, <3>3, <3>4
  <2>4. \A d \in Writers \ {c} : stream'[d] = stream[d]
                                 /\ traced'[d] = traced[d]
    BY <1>0, <2>1 DEF TypeOK
  <2>5. \A d \in Writers \ {c} : status'[d] = status[d] /\ conn'[d] = conn[d]
    BY <1>0, <2>1 DEF TypeOK
  <2> QED
    BY <2>3, <2>4, <2>5
<1>2. CASE TraceLinks(c)
  <2>1. conn[c] = "none" /\ traced[c] = 0 /\ written[c] = << >>
        /\ stream[c] = << >> /\ cur # c /\ UNCHANGED stream
    BY <1>0, <1>2 DEF TraceLinks, FreshInv, ServedInv
  <2>2. conn'[c] \in {"pending", "open"} => traced'[c] = 0
    BY <1>0, <1>2, <2>1 DEF TraceLinks
  <2>3. Linked(c)' => Empty(c) /\ Empty(c)'
    BY <1>0, <2>1, <2>2 DEF Linked, Empty
  <2>4. \A d \in Writers \ {c} : Linked(d)' => Linked(d)
    BY <1>0, <1>1 DEF Linked
  <2> QED
    BY <1>0, <1>1, <2>1, <2>3, <2>4, FlowUnmoved
<1>3. CASE TraceSilently(c) \/ WriterEnds(c)
  <2>1. /\ UNCHANGED <<conn, stream>>
        /\ status[c] = "closed" \/ UNCHANGED traced
    BY <1>0, <1>3 DEF TraceSilently, WriterEnds
  <2>2. \A d \in Writers : Linked(d)' => Linked(d)
    BY <1>0, <2>1 DEF Linked
  <2>3. \A d \in Writers : Linked(d) => traced'[d] = traced[d]
    BY <1>0, <1>1, <2>1 DEF Linked, FreshInv
  <2> QED
    BY <1>0, <1>1, <2>1, <2>2, <2>3, FlowUnmoved
<1>4. CASE TraceSends(c)
  <2>1. /\ status[c] = "linked" /\ UNCHANGED <<status, conn>>
        /\ traced' = [traced EXCEPT ![c] = traced[c] + 1]
        /\ conn[c] # "gone" =>
             stream' = [stream EXCEPT ![c] = Append(stream[c], traced[c] + 1)]
    BY <1>4 DEF TraceSends
  <2>2. WrittenInv'
    <3> SUFFICES ASSUME NEW d \in Writers
                 PROVE  Prefix(written[d]) /\ Len(written[d]) <= traced'[d]
      BY <1>0 DEF WrittenInv, Prefix
    <3>1. /\ Prefix(written[d]) /\ Len(written[d]) <= traced[d]
          /\ traced'[d] >= traced[d]
      BY <1>1 DEF WrittenInv
    <3>2. Len(written[d]) \in Nat /\ traced[d] \in Nat /\ traced'[d] \in Nat
      BY <1>0, Lengths
    <3> QED
      BY <3>1, <3>2
  <2>3. ASSUME NEW d \in Writers, Linked(d)' PROVE Flow(d)'
    <3>1. Flow(d)
      BY <1>0, <2>1, <2>3 DEF Linked, FlowInv
    <3>2. CASE d # c
      BY <1>0, <1>1, <3>1, <3>2, FlowSame
    <3>3. CASE d = c
      <4>1. /\ stream'[c] = Append(stream[c], traced[c] + 1)
            /\ traced'[c] = traced[c] + 1
        BY <1>0, <2>1, <2>3, <3>3 DEF Linked, TypeOK
      <4>2. /\ Taken(c)' = Taken(c) /\ Taken(c) \in Nat
            /\ Len(stream[c]) \in Nat /\ traced[c] \in Nat
        BY <1>0, Lengths DEF Taken
      <4>3. /\ Len(stream'[c]) = Len(stream[c]) + 1
            /\ \A i \in 1..Len(stream[c]) : stream'[c][i] = stream[c][i]
            /\ stream'[c][Len(stream[c]) + 1] = traced[c] + 1
        BY <1>0, <4>1, AppendProperties DEF TypeOK
      <4>4. /\ Taken(c) + Len(stream[c]) = traced[c]
            /\ \A i \in 1..Len(stream[c]) : stream[c][i] = Taken(c) + i
            /\ cur = c => \A i \in 1..Len(data) : data[i] = Len(written[c]) + i
        BY <2>1, <3>1, <3>3 DEF Flow
      <4>5. \A i \in 1..Len(stream'[c]) : stream'[c][i] = Taken(c)' + i
        <5> SUFFICES ASSUME NEW i \in 1..Len(stream'[c])
                     PROVE  stream'[c][i] = Taken(c) + i
          BY <4>2
        <5>1. CASE i \in 1..Len(stream[c])
          BY <4>3, <4>4, <5>1
        <5>2. CASE i = Len(stream[c]) + 1
          BY <4>2, <4>3, <4>4, <5>2
        <5> QED
          BY <4>2, <4>3, <5>1, <5>2
      <4>6. Taken(c)' + Len(stream'[c]) = traced'[c]
        BY <4>1, <4>2, <4>3, <4>4
      <4> QED
        BY <1>0, <3>3, <4>4, <4>5, <4>6 DEF Flow
    <3> QED
      BY <3>2, <3>3
  <2> QED
    BY <2>2, <2>3 DEF FlowInv, Linked
<1> QED
  BY <1>2, <1>3, <1>4 DEF Tracing

LEMMA RecvFlow ==
  ASSUME StructInv, FlowInv, WrittenInv, Recv
  PROVE  FlowInv' /\ WrittenInv'
<1>0. TypeOK /\ ServedInv
  BY DEF StructInv
<1>1. PICK n \in 1..Len(stream[cur]) :
        /\ data' = SubSeq(stream[cur], 1, n)
        /\ stream' = [stream EXCEPT ![cur] =
                        SubSeq(stream[cur], n + 1, Len(stream[cur]))]
  BY DEF Recv
<1>2. /\ cur \in Writers /\ data = << >>
      /\ UNCHANGED <<log, cur, status, conn, traced, written, failed>>
  BY DEF Recv
<1>3. WrittenInv'
  BY <1>2 DEF WrittenInv, Prefix
<1>4. ASSUME NEW c \in Writers, Linked(c)' PROVE Flow(c)'
  <2>1. Flow(c)
    BY <1>2, <1>4 DEF Linked, FlowInv
  <2>2. CASE c # cur
    <3>1. stream'[c] = stream[c]
      BY <1>0, <1>1, <2>2 DEF TypeOK
    <3> QED
      BY <1>2, <2>1, <2>2, <3>1, FlowSame
  <2>3. CASE c = cur
    <3>1. /\ stream[c] \in Seq(Nat) /\ Len(stream[c]) \in Nat
          /\ Len(written[c]) \in Nat /\ traced[c] \in Nat
      BY <1>0, Lengths DEF TypeOK
    <3>2. n \in Nat /\ n >= 1 /\ n <= Len(stream[c])
      BY <1>1, <2>3, <3>1
    <3>3. \A i \in 1..Len(stream[c]) : stream[c][i] \in Nat
      BY <3>1, ElementOfSeq
    <3>4. /\ Len(data') = n
          /\ \A i \in 1..n : data'[i] = stream[c][i]
      <4>1. \A i \in 1..n : stream[c][i] \in Nat
        BY <3>1, <3>2, <3>3
      <4>2. data' = SubSeq(stream[c], 1, n)
        BY <1>1, <2>3
      <4>3. /\ Len(SubSeq(stream[c], 1, n)) = IF 1 <= n THEN n - 1 + 1 ELSE 0
            /\ \A i \in 1..(n - 1 + 1) :
                 SubSeq(stream[c], 1, n)[i] = stream[c][1 + i - 1]
        BY <3>2, <4>1, SubSeqProperties
      <4> QED
        BY <3>2, <4>2, <4>3
    <3>5. /\ Len(stream'[c]) = Len(stream[c]) - n
          /\ \A i \in 1..(Len(stream[c]) - n) :
               stream'[c][i] = stream[c][n + i]
      <4>1. \A i \in (n + 1)..Len(stream[c]) : stream[c][i] \in Nat
        BY <3>1, <3>2, <3>3
      <4>2. stream'[c] = SubSeq(stream[c], n + 1, Len(stream[c]))
        BY <1>0, <1>1, <2>3 DEF TypeOK
      <4>3. /\ Len(SubSeq(stream[c], n + 1, Len(stream[c])))
                 = IF n + 1 <= Len(stream[c])
                   THEN Len(stream[c]) - (n + 1) + 1 ELSE 0
            /\ \A i \in 1..(Len(stream[c]) - (n + 1) + 1) :
                 SubSeq(stream[c], n + 1, Len(stream[c]))[i]
                   = stream[c][(n + 1) + i - 1]
        BY <3>1, <3>2, <4>1, SubSeqProperties
      <4> QED
        BY <3>1, <3>2, <4>2, <4>3
    <3>6. Taken(c) = Len(written[c]) /\ Taken(c)' = Len(written[c]) + n
      BY <1>2, <2>3, <3>1, <3>2, <3>4 DEF Taken
    <3>7. /\ \A i \in 1..Len(stream[c]) : stream[c][i] = Len(written[c]) + i
          /\ Len(written[c]) + Len(stream[c]) = traced[c]
      BY <2>1, <3>6 DEF Flow
    <3>8. \A i \in 1..Len(data') : data'[i] = Len(written[c]) + i
      <4> SUFFICES ASSUME NEW i \in 1..n PROVE data'[i] = Len(written[c]) + i
        BY <3>4
      <4>1. i \in 1..Len(stream[c])
        BY <3>1, <3>2
      <4> QED
        BY <3>4, <3>7, <4>1
    <3>9. \A i \in 1..Len(stream'[c]) : stream'[c][i] = Taken(c)' + i
      <4> SUFFICES ASSUME NEW i \in 1..(Len(stream[c]) - n)
                   PROVE  stream[c][n + i] = Len(written[c]) + n + i
        BY <3>5, <3>6
      <4>1. n + i \in 1..Len(stream[c])
        BY <3>1, <3>2
      <4> QED
        BY <3>1, <3>2, <3>7, <4>1
    <3>10. Taken(c)' + Len(stream'[c]) = Len(written[c]) + Len(stream[c])
      <4>1. Len(stream'[c]) = Len(stream[c]) - n
        BY <3>5
      <4>2. Taken(c)' = Len(written[c]) + n
        BY <3>6
      <4>3. (Len(written[c]) + n) + (Len(stream[c]) - n)
              = Len(written[c]) + Len(stream[c])
        BY <3>1, <3>2, Shift
      <4> QED
        BY <4>1, <4>2, <4>3
    <3> QED
      BY <1>2, <2>3, <3>7, <3>8, <3>9, <3>10 DEF Flow
  <2> QED
    BY <2>2, <2>3
<1> QED
  BY <1>3, <1>4 DEF FlowInv, Linked

LEMMA WriteFlow ==
  ASSUME StructInv, FlowInv, WrittenInv, WriteLog
  PROVE  FlowInv' /\ WrittenInv'
<1>0. TypeOK /\ ThreadInv /\ ServedInv
  BY DEF StructInv
<1>1. /\ cur \in Writers /\ conn[cur] = "open"
      /\ data' = << >> /\ cur' = "idle"
      /\ UNCHANGED <<log, status, stream, conn, traced>>
  BY <1>0 DEF WriteLog, ThreadInv, ServedInv, writerVars
<1>4. PICK w \in Writers : w = cur
  BY <1>1
<1>2. CASE log = "nofile"
  BY <1>1, <1>2 DEF WriteLog, FlowInv, Linked, WrittenInv, Prefix
<1>3. CASE log # "nofile"
  <2>1. written' = [written EXCEPT ![w] = written[w] \o data]
    BY <1>3, <1>4 DEF WriteLog
  <2>2. Flow(w)
    BY <1>1, <1>3, <1>4 DEF FlowInv, Linked
  <2>3. /\ written[w] \in Seq(Nat) /\ data \in Seq(Nat)
        /\ Len(written[w]) \in Nat /\ Len(data) \in Nat
        /\ Len(stream[w]) \in Nat /\ traced[w] \in Nat
    BY <1>0, <1>1, Lengths DEF TypeOK
  <2>4. /\ Len(written'[w]) = Len(written[w]) + Len(data)
        /\ \A i \in 1..Len(written[w]) : written'[w][i] = written[w][i]
        /\ \A j \in 1..Len(data) : written'[w][Len(written[w]) + j] = data[j]
    <3>1. written'[w] = written[w] \o data
      BY <1>0, <1>1, <2>1 DEF TypeOK
    <3>2. /\ Len(written'[w]) = Len(written[w]) + Len(data)
          /\ \A i \in 1..(Len(written[w]) + Len(data)) :
               written'[w][i] = IF i <= Len(written[w]) THEN written[w][i]
                               ELSE data[i - Len(written[w])]
      BY <2>3, <3>1, ConcatProperties
    <3>3. ASSUME NEW i \in 1..Len(written[w])
          PROVE  written'[w][i] = written[w][i]
      <4>1. i \in 1..(Len(written[w]) + Len(data)) /\ i <= Len(written[w])
        BY <2>3
      <4> QED
        BY <3>2, <4>1
    <3>4. ASSUME NEW j \in 1..Len(data)
          PROVE  written'[w][Len(written[w]) + j] = data[j]
      <4>1. /\ Len(written[w]) + j \in 1..(Len(written[w]) + Len(data))
            /\ ~ (Len(written[w]) + j <= Len(written[w]))
            /\ (Len(written[w]) + j) - Len(written[w]) = j
        BY <2>3
      <4> QED
        BY <3>2, <4>1
    <3> QED
      BY <3>2, <3>3, <3>4
  <2>5. /\ Taken(w) = Len(written[w]) + Len(data)
        /\ Taken(w)' = Len(written[w]) + Len(data)
    <3>1. Taken(w) = Len(written[w]) + Len(data)
      BY <1>4 DEF Taken
    <3>2. \A c \in Writers : Taken(c)' = Len(written'[c])
      <4>1. cur' \notin Writers
        BY <1>1, LoggerAssumption
      <4>2. ASSUME NEW c \in Writers PROVE Len(written'[c]) \in Nat
        <5>1. CASE c = w
          BY <2>3, <2>4, <5>1
        <5>2. CASE c # w
          BY <1>0, <2>1, <5>2, Lengths DEF TypeOK
        <5> QED
          BY <5>1, <5>2
      <4> SUFFICES ASSUME NEW c \in Writers PROVE Taken(c)' = Len(written'[c])
        OBVIOUS
      <4>3. Taken(c)' = Len(written'[c]) + 0
        BY <4>1 DEF Taken
      <4> QED
        BY <4>2, <4>3
    <3> QED
      BY <1>1, <2>4, <3>1, <3>2
  <2>6. /\ \A i \in 1..Len(data) : data[i] = Len(written[w]) + i
        /\ \A i \in 1..Len(stream[w]) : stream[w][i] = Taken(w) + i
        /\ Taken(w) + Len(stream[w]) = traced[w]
    BY <1>4, <2>2 DEF Flow
  <2>7. ASSUME NEW c \in Writers, c # w
        PROVE  written'[c] = written[c]
    BY <1>0, <2>1, <2>7 DEF TypeOK
  <2>8. WrittenInv'
    <3>1. Prefix(written[w]) /\ Prefix(written'[w])
      <4>1. Prefix(written[w])
        BY <1>1 DEF WrittenInv
      <4>2. ASSUME NEW i \in 1..Len(written'[w]) PROVE written'[w][i] = i
        <5>1. CASE i \in 1..Len(written[w])
          BY <2>4, <4>1, <5>1 DEF Prefix
        <5>2. CASE i \notin 1..Len(written[w])
          <6>1. PICK j \in 1..Len(data) : i = Len(written[w]) + j
            <7>1. Len(written'[w]) = Len(written[w]) + Len(data)
              BY <2>4
            <7>2. /\ i - Len(written[w]) \in 1..Len(data)
                  /\ i = Len(written[w]) + (i - Len(written[w]))
              BY <2>3, <5>2, <7>1
            <7> QED
              BY <7>2
          <6>2. written'[w][i] = data[j] /\ data[j] = Len(written[w]) + j
            BY <2>4, <2>6, <6>1
          <6> QED
            BY <6>1, <6>2
        <5> QED
          BY <5>1, <5>2
      <4> QED
        BY <4>1, <4>2 DEF Prefix
    <3>2. Len(written'[w]) <= traced[w]
      <4>1. Len(written'[w]) = Taken(w) /\ Taken(w) + Len(stream[w]) = traced[w]
        BY <2>4, <2>5, <2>6
      <4>2. Taken(w) \in Nat /\ Len(stream[w]) \in Nat /\ traced[w] \in Nat
        BY <1>0, Lengths
      <4> QED
        BY <4>1, <4>2
    <3> QED
      BY <1>1, <2>7, <3>1, <3>2 DEF WrittenInv, Prefix
  <2>9. ASSUME NEW c \in Writers, Linked(c)' PROVE Flow(c)'
    <3>1. CASE c # w
      <4>1. Flow(c)
        BY <1>1, <2>9 DEF FlowInv, Linked
      <4> QED
        BY <1>1, <2>7, <3>1, <4>1, <1>4, FlowSame, LoggerAssumption
    <3>2. CASE c = w
      BY <1>1, <2>5, <2>6, <3>2, LoggerAssumption DEF Flow
    <3> QED
      BY <3>1, <3>2
  <2> QED
    BY <2>8, <2>9 DEF FlowInv, Linked
<1> QED
  BY <1>2, <1>3

\* The records a failing write leaves out are among those it was given.
LEMMA FailedStep ==
  ASSUME StructInv, FlowInv, FailedInv, [Next]_vars
  PROVE  FailedInv'
<1>0. TypeOK /\ ThreadInv /\ ServedInv /\ faults \in Nat
  BY DEF StructInv, TypeOK
<1>1. CASE UNCHANGED <<written, failed>> /\ (faults' = 0 => faults = 0)
  BY <1>1 DEF FailedInv
<1>2. CASE WriteLog /\ log # "nofile"
  <2>1. PICK w \in Writers : w = cur
    BY <1>0, <1>2 DEF WriteLog, ThreadInv
  <2>2. /\ written' = [written EXCEPT ![w] = written[w] \o data]
        /\ Linked(w)
    BY <1>0, <1>2, <2>1 DEF WriteLog, ServedInv, Linked
  <2>3. /\ written[w] \in Seq(Nat) /\ data \in Seq(Nat)
        /\ Len(written[w]) \in Nat /\ Len(data) \in Nat
    BY <1>0, Lengths DEF TypeOK
  <2>4. /\ Len(written'[w]) = Len(written[w]) + Len(data)
        /\ \A c \in Writers \ {w} : written'[c] = written[c]
    <3>1. written'[w] = written[w] \o data
      BY <1>0, <2>2 DEF TypeOK
    <3> QED
      BY <1>0, <2>2, <2>3, <3>1, ConcatProperties DEF TypeOK
  <2>5. \A i \in 1..Len(data) : data[i] = Len(written[w]) + i
    BY <2>1, <2>2 DEF FlowInv, Flow
  <2>6. CASE UNCHANGED <<failed, faults>>
    <3>1. ASSUME NEW c \in Writers PROVE failed[c] \subseteq 1..Len(written'[c])
      <4>1. CASE c = w
        BY <2>3, <2>4, <4>1 DEF FailedInv
      <4>2. CASE c # w
        BY <2>4, <4>2 DEF FailedInv
      <4> QED
        BY <4>1, <4>2
    <3> QED
      BY <2>6, <3>1 DEF FailedInv
  <2>7. ASSUME NEW n \in 1..Len(data), Fault,
               failed' = [failed EXCEPT ![w] =
                            @ \union {data[i] : i \in n..Len(data)}]
        PROVE  FailedInv'
    <3>1. {data[i] : i \in n..Len(data)} \subseteq 1..Len(written'[w])
      <4>1. \A i \in n..Len(data) : i \in 1..Len(data)
        BY <2>3
      <4>2. \A i \in n..Len(data) : data[i] = Len(written[w]) + i
        BY <2>5, <4>1
      <4>3. \A i \in n..Len(data) : data[i] \in 1..Len(written'[w])
        BY <2>3, <2>4, <4>2
      <4> QED
        BY <4>3
    <3>2. failed[w] \subseteq 1..Len(written'[w])
      BY <2>3, <2>4 DEF FailedInv
    <3>3. faults' # 0
      BY <1>0, <2>7 DEF Fault
    <3>4. /\ failed'[w] = failed[w] \union {data[i] : i \in n..Len(data)}
          /\ \A c \in Writers \ {w} : failed'[c] = failed[c]
      BY <1>0, <2>7 DEF TypeOK
    <3>5. ASSUME NEW c \in Writers PROVE failed'[c] \subseteq 1..Len(written'[c])
      <4>1. CASE c = w
        BY <3>1, <3>2, <3>4, <4>1
      <4>2. CASE c # w
        BY <2>4, <3>4, <4>2 DEF FailedInv
      <4> QED
        BY <4>1, <4>2
    <3> QED
      BY <3>3, <3>5 DEF FailedInv
  <2> QED
    BY <1>2, <2>1, <2>6, <2>7 DEF WriteLog
<1>3. CASE ~ (WriteLog /\ log # "nofile")
  <2>1. CASE Starting \/ Closing \/ PoolClose \/ UNCHANGED vars
    BY <1>0, <1>1, <2>1 DEF Starting, StartFailsEarly, StartOnTakenPath,
       StartListens, StartThread, StartFailsLate, Closing, CloseServer,
       CloseEpoll, CloseFile, Exit, LogKilled, PoolClose, Fault, vars
  <2>2. CASE ThreadFunc
    BY <1>0, <1>1, <1>3, <2>2 DEF ThreadFunc, WaitForEpoll, Dispatch, Accept,
       AcceptFails, Recv, RecvEnd, FindFile, WriteLog, ThreadEnds, Fault
  <2>3. CASE \E c \in Writers : Tracing(c)
    BY <1>1, <2>3 DEF Tracing, TraceLinks, TraceSends, TraceSilently, WriterEnds
  <2> QED
    BY <2>1, <2>2, <2>3 DEF Next
<1> QED
  BY <1>2, <1>3

LEMMA NextIInv == IInv /\ [Next]_vars => IInv'
<1> SUFFICES ASSUME IInv, [Next]_vars PROVE IInv'
  OBVIOUS
<1>1. StructInv /\ StructInv' /\ FlowInv /\ WrittenInv
  BY NextStruct DEF IInv, StructInv
<1>4. FailedInv'
  BY <1>1, FailedStep DEF IInv
<1>2. CASE UNCHANGED vars
  BY <1>1, <1>2, <1>4 DEF vars, writerVars, threadVars, FlowInv, Linked, Flow,
     Taken, WrittenInv, Prefix, StructInv, IInv
<1>3. CASE Next
  <2>1. FlowInv' /\ WrittenInv'
    BY <1>1, <1>3, StartingFlow, ThreadFlow, ClosingFlow, TracingFlow, RecvFlow,
       WriteFlow DEF Next
  <2> QED
    BY <1>1, <1>4, <2>1 DEF IInv, StructInv
<1> QED
  BY <1>2, <1>3

\* The strengthening is an invariant, for any number of writers, records, failures
\* and kills (Logger.cpp:24-222).
THEOREM LoggerInvariant == Spec => []IInv
<1> QED
  BY InitIInv, NextIInv, PTL DEF Spec

\* The types are kept, for any number of writers, failures and kills
\* (Logger.cpp, Socket.h).
THEOREM LoggerTypes == Spec => []TypeOK
<1>1. IInv => TypeOK
  BY DEF IInv
<1> QED
  BY <1>1, LoggerInvariant, PTL

LEMMA Regroup ==
  ASSUME NEW a \in Nat, NEW b \in Nat, NEW n \in Nat
  PROVE  a + (b + n) = (a + b) + n
OBVIOUS

\* Two sequences that number on from one another are numbered together.
LEMMA NumberedOn ==
  ASSUME NEW s \in Seq(Nat), NEW t \in Seq(Nat), NEW k \in Nat,
         \A i \in 1..Len(s) : s[i] = k + i,
         \A i \in 1..Len(t) : t[i] = k + Len(s) + i
  PROVE  \A i \in 1..Len(s \o t) : (s \o t)[i] = k + i
<1> SUFFICES ASSUME NEW i \in 1..Len(s \o t) PROVE (s \o t)[i] = k + i
  OBVIOUS
<1>1. /\ Len(s) \in Nat /\ Len(t) \in Nat
      /\ Len(s \o t) = Len(s) + Len(t)
  BY LenProperties, ConcatProperties
<1>2. (s \o t)[i] = IF i <= Len(s) THEN s[i] ELSE t[i - Len(s)]
  BY <1>1, ConcatProperties
<1>3. CASE i <= Len(s)
  BY <1>1, <1>2, <1>3
<1>4. CASE ~ (i <= Len(s))
  <2>1. /\ i - Len(s) \in 1..Len(t)
        /\ k + Len(s) + (i - Len(s)) = k + i
    BY <1>1, <1>4
  <2> QED
    BY <1>2, <1>4, <2>1
<1> QED
  BY <1>3, <1>4

\* A queue is a sequence of records; it starts where the file ends, and ends
\* with the last record traced.
LEMMA QueueNumbered ==
  ASSUME IInv, NEW c \in Writers, Linked(c)
  PROVE  /\ Queue(c) \in Seq(Nat)
         /\ Len(written[c]) + Len(Queue(c)) = traced[c]
         /\ \A i \in 1..Len(Queue(c)) : Queue(c)[i] = Len(written[c]) + i
<1> DEFINE d == IF cur = c THEN data ELSE << >>
<1>1. /\ TypeOK /\ Flow(c)
      /\ stream[c] \in Seq(Nat) /\ d \in Seq(Nat)
      /\ Len(written[c]) \in Nat /\ Len(stream[c]) \in Nat /\ Len(d) \in Nat
  <2>1. TypeOK /\ Flow(c)
    BY DEF IInv, FlowInv
  <2>2. stream[c] \in Seq(Nat) /\ d \in Seq(Nat)
    BY <2>1, EmptySeq DEF TypeOK
  <2> QED
    BY <2>1, <2>2, Lengths, LenProperties
<1>2. Queue(c) = d \o stream[c]
  BY DEF Queue
<1>3. Taken(c) = Len(written[c]) + Len(d)
  BY <1>1 DEF Taken
<1> HIDE DEF d
<1>4. \A i \in 1..Len(d) : d[i] = Len(written[c]) + i
  BY <1>1 DEF Flow, d
<1>5. \A i \in 1..Len(stream[c]) : stream[c][i] = Len(written[c]) + Len(d) + i
  BY <1>1, <1>3 DEF Flow
<1>6. \A i \in 1..Len(d \o stream[c]) :
        (d \o stream[c])[i] = Len(written[c]) + i
  BY <1>1, <1>4, <1>5, NumberedOn
<1>7. /\ d \o stream[c] \in Seq(Nat)
      /\ Len(d \o stream[c]) = Len(d) + Len(stream[c])
  BY <1>1, ConcatProperties
<1>8. (Len(written[c]) + Len(d)) + Len(stream[c]) = traced[c]
  BY <1>1, <1>3 DEF Flow
<1>9. Len(written[c]) + (Len(d) + Len(stream[c]))
        = (Len(written[c]) + Len(d)) + Len(stream[c])
  BY <1>1, Regroup
<1> QED
  BY <1>2, <1>6, <1>7, <1>8, <1>9

\* Through kills, restarts, failing calls and a Close at any moment what is written
\* of a thread is the beginning of what it traced, while the thread is connected
\* the rest is on its way, and the file lacks of it only what a failing write left
\* out (Logger.cpp:172-193, 211-222).
THEOREM LogHolesAreFailedWrites == Spec => []HolesAreFailedWrites
<1>1. ASSUME IInv PROVE HolesAreFailedWrites
  <2>1. ASSUME NEW c \in Writers
        PROVE  Prefix(written[c]) /\ Len(written[c]) <= traced[c]
    BY <1>1 DEF IInv, WrittenInv
  <2>2. ASSUME NEW c \in Writers, Linked(c)
        PROVE  /\ Len(written[c] \o Queue(c)) = traced[c]
               /\ Prefix(written[c] \o Queue(c))
    <3>1. /\ Queue(c) \in Seq(Nat) /\ written[c] \in Seq(Nat)
          /\ Len(written[c]) \in Nat
          /\ Len(written[c]) + Len(Queue(c)) = traced[c]
      BY <1>1, <2>2, QueueNumbered, Lengths DEF IInv, TypeOK
    <3>2. Len(written[c] \o Queue(c)) = traced[c]
      BY <3>1, ConcatProperties
    <3>3. /\ \A i \in 1..Len(written[c]) : written[c][i] = 0 + i
          /\ \A i \in 1..Len(Queue(c)) : Queue(c)[i] = 0 + Len(written[c]) + i
      <4>1. \A i \in 1..Len(written[c]) : written[c][i] = i
        BY <1>1 DEF IInv, WrittenInv, Prefix
      <4>2. \A i \in 1..Len(Queue(c)) : Queue(c)[i] = Len(written[c]) + i
        BY <1>1, <2>2, QueueNumbered
      <4> QED
        BY <3>1, <4>1, <4>2
    <3>4. \A i \in 1..Len(written[c] \o Queue(c)) :
            (written[c] \o Queue(c))[i] = 0 + i
      BY <3>1, <3>3, NumberedOn
    <3>5. \A i \in 1..Len(written[c] \o Queue(c)) : 0 + i = i
      BY <3>1, <3>2, Lengths, <1>1 DEF IInv
    <3> QED
      BY <3>2, <3>4, <3>5 DEF Prefix
  <2> QED
    BY <1>1, <2>1, <2>2 DEF HolesAreFailedWrites, IInv, FailedInv
<1> QED
  BY <1>1, LoggerInvariant, PTL
-----------------------------------------------------------------------------
(* The refinement of RecordLog.  A step that is no writer's and writes     *)
(* nothing keeps or loses whole queues: that is Lose, if only of writers   *)
(* who are lost already.                                                   *)

LEMMA LosesQueues ==
  ASSUME StructInv, UNCHANGED <<traced, written, failed>>,
         \A c \in Writers : Linked(c)' => Linked(c) /\ Queue(c)' = Queue(c),
         \A c \in Writers : ~ Linked(c)' /\ status'[c] = "fresh"
                              => ~ Linked(c) /\ status[c] = "fresh"
  PROVE  Records!Next
<1> DEFINE S == {c \in Writers : Link(c)' = "lost"}
<1>1. ASSUME NEW c \in Writers
      PROVE  /\ Link(c)' = (IF c \in S THEN "lost" ELSE Link(c))
             /\ Queue(c)' = (IF c \in S THEN << >> ELSE Queue(c))
  <2>1. CASE Linked(c)'
    BY <2>1 DEF Link
  <2>2. CASE ~ Linked(c)' /\ status'[c] = "fresh"
    BY <2>2 DEF Link, Queue
  <2>3. CASE ~ Linked(c)' /\ status'[c] # "fresh"
    BY <2>3 DEF Link, Queue
  <2> QED
    BY <2>1, <2>2, <2>3
<1>2. Records!Lose(S)
  BY <1>1 DEF Records!Lose
<1> QED
  BY <1>2 DEF Records!Next

\* A queue is the same however it is divided between data and stream.
LEMMA Regrouped ==
  ASSUME NEW s \in Seq(Nat), NEW n \in 1..Len(s)
  PROVE  SubSeq(s, 1, n) \o SubSeq(s, n + 1, Len(s)) = << >> \o s
<1>1. Len(s) \in Nat
  BY LenProperties
<1>2. /\ 1 \in 1..Len(s) + 1 /\ n \in (1 - 1)..Len(s) /\ Len(s) \in n..Len(s)
  BY <1>1
<1>3. SubSeq(s, 1, n) \o SubSeq(s, n + 1, Len(s)) = SubSeq(s, 1, Len(s))
  BY <1>2, ConcatAdjacentSubSeq
<1>4. SubSeq(s, 1, Len(s)) = s /\ << >> \o s = s
  BY SubSeqFull, ConcatEmptySeq
<1> QED
  BY <1>3, <1>4

\* What is written is the beginning of the queue, and the stream is the rest.
LEMMA Divided ==
  ASSUME NEW s \in Seq(Nat), NEW t \in Seq(Nat), s # << >>
  PROVE  /\ Len(s) \in 1..Len(s \o t)
         /\ SubSeq(s \o t, 1, Len(s)) = s
         /\ SubSeq(s \o t, Len(s) + 1, Len(s \o t)) = << >> \o t
<1>1. /\ Len(s) \in Nat /\ Len(t) \in Nat /\ Len(s) # 0
      /\ Len(s \o t) = Len(s) + Len(t) /\ << >> \o t = t
  BY LenProperties, ConcatProperties, ConcatEmptySeq, EmptySeq
<1>2. 1 \in 1..Len(s) /\ Len(s) \in 1..Len(s) /\ Len(s) \in 1..Len(s \o t)
  BY <1>1
<1>3. SubSeq(s \o t, 1, Len(s)) = s
  <2>1. SubSeq(s \o t, 1, Len(s)) = SubSeq(s, 1, Len(s))
    BY <1>2, SubSeqOfConcat1
  <2> QED
    BY <2>1, SubSeqFull
<1>4. SubSeq(s \o t, Len(s) + 1, Len(s \o t)) = t
  <2>1. CASE t = << >>
    <3>1. Len(s \o t) < Len(s) + 1 /\ Len(s) + 1 \in Int /\ Len(s \o t) \in Int
      BY <1>1, <2>1
    <3> QED
      BY <2>1, <3>1, SubSeqEmpty
  <2>2. CASE t # << >>
    <3>1. Len(t) # 0
      BY <2>2, EmptySeq
    <3>2. /\ Len(s) + 1 \in (Len(s) + 1)..(Len(s) + Len(t))
          /\ Len(s) + Len(t) \in (Len(s) + 1)..(Len(s) + Len(t))
          /\ (Len(s) + 1) - Len(s) = 1 /\ (Len(s) + Len(t)) - Len(s) = Len(t)
      BY <1>1, <3>1
    <3>3. SubSeq(s \o t, Len(s) + 1, Len(s) + Len(t)) = SubSeq(t, 1, Len(t))
      <4>1. SubSeq(s \o t, Len(s) + 1, Len(s) + Len(t))
              = SubSeq(t, (Len(s) + 1) - Len(s), (Len(s) + Len(t)) - Len(s))
        BY <3>2, SubSeqOfConcat2
      <4> QED
        BY <3>2, <4>1
    <3> QED
      BY <1>1, <3>3, SubSeqFull
  <2> QED
    BY <2>1, <2>2
<1> QED
  BY <1>1, <1>2, <1>3, <1>4

\* A record appended to the stream is appended to the queue.
LEMMA Queued ==
  ASSUME NEW s \in Seq(Nat), NEW t \in Seq(Nat), NEW x \in Nat
  PROVE  s \o Append(t, x) = Append(s \o t, x)
<1>1. <<x>> \in Seq(Nat) /\ s \o t \in Seq(Nat)
  BY ConcatProperties
<1>2. Append(t, x) = t \o <<x>> /\ Append(s \o t, x) = (s \o t) \o <<x>>
  BY <1>1, AppendIsConcat
<1> QED
  BY <1>1, <1>2, ConcatAssociative

LEMMA InitRecords == Init => Records!Init
<1> SUFFICES ASSUME Init PROVE Records!Init
  OBVIOUS
<1>1. \A c \in Writers : ~ Linked(c) /\ Link(c) = "fresh" /\ Queue(c) = << >>
  BY DEF Init, Linked, Link, Queue
<1> QED
  BY <1>1 DEF Init, Records!Init

\* Starting, closing, and a pool that unlinks the path.
LEMMA ProcessRecords ==
  ASSUME StructInv, Starting \/ Closing \/ PoolClose
  PROVE  Records!Next
<1>0. TypeOK /\ ThreadInv /\ FreshInv
  BY DEF StructInv
<1>1. UNCHANGED <<traced, written, failed, status, stream>>
  BY DEF Starting, StartFailsEarly, StartOnTakenPath, StartListens,
     StartThread, StartFailsLate, Closing, CloseServer, CloseEpoll, CloseFile,
     Exit, LogKilled, PoolClose, writerVars
<1>2. \A c \in Writers : conn'[c] \in {conn[c], "gone"}
                         /\ (conn[c] = "none" => conn'[c] = "none")
  BY DEF Starting, StartFailsEarly, StartOnTakenPath, StartListens,
     StartThread, StartFailsLate, Closing, CloseServer, CloseEpoll, CloseFile,
     Exit, LogKilled, PoolClose, Severed, Refused
<1>3. ASSUME NEW c \in Writers, Linked(c)'
      PROVE  Linked(c) /\ Queue(c)' = Queue(c)
  <2>1. /\ conn[c] \in {"pending", "open"} /\ conn'[c] = conn[c]
        /\ log' # "nofile"
    BY <1>2, <1>3 DEF Linked
  <2>2. CASE StartThread
    <3>1. cur \notin Writers /\ cur' \notin Writers /\ log = "starting"
      BY <1>0, <2>2, LoggerAssumption DEF StartThread, ThreadInv
    <3> QED
      BY <1>1, <1>3, <2>1, <3>1 DEF Linked, Queue
  <2>3. CASE ~ StartThread
    <3>1. log # "nofile" /\ UNCHANGED <<cur, data>>
      BY <2>1, <2>3 DEF Starting, StartFailsEarly, StartOnTakenPath,
         StartListens, StartFailsLate, Closing, CloseServer, CloseEpoll,
         CloseFile, Exit, LogKilled, PoolClose, Severed, threadVars
    <3> QED
      BY <1>1, <1>3, <2>1, <3>1 DEF Linked, Queue
  <2> QED
    BY <2>2, <2>3
<1>4. ASSUME NEW c \in Writers, ~ Linked(c)', status'[c] = "fresh"
      PROVE  ~ Linked(c) /\ status[c] = "fresh"
  BY <1>0, <1>1, <1>4 DEF FreshInv, Linked
<1> QED
  BY <1>1, <1>3, <1>4, LosesQueues

\* ThreadFunc: what it does is writing, or nothing that a writer sees.
LEMMA ThreadRecords ==
  ASSUME StructInv, ThreadFunc
  PROVE  Records!Next
<1>0. TypeOK /\ ThreadInv /\ ServedInv /\ FreshInv
  BY DEF StructInv
<1>1. UNCHANGED <<traced, status, log>>
  BY DEF ThreadFunc, WaitForEpoll, Dispatch, Accept, AcceptFails, Recv,
     RecvEnd, FindFile, WriteLog, ThreadEnds, writerVars
<1>2. ASSUME NEW c \in Writers, ~ Linked(c)', status'[c] = "fresh"
      PROVE  ~ Linked(c) /\ status[c] = "fresh"
  BY <1>0, <1>1, <1>2 DEF FreshInv, Linked
<1>3. \A c \in Writers : conn'[c] \in {"pending", "open"}
                           => conn[c] \in {"pending", "open"}
  <2>1. CASE UNCHANGED conn
    BY <2>1
  <2>2. CASE Accept /\ conn' # conn
    <3>1. PICK c \in Writers :
            /\ conn[c] = "pending"
            /\ \/ conn' = [conn EXCEPT ![c] = "open"]
               \/ conn' = [conn EXCEPT ![c] = "gone"]
      BY <2>2 DEF Accept
    <3> QED
      BY <1>0, <3>1 DEF TypeOK
  <2>3. CASE RecvEnd
    BY <1>0, <2>3 DEF RecvEnd, TypeOK
  <2> QED
    BY <2>1, <2>2, <2>3 DEF ThreadFunc, WaitForEpoll, Dispatch, Accept,
       AcceptFails, Recv, FindFile, WriteLog, ThreadEnds
<1>4. CASE Recv
  <2>1. PICK w \in Writers : w = cur
    BY <1>4 DEF Recv
  <2>2. PICK n \in 1..Len(stream[w]) :
          /\ data' = SubSeq(stream[w], 1, n)
          /\ stream' = [stream EXCEPT ![w] =
                          SubSeq(stream[w], n + 1, Len(stream[w]))]
    BY <1>4, <2>1 DEF Recv
  <2>3. UNCHANGED <<cur, written, failed, conn>> /\ data = << >>
    BY <1>4 DEF Recv
  <2>4. /\ stream[w] \in Seq(Nat) /\ stream \in [Writers -> Seq(Nat)]
    BY <1>0 DEF TypeOK
  <2>5. data' \o stream'[w] = << >> \o stream[w]
    BY <2>2, <2>4, Regrouped
  <2>6. \A c \in Writers \ {w} : stream'[c] = stream[c]
    BY <2>2, <2>4
  <2>7. ASSUME NEW c \in Writers, Linked(c)'
        PROVE  Linked(c) /\ Queue(c)' = Queue(c)
    BY <1>1, <2>1, <2>3, <2>5, <2>6, <2>7 DEF Linked, Queue
  <2> QED
    BY <1>1, <1>2, <2>3, <2>7, LosesQueues
<1>5. CASE WriteLog /\ log # "nofile"
  <2>1. PICK w \in Writers : w = cur
    BY <1>0, <1>5 DEF WriteLog, ThreadInv
  <2>2. /\ conn[w] = "open" /\ data # << >>
        /\ written' = [written EXCEPT ![w] = written[w] \o data]
        /\ data' = << >> /\ cur' = "idle" /\ UNCHANGED <<conn, stream>>
    BY <1>0, <1>5, <2>1 DEF WriteLog, ServedInv, ThreadInv, writerVars
  <2>3. cur' \notin Writers
    BY <2>2, LoggerAssumption
  <2>4. \A c \in Writers : /\ Linked(c)' <=> Linked(c)
                           /\ Link(c)' = Link(c)
    BY <1>1, <2>2 DEF Linked, Link
  <2>5. /\ Queue(w) = data \o stream[w] /\ Queue(w)' = << >> \o stream[w]
        /\ \A c \in Writers \ {w} : Queue(c)' = Queue(c)
    <3>1. Linked(w)
      BY <1>5, <2>2 DEF Linked
    <3>2. Queue(w) = data \o stream[w]
      BY <2>1, <3>1 DEF Queue
    <3>3. Queue(w)' = << >> \o stream[w]
      BY <2>2, <2>3, <2>4, <3>1 DEF Queue
    <3>4. ASSUME NEW c \in Writers \ {w} PROVE Queue(c)' = Queue(c)
      BY <2>1, <2>2, <2>3, <2>4 DEF Queue
    <3> QED
      BY <3>2, <3>3, <3>4
  <2>6. /\ Len(data) \in 1..Len(Queue(w))
        /\ SubSeq(Queue(w), 1, Len(data)) = data
        /\ SubSeq(Queue(w), Len(data) + 1, Len(Queue(w))) = Queue(w)'
    <3>1. data \in Seq(Nat) /\ stream[w] \in Seq(Nat)
      BY <1>0 DEF TypeOK
    <3> QED
      BY <2>2, <2>5, <3>1, Divided
  <2>8. PICK m \in 1..(Len(data) + 1) :
          failed' = [failed EXCEPT ![w] =
                       @ \union {Queue(w)[i] : i \in m..Len(data)}]
    <3>1. Len(data) \in Nat /\ Len(data) + 1 \in 1..(Len(data) + 1)
          /\ (Len(data) + 1)..Len(data) = {}
      BY <1>0, Lengths
    <3>2. \A i \in 1..Len(data) : Queue(w)[i] = data[i]
      <4>1. data \in Seq(Nat) /\ stream[w] \in Seq(Nat) /\ Len(stream[w]) \in Nat
        BY <1>0, Lengths DEF TypeOK
      <4>2. \A i \in 1..(Len(data) + Len(stream[w])) :
              (data \o stream[w])[i] = IF i <= Len(data) THEN data[i]
                                         ELSE stream[w][i - Len(data)]
        BY <4>1, ConcatProperties
      <4> QED
        BY <2>5, <3>1, <4>1, <4>2
    <3>3. CASE UNCHANGED failed
      <4>1. {Queue(w)[i] : i \in (Len(data) + 1)..Len(data)} = {}
        BY <3>1
      <4>2. failed' = [failed EXCEPT ![w] =
                  @ \union {Queue(w)[i] : i \in (Len(data) + 1)..Len(data)}]
        BY <1>0, <3>3, <4>1 DEF TypeOK
      <4> QED
        BY <3>1, <4>2
    <3>4. ASSUME NEW n \in 1..Len(data),
                 failed' = [failed EXCEPT ![w] =
                              @ \union {data[i] : i \in n..Len(data)}]
          PROVE  \E m \in 1..(Len(data) + 1) :
                   failed' = [failed EXCEPT ![w] =
                                @ \union {Queue(w)[i] : i \in m..Len(data)}]
      <4>1. n \in 1..(Len(data) + 1) /\ \A i \in n..Len(data) : i \in 1..Len(data)
        BY <3>1
      <4>2. {data[i] : i \in n..Len(data)} = {Queue(w)[i] : i \in n..Len(data)}
        BY <3>2, <4>1
      <4> QED
        BY <3>4, <4>1, <4>2
    <3> QED
      BY <1>5, <2>1, <3>3, <3>4 DEF WriteLog
  <2>7. Records!Write(w)
    <3>1. /\ written' = [written EXCEPT ![w] =
                        @ \o SubSeq([c \in Writers |-> Queue(c)][w],
                                    1, Len(data))]
          /\ Len(data) \in 1..Len([c \in Writers |-> Queue(c)][w])
      BY <2>2, <2>6
    <3>2. [c \in Writers |-> Queue(c)'] =
            [[c \in Writers |-> Queue(c)] EXCEPT ![w] =
               SubSeq(@, Len(data) + 1, Len(@))]
      BY <2>5, <2>6
    <3>3. failed' = [failed EXCEPT ![w] =
            @ \union {[c \in Writers |-> Queue(c)][w][i] : i \in m..Len(data)}]
      BY <2>8
    <3> QED
      BY <1>1, <2>4, <2>8, <3>1, <3>2, <3>3 DEF Records!Write
  <2> QED
    BY <2>7 DEF Records!Next
<1>6. CASE ~ Recv /\ (WriteLog => log = "nofile")
  <2>1. UNCHANGED <<stream, written, failed>>
    BY <1>6 DEF ThreadFunc, WaitForEpoll, Dispatch, Accept, AcceptFails,
       RecvEnd, FindFile, WriteLog, ThreadEnds, writerVars
  <2>2. \/ UNCHANGED <<cur, data>>
        \/ log = "nofile"
        \/ UNCHANGED data /\ data = << >>
    <3>1. CASE FindFile \/ WriteLog
      BY <1>6, <3>1 DEF FindFile
    <3>2. CASE RecvEnd
      BY <3>2 DEF RecvEnd
    <3>3. CASE cur \notin Writers /\ ~ FindFile /\ ~ WriteLog
      <4>1. data = << >>
        BY <1>0, <3>3 DEF ThreadInv
      <4>2. UNCHANGED data
        BY <1>6, <3>3 DEF ThreadFunc, WaitForEpoll, Dispatch, Accept,
           AcceptFails, RecvEnd, ThreadEnds
      <4> QED
        BY <4>1, <4>2
    <3>4. CASE cur \in Writers
      BY <1>6, <3>1, <3>2, <3>4, LoggerAssumption DEF ThreadFunc, WaitForEpoll,
         Dispatch, Accept, AcceptFails, ThreadEnds
    <3> QED
      BY <3>1, <3>3, <3>4
  <2>3. ASSUME NEW c \in Writers, Linked(c)'
        PROVE  Linked(c) /\ Queue(c)' = Queue(c)
    <3>1. Linked(c) /\ log # "nofile" /\ stream'[c] = stream[c]
      BY <1>1, <1>3, <2>1, <2>3 DEF Linked
    <3>2. (IF cur' = c THEN data' ELSE << >>) = (IF cur = c THEN data ELSE << >>)
      BY <2>2, <3>1
    <3> QED
      BY <2>3, <3>1, <3>2 DEF Queue
  <2> QED
    BY <1>1, <1>2, <2>1, <2>3, LosesQueues
<1> QED
  BY <1>4, <1>5, <1>6

LEMMA TracingRecords ==
  ASSUME StructInv, NEW c \in Writers, Tracing(c)
  PROVE  Records!Next
<1> DEFINE L == [e \in Writers |-> Link(e)]
           Q == [e \in Writers |-> Queue(e)]
<1>0. /\ TypeOK /\ ThreadInv /\ ServedInv /\ FreshInv
      /\ UNCHANGED <<written, failed, cur, data, log>>
  BY DEF StructInv, Tracing, TraceLinks, TraceSends, TraceSilently, WriterEnds,
     threadVars
<1>1. \A e \in Writers \ {c} : Link(e)' = Link(e) /\ Queue(e)' = Queue(e)
  <2>1. ASSUME NEW e \in Writers \ {c}
        PROVE  /\ status'[e] = status[e] /\ conn'[e] = conn[e]
               /\ stream'[e] = stream[e]
    <3>1. CASE TraceLinks(c)
      BY <1>0, <3>1 DEF TraceLinks, TypeOK
    <3>2. CASE TraceSends(c)
      BY <1>0, <3>2 DEF TraceSends, TypeOK
    <3>3. CASE TraceSilently(c) \/ WriterEnds(c)
      BY <1>0, <3>3 DEF TraceSilently, WriterEnds, TypeOK
    <3> QED
      BY <3>1, <3>2, <3>3 DEF Tracing
  <2> QED
    BY <1>0, <2>1 DEF Link, Queue, Linked
\* The record of a thread that is not connected is lost, and the thread with it.
<1>2. ASSUME ~ Linked(c), ~ Linked(c)', status'[c] # "fresh",
             traced' = [traced EXCEPT ![c] = traced[c] + 1]
      PROVE  Records!Trace(c)
  <2>1. Link(c)' = "lost" /\ Link(c) # "open" /\ Queue(c)' = Queue(c)
    BY <1>2 DEF Link, Queue
  <2>2. L' = [L EXCEPT ![c] = "lost"] /\ UNCHANGED Q /\ L[c] # "open"
    BY <1>1, <2>1
  <2> QED
    BY <1>0, <1>2, <2>2 DEF Records!Trace
<1>3. CASE TraceLinks(c) /\ path = "live"
  <2>1. /\ status[c] = "fresh" /\ conn[c] = "none" /\ stream[c] = << >>
        /\ conn' = [conn EXCEPT ![c] = "pending"]
        /\ UNCHANGED <<stream, traced>> /\ log # "nofile" /\ cur # c
    BY <1>0, <1>3 DEF TraceLinks, FreshInv, ThreadInv, ServedInv
  <2>2. ~ Linked(c) /\ Linked(c)'
    BY <1>0, <2>1 DEF Linked, TypeOK
  <2>3. Link(c) = "fresh" /\ Link(c)' = "open"
    BY <2>1, <2>2 DEF Link
  <2>4. Queue(c)' = << >> /\ Queue(c) = << >>
    <3>1. Queue(c)' = << >> \o << >>
      BY <1>0, <2>1, <2>2 DEF Queue
    <3>2. << >> \o << >> = << >>
      BY EmptySeq, ConcatEmptySeq
    <3> QED
      BY <2>2, <3>1, <3>2 DEF Queue
  <2>5. L' = [L EXCEPT ![c] = "open"] /\ UNCHANGED Q /\ L[c] = "fresh"
    BY <1>1, <2>3, <2>4
  <2>6. Records!Connect(c)
    BY <1>0, <2>1, <2>5 DEF Records!Connect
  <2> QED
    BY <2>6 DEF Records!Next
<1>4. CASE TraceLinks(c) /\ path # "live"
  <2>1. /\ status[c] = "fresh" /\ conn[c] = "none" /\ UNCHANGED conn
        /\ status' = [status EXCEPT ![c] = "closed"]
        /\ traced' = [traced EXCEPT ![c] = traced[c] + 1]
    BY <1>0, <1>4 DEF TraceLinks, FreshInv
  <2>2. ~ Linked(c) /\ ~ Linked(c)' /\ status'[c] = "closed"
    BY <1>0, <2>1 DEF Linked, TypeOK
  <2> QED
    BY <1>2, <2>1, <2>2 DEF Records!Next
<1>5. CASE TraceSends(c) /\ Linked(c)
  <2>1. /\ stream' = [stream EXCEPT ![c] = Append(stream[c], traced[c] + 1)]
        /\ traced' = [traced EXCEPT ![c] = traced[c] + 1]
        /\ UNCHANGED <<status, conn>>
    BY <1>5 DEF TraceSends, Linked
  <2>2. Linked(c)' /\ Link(c)' = Link(c) /\ Link(c) = "open"
    BY <1>0, <1>5, <2>1 DEF Linked, Link
  <2> DEFINE d == IF cur = c THEN data ELSE << >>
  <2>3. d \in Seq(Nat) /\ stream[c] \in Seq(Nat) /\ traced[c] + 1 \in Nat
    BY <1>0, EmptySeq DEF TypeOK
  <2>4. /\ Queue(c) = d \o stream[c]
        /\ Queue(c)' = d \o Append(stream[c], traced[c] + 1)
    <3>1. stream'[c] = Append(stream[c], traced[c] + 1)
      BY <1>0, <2>1 DEF TypeOK
    <3> QED
      BY <1>0, <1>5, <2>2, <3>1 DEF Queue
  <2> HIDE DEF d
  <2>5. Queue(c)' = Append(Queue(c), traced[c] + 1)
    BY <2>3, <2>4, Queued
  <2>6. /\ Q' = [Q EXCEPT ![c] = Append(Q[c], traced[c] + 1)]
        /\ UNCHANGED L /\ L[c] = "open"
    BY <1>1, <2>2, <2>5
  <2>7. Records!Trace(c)
    BY <1>0, <2>1, <2>6 DEF Records!Trace
  <2> QED
    BY <2>7 DEF Records!Next
<1>6. CASE TraceSends(c) /\ ~ Linked(c)
  <2>1. /\ status[c] = "linked" /\ UNCHANGED <<status, conn>>
        /\ traced' = [traced EXCEPT ![c] = traced[c] + 1]
    BY <1>6 DEF TraceSends
  <2>2. ~ Linked(c)' /\ status'[c] # "fresh"
    BY <1>0, <1>6, <2>1 DEF Linked
  <2> QED
    BY <1>2, <1>6, <2>1, <2>2 DEF Records!Next
<1>7. CASE TraceSilently(c)
  <2>1. /\ status[c] = "closed" /\ conn[c] = "none" /\ UNCHANGED <<status, conn>>
        /\ traced' = [traced EXCEPT ![c] = traced[c] + 1]
    BY <1>0, <1>7 DEF TraceSilently, FreshInv
  <2> QED
    BY <1>2, <2>1 DEF Records!Next, Linked
<1>8. CASE WriterEnds(c)
  <2>1. /\ UNCHANGED <<conn, stream, traced, written, failed>>
        /\ status' = [status EXCEPT ![c] = "ended"]
    BY <1>8 DEF WriterEnds
  <2>2. \A e \in Writers : Linked(e)' => Linked(e) /\ Queue(e)' = Queue(e)
    BY <1>0, <2>1 DEF Linked, Queue
  <2>3. \A e \in Writers : ~ Linked(e)' /\ status'[e] = "fresh"
                             => ~ Linked(e) /\ status[e] = "fresh"
    BY <1>0, <2>1 DEF Linked, TypeOK
  <2> QED
    BY <2>1, <2>2, <2>3, LosesQueues
<1> QED
  BY <1>3, <1>4, <1>5, <1>6, <1>7, <1>8 DEF Tracing

\* To every writer the log is one queue that begins with its first record and
\* ends with its connection: whatever happens to the log process, its start, its
\* Close, its kills, its failing calls and writes, is a step of RecordLog or none
\* (Logger.cpp:12-193).
THEOREM LogIsOneQueue == Spec => LogSpec
<1>1. Init => Records!Init
  BY InitRecords
<1>2. StructInv /\ [Next]_vars => [Records!Next]_(Records!vars)
  <2> SUFFICES ASSUME StructInv, [Next]_vars
               PROVE  [Records!Next]_(Records!vars)
    OBVIOUS
  <2>1. CASE Next
    BY <2>1, ProcessRecords, ThreadRecords, TracingRecords DEF Next
  <2>2. CASE UNCHANGED vars
    BY <2>2 DEF vars, threadVars, writerVars, Records!vars, Link, Queue, Linked
  <2> QED
    BY <2>1, <2>2
<1>3. IInv => StructInv
  BY DEF IInv, StructInv
<1> QED
  BY <1>1, <1>2, <1>3, LoggerInvariant, PTL DEF Spec, LogSpec, Records!Spec
-----------------------------------------------------------------------------
\* In an orderly process a writer that is linked has a server, until it ends.
LinkedInv ==
  /\ crash # "sigpipe"
  /\ \A c \in Writers : status[c] = "linked" => conn[c] # "gone"
  /\ log \in {"noserver", "noepoll", "nofile", "done"}
       => \A c \in Writers : status[c] = "ended"

\* The discipline of the theorem: the log process closes last, no call fails and
\* nobody kills it.
Discipline == Orderly /\ MaxFaults = 0 /\ MaxCrashes = 0

LEMMA InitLinked == Init => LinkedInv
BY DEF Init, LinkedInv

LEMMA NextLinked ==
  ASSUME Discipline, TypeOK, LinkedInv, [Next]_vars
  PROVE  LinkedInv'
<1>0. ~ Fault /\ ~ (crashes < MaxCrashes)
  BY DEF Discipline, Fault, TypeOK
<1> DEFINE AllEnded == \A c \in Writers : status[c] = "ended"
<1>1. CASE UNCHANGED vars
  BY <1>1 DEF vars, writerVars, LinkedInv
<1>2. CASE Starting
  <2>1. /\ log' \in {"down", "starting", "up"}
        /\ UNCHANGED <<conn, crash, status>>
    BY <1>0, <1>2 DEF Starting, StartFailsEarly, StartOnTakenPath, StartListens,
       StartThread, StartFailsLate, writerVars
  <2> QED
    BY <2>1 DEF LinkedInv
<1>3. CASE ThreadFunc
  <2>1. /\ UNCHANGED <<log, status>> /\ crash' # "sigpipe"
    BY <1>3 DEF ThreadFunc, WaitForEpoll, Dispatch, Accept, AcceptFails, Recv,
       RecvEnd, FindFile, WriteLog, ThreadEnds, writerVars
  <2>2. \A c \in Writers : status[c] = "linked" /\ conn[c] # "gone"
                             => conn'[c] # "gone"
    <3>1. CASE UNCHANGED conn
      BY <3>1
    <3>2. CASE Accept /\ conn' # conn
      <4>1. PICK c \in Writers : conn' = [conn EXCEPT ![c] = "open"]
        BY <1>0, <3>2 DEF Accept
      <4> QED
        BY <4>1 DEF TypeOK
    <3>3. CASE RecvEnd
      <4>1. /\ conn' = [conn EXCEPT ![cur] = "gone"]
            /\ status[cur] \in {"closed", "ended"}
        BY <3>3 DEF RecvEnd
      <4> QED
        BY <4>1 DEF TypeOK
    <3> QED
      BY <1>3, <3>1, <3>2, <3>3 DEF ThreadFunc, WaitForEpoll, Dispatch,
         AcceptFails, Recv, FindFile, WriteLog, ThreadEnds
  <2> QED
    BY <2>1, <2>2 DEF LinkedInv
<1>4. CASE Closing \/ PoolClose
  <2>1. /\ UNCHANGED <<status, crash>>
        /\ \/ UNCHANGED <<conn, log>>
           \/ AllEnded
    BY <1>0, <1>4 DEF Closing, CloseServer, CloseEpoll, CloseFile, Exit,
       LogKilled, PoolClose, writerVars, Discipline, LinkedInv
  <2> QED
    BY <2>1 DEF LinkedInv
<1>5. ASSUME NEW c \in Writers, Tracing(c)
      PROVE  LinkedInv'
  <2>1. UNCHANGED log
    BY <1>5 DEF Tracing, TraceLinks, TraceSends, TraceSilently, WriterEnds
  <2>2. \A d \in Writers : status[d] = "ended" => status'[d] = "ended"
    BY <1>5 DEF Tracing, TraceLinks, TraceSends, TraceSilently, WriterEnds,
       TypeOK
  <2>3. crash' # "sigpipe"
    BY <1>5 DEF Tracing, TraceLinks, TraceSends, TraceSilently, WriterEnds,
       LinkedInv
  <2>4. \A d \in Writers : status'[d] = "linked" => conn'[d] # "gone"
    BY <1>5 DEF Tracing, TraceLinks, TraceSends, TraceSilently, WriterEnds,
       LinkedInv, TypeOK
  <2> QED
    BY <2>1, <2>2, <2>3, <2>4 DEF LinkedInv
<1> QED
  BY <1>1, <1>2, <1>3, <1>4, <1>5 DEF Next

\* A log process that outlives its writers and loses no connection never costs a
\* writer its process: a linked client has its server until its thread ends
\* (Logger.cpp:149-166, 188, Socket.h:250).
THEOREM TracingIsSafe == ASSUME Discipline PROVE Spec => []NoWriterKilled
<1>1. TypeOK /\ LinkedInv /\ [Next]_vars => LinkedInv'
  BY NextLinked
<1>2. LinkedInv => NoWriterKilled
  BY DEF LinkedInv, NoWriterKilled
<1>3. Spec => []LinkedInv
  BY <1>1, InitLinked, LoggerTypes, PTL DEF Spec
<1> QED
  BY <1>2, <1>3, PTL
-----------------------------------------------------------------------------
(* A record on its way never waits for a log thread that waits.            *)

\* What a log thread was told of is still there when it gets to it, as long as
\* its server is open: nobody else accepts or reads.
HeldReady ==
  log = "up" =>
    /\ cur # "off"
    /\ \A f \in snap : Ready(f)
    /\ cur \in Writers \union {"server"} /\ data = << >> => Ready(cur)

\* The guards of ThreadStep, crash aside: the log thread has a step.
CanStep == \/ data # << >> \/ hasFile
           \/ cur = "idle" /\ (snap # {} \/ ReadySet # {})
           \/ cur \in Writers \union {"server"} /\ data = << >> /\ Ready(cur)

\* Whatever is on its way moves; and with nothing on its way the thread is in
\* epoll_wait, not in an accept or a recv that would block it.
LogNeverStuck ==
  log = "up" /\ crash = "none" =>
    /\ (\E c \in Writers : Queue(c) # << >>) => CanStep
    /\ CanStep \/ cur = "idle"

LEMMA HeldStep ==
  ASSUME TypeOK, ThreadInv, ServedInv, FreshInv, HeldReady, [Next]_vars
  PROVE  HeldReady'
<1> SUFFICES ASSUME log' = "up"
             PROVE  /\ cur' # "off"
                    /\ \A f \in snap' : Ready(f)'
                    /\ cur' \in Writers \union {"server"} /\ data' = << >>
                         => Ready(cur)'
  BY DEF HeldReady
<1>0. "server" \notin Writers /\ "idle" \notin Writers /\ "off" \notin Writers
  BY LoggerAssumption
<1>1. CASE UNCHANGED vars
  BY <1>1 DEF vars, HeldReady, Ready
<1>2. CASE Starting
  <2>1. CASE StartThread
    BY <1>0, <2>1 DEF StartThread, ThreadInv
  <2>2. CASE ~ StartThread
    <3>1. log = "up" => UNCHANGED <<log, conn, stream, status, cur, snap, data>>
      BY <1>2, <2>2 DEF Starting, StartFailsEarly, StartOnTakenPath,
         StartListens, StartFailsLate, threadVars, writerVars
    <3>2. log = "up"
      BY <1>2, <2>2 DEF Starting, StartFailsEarly, StartOnTakenPath,
         StartListens, StartFailsLate
    <3> QED
      BY <3>1, <3>2 DEF HeldReady, Ready
  <2> QED
    BY <2>1, <2>2
<1>3. CASE ThreadFunc
  <2>0. log = "up" /\ HeldReady
    BY <1>3 DEF ThreadFunc, WaitForEpoll, Dispatch, Accept, AcceptFails, Recv,
       RecvEnd, FindFile, WriteLog, ThreadEnds
  <2>1. CASE WaitForEpoll
    BY <1>0, <2>0, <2>1 DEF WaitForEpoll, ReadySet, Ready, writerVars
  <2>2. CASE \E f \in Writers \union {"server"} : Dispatch(f)
    BY <1>0, <2>0, <2>2 DEF Dispatch, HeldReady, Ready, writerVars
  <2>3. CASE Accept
    <3>1. PICK c \in Writers : /\ conn[c] = "pending"
                               /\ \A d \in Writers : d # c => conn'[d] = conn[d]
      BY <2>0, <2>3 DEF Accept, TypeOK
    <3>2. /\ cur = "server" /\ cur' = "idle" /\ UNCHANGED <<snap, log>>
          /\ UNCHANGED <<stream, status>>
      BY <2>0, <2>3 DEF Accept, writerVars
    <3>3. ASSUME NEW f \in snap PROVE f \in Writers /\ f # c
      BY <3>1, <3>2 DEF ServedInv, TypeOK
    <3> QED
      BY <1>0, <2>0, <3>1, <3>2, <3>3 DEF HeldReady, Ready
  <2>4. CASE AcceptFails \/ FindFile \/ WriteLog
    BY <1>0, <2>0, <2>4 DEF AcceptFails, FindFile, WriteLog, HeldReady, Ready,
       ThreadInv, writerVars
  <2>5. CASE Recv
    <3>1. /\ cur \in Writers /\ data' # << >> /\ UNCHANGED <<log, conn, status>>
          /\ UNCHANGED <<cur, snap>>
          /\ \A d \in Writers : d # cur => stream'[d] = stream[d]
      <4>1. PICK n \in 1..Len(stream[cur]) :
              /\ data' = SubSeq(stream[cur], 1, n)
              /\ stream' = [stream EXCEPT ![cur]
                              = SubSeq(stream[cur], n + 1, Len(stream[cur]))]
        BY <2>5 DEF Recv
      <4>2. cur \in Writers /\ stream[cur] \in Seq(Nat)
        BY <2>5 DEF Recv, TypeOK
      <4>3. Len(data') = n /\ n > 0
        BY <4>1, <4>2, SubSeqProperties, LenProperties
      <4>4. data' # << >>
        BY <4>3
      <4> QED
        BY <2>5, <4>1, <4>4 DEF Recv, TypeOK
    <3>2. \A f \in snap : f # cur /\ f \in Writers \union {"server"}
      BY DEF ServedInv, TypeOK
    <3> QED
      BY <1>0, <2>0, <3>1, <3>2 DEF HeldReady, Ready
  <2>6. CASE RecvEnd
    <3>1. /\ cur \in Writers /\ cur' = "idle" /\ UNCHANGED <<log, snap>>
          /\ UNCHANGED <<stream, status>> /\ conn[cur] = "open"
          /\ conn' = [conn EXCEPT ![cur] = "gone"]
      BY <2>6 DEF RecvEnd, writerVars, ServedInv
    <3>2. \A f \in snap : f # cur /\ f \in Writers \union {"server"}
      BY DEF ServedInv, TypeOK
    <3> QED
      BY <1>0, <2>0, <3>1, <3>2 DEF HeldReady, Ready, TypeOK
  <2>7. CASE ThreadEnds
    BY <2>0, <2>7 DEF ThreadEnds
  <2> QED
    BY <1>3, <2>1, <2>2, <2>3, <2>4, <2>5, <2>6, <2>7 DEF ThreadFunc
<1>4. CASE Closing
  BY <1>4 DEF Closing, CloseServer, CloseEpoll, CloseFile, Exit, LogKilled
<1>5. CASE PoolClose
  BY <1>5 DEF PoolClose, HeldReady, Ready, threadVars, writerVars
<1>6. ASSUME NEW c \in Writers, Tracing(c)
      PROVE  HeldReady'
  <2>1. UNCHANGED <<log, cur, snap, data>>
    BY <1>6 DEF Tracing, TraceLinks, TraceSends, TraceSilently, WriterEnds,
       threadVars
  <2>2. ASSUME NEW f \in Writers \union {"server"}, Ready(f), log = "up"
        PROVE  Ready(f)'
    <3>1. ASSUME NEW d \in Writers
          PROVE  /\ conn[d] \in {"pending", "open"} => conn'[d] = conn[d]
                 /\ status[d] = "ended" => status'[d] = "ended"
                 /\ conn[d] = "open" /\ status[d] = "closed"
                      => status'[d] \in {"closed", "ended"}
                 /\ stream[d] # << >> => stream'[d] # << >>
      <4>1. CASE TraceSends(c)
        <5>1. \/ UNCHANGED stream
              \/ stream' = [stream EXCEPT ![c] = Append(stream[c], traced[c] + 1)]
          BY <4>1 DEF TraceSends
        <5>2. Append(stream[c], traced[c] + 1) # << >>
          <6>1. stream[c] \in Seq(Nat) /\ traced[c] + 1 \in Nat
            BY DEF TypeOK
          <6> QED
            BY <6>1, AppendProperties
        <5> QED
          BY <4>1, <5>1, <5>2 DEF TraceSends, TypeOK
      <4>2. CASE TraceLinks(c)
        BY <4>2 DEF TraceLinks, FreshInv, TypeOK
      <4>3. CASE TraceSilently(c) \/ WriterEnds(c)
        BY <4>3 DEF TraceSilently, WriterEnds, TypeOK
      <4> QED
        BY <1>6, <4>1, <4>2, <4>3 DEF Tracing
    <3> QED
      BY <1>0, <2>1, <2>2, <3>1 DEF Ready, TypeOK
  <2> QED
    BY <2>1, <2>2 DEF HeldReady, TypeOK
<1> QED
  BY <1>1, <1>2, <1>3, <1>4, <1>5, <1>6 DEF Next, HeldReady

\* While the log process is up, its one thread never blocks in accept or recv, and
\* a record that a connected writer has sent, be it in the backlog, in the socket
\* or half read, always finds it with a step to take: RecordReachesDisk without
\* the fairness that makes it take them (Logger.cpp:36-81).
THEOREM LogThreadNeverStuck == Spec => []LogNeverStuck
<1>1. Init => HeldReady
  BY DEF Init, HeldReady
<1>2. IInv /\ HeldReady /\ [Next]_vars => HeldReady'
  BY HeldStep DEF IInv
<1>3. IInv /\ HeldReady => LogNeverStuck
  <2> SUFFICES ASSUME IInv, HeldReady, log = "up"
               PROVE  /\ (\E c \in Writers : Queue(c) # << >>) => CanStep
                      /\ CanStep \/ cur = "idle"
    BY DEF LogNeverStuck
  <2>1. CanStep \/ cur = "idle"
    BY DEF HeldReady, CanStep, IInv, TypeOK
  <2>2. ASSUME NEW c \in Writers, Queue(c) # << >>, cur = "idle"
        PROVE  ReadySet # {}
    <3>1. /\ conn[c] \in {"pending", "open"}
          /\ Queue(c) = << >> \o stream[c]
      BY <2>2, LoggerAssumption DEF Queue, Linked
    <3>2. << >> \o stream[c] = stream[c]
      BY ConcatEmptySeq DEF IInv, TypeOK
    <3>3. Ready("server") \/ Ready(c)
      BY <2>2, <3>1, <3>2, LoggerAssumption DEF Ready
    <3> QED
      BY <3>3 DEF ReadySet
  <2> QED
    BY <2>1, <2>2 DEF CanStep
<1> QED
  BY <1>1, <1>2, <1>3, LoggerInvariant, PTL DEF Spec
=============================================================================
