---------------------------- MODULE ThreadProofs ----------------------------
(* Proofs about the class Thread, for any objects and any number of        *)
(* threads, whichever objects may be started again early.                  *)
EXTENDS Thread, TLAPS

\* What a thread is at, whether or not the handler has interrupted it there.
At(t) == IF os[t] = "paused" THEN back[t] ELSE os[t]

\* The object is inside Start, past pthread_create.
Starting(o) == owner.object = {o} /\ owner.call \in {"created", "inserting"}

\* The parts of the inductive invariant no property says.  A thread that is alive
\* has an object, and only one that is alive has a signal to come.
ArgAlive == \A t \in Tids : os[t] # "none" <=> arg[t] # {}

PendingAlive == \A t \in pending : os[t] # "none"

\* A thread in the handler finds its object, as one with the signal to come.
PausedFinds == \A t \in Tids : os[t] = "paused" => threadMap[t] = arg[t]

\* Past line 63 no object has the id of the thread.
ClearedForgotten ==
  \A t \in Tids : At(t) \in {"cleared", "unmapped"} =>
                    \A o \in Objects : threadId[o] # t

\* The key Start or Pause has read is the id of the object, unless that is cleared
\* by now, and of no thread of another object.
KeyIsOwn ==
  \A o \in Objects :
    owner.call \in {"inserting", "killing"} /\ owner.object = {o} =>
      /\ threadId[o] \in {NoTid, owner.key}
      /\ \A t \in Tids : t = owner.key /\ os[t] # "none" => arg[t] = {o}

\* The key Pause has read leads to the object, or its thread has let the entry go.
KillFinds ==
  \A o \in Objects :
    owner.call = "killing" /\ owner.object = {o} =>
      \A t \in Tids : t = owner.key /\ os[t] # "none" =>
        \/ threadMap[t] = {o}
        \/ threadMap[t] = {} /\ os[t] = "unmapped"

\* An object has no id while Stop joins.
JoinForgot ==
  \A o \in Objects :
    owner.call = "joining" /\ owner.object = {o} => threadId[o] = NoTid

\* Outside Start the id of an object leads to the object.
MapHoldsStarted ==
  \A o \in Objects : threadId[o] # NoTid /\ ~ Starting(o)
                       => threadMap[threadId[o]] = {o}

\* An object that waits for its last thread has one thread at a time.
OneThread ==
  \A o \in Objects \ Overlap : \A t, u \in Tids :
    arg[t] = {o} /\ arg[u] = {o} => t = u

IInv == /\ TypeOK
        /\ ArgAlive
        /\ PendingAlive
        /\ ValidMeansAlive
        /\ SignalFindsObject
        /\ PausedFinds
        /\ ClearedForgotten
        /\ KeyIsOwn
        /\ KillFinds
        /\ JoinForgot
        /\ MapHoldsStarted
        /\ OneThread
        /\ PauseIsTrue

LEMMA TidsFacts == Tids \subseteq Nat \ {NoTid} /\ NoTid \notin Tids
BY ThreadAssumption DEF Tids, NoTid

LEMMA InitIInv == Init => IInv
<1> SUFFICES ASSUME Init PROVE IInv
  OBVIOUS
<1>1. TypeOK
  BY DEF Init, TypeOK, Idle, Places
<1>2. ArgAlive /\ PendingAlive /\ SignalFindsObject /\ OneThread
  BY DEF Init, ArgAlive, PendingAlive, SignalFindsObject, OneThread
<1>3. ValidMeansAlive /\ MapHoldsStarted /\ PauseIsTrue
  BY DEF Init, ValidMeansAlive, MapHoldsStarted, PauseIsTrue
<1>4. PausedFinds /\ ClearedForgotten /\ KeyIsOwn /\ KillFinds /\ JoinForgot
  BY DEF Init, PausedFinds, ClearedForgotten, At, KeyIsOwn, KillFinds, JoinForgot,
     Idle
<1> QED
  BY <1>1, <1>2, <1>3, <1>4 DEF IInv

\* What ends the process leaves everything as it is.
LEMMA CrashKeeps ==
  ASSUME IInv, NEW why \in {"no thread", "SIGUSR1", "race"}, Crashes(why)
  PROVE  IInv'
<1>0. /\ TypeOK /\ ArgAlive /\ PendingAlive /\ ValidMeansAlive
      /\ SignalFindsObject /\ PausedFinds /\ ClearedForgotten /\ KeyIsOwn
      /\ KillFinds /\ JoinForgot /\ MapHoldsStarted /\ OneThread /\ PauseIsTrue
  BY DEF IInv
<1>1. TypeOK'
  BY <1>0, TidsFacts DEF TypeOK, Tids, NoTid, Places, Crashes
<1>2. ArgAlive'
  BY <1>0, TidsFacts DEF ArgAlive, Crashes, TypeOK
<1>3. PendingAlive'
  BY <1>0, TidsFacts DEF PendingAlive, Crashes, TypeOK
<1>4. ValidMeansAlive'
  BY <1>0, TidsFacts DEF ValidMeansAlive, Alive, Crashes, TypeOK
<1>5. SignalFindsObject'
  BY <1>0, TidsFacts DEF SignalFindsObject, Crashes, TypeOK
<1>6. PausedFinds'
  BY <1>0, TidsFacts DEF PausedFinds, Crashes, TypeOK
<1>7. ClearedForgotten'
  BY <1>0, TidsFacts DEF ClearedForgotten, At, Crashes, TypeOK
<1>8. KeyIsOwn'
  BY <1>0, TidsFacts DEF KeyIsOwn, Crashes, TypeOK
<1>9. KillFinds'
  BY <1>0, TidsFacts DEF KillFinds, Crashes, TypeOK
<1>10. JoinForgot'
  BY <1>0, TidsFacts DEF JoinForgot, Crashes, TypeOK
<1>11. MapHoldsStarted'
  BY <1>0, TidsFacts DEF MapHoldsStarted, Starting, Crashes, TypeOK
<1>12. OneThread'
  BY <1>0, TidsFacts DEF OneThread, Crashes, TypeOK
<1>13. PauseIsTrue'
  BY <1>0, TidsFacts DEF PauseIsTrue, Up, Crashes, TypeOK
<1> QED
  BY <1>1, <1>2, <1>3, <1>4, <1>5, <1>6, <1>7, <1>8, <1>9, <1>10, <1>11, <1>12,
     <1>13 DEF IInv

LEMMA CreateKeeps ==
  ASSUME IInv, NEW o \in Objects, Create(o)
  PROVE  IInv'
<1>0. /\ TypeOK /\ ArgAlive /\ PendingAlive /\ ValidMeansAlive
      /\ SignalFindsObject /\ PausedFinds /\ ClearedForgotten /\ KeyIsOwn
      /\ KillFinds /\ JoinForgot /\ MapHoldsStarted /\ OneThread /\ PauseIsTrue
  BY DEF IInv
<1>1. PICK t \in Tids :
        /\ os[t] = "none"
        /\ os' = [os EXCEPT ![t] = "entry"]
        /\ arg' = [arg EXCEPT ![t] = {o}]
        /\ threadId' = [threadId EXCEPT ![o] = t]
  BY DEF Create, Alive
<1>2. arg[t] = {} /\ t \notin pending /\ \A p \in Objects : threadId[p] # t
  <2>1. arg[t] = {} /\ t \notin pending
    BY <1>0, <1>1 DEF ArgAlive, PendingAlive
  <2>2. ASSUME NEW p \in Objects, threadId[p] = t PROVE FALSE
    BY <1>0, <1>1, <2>2, TidsFacts DEF ValidMeansAlive, Alive
  <2> QED
    BY <2>1, <2>2
<1>3. /\ o \in Overlap \/ \A u \in Tids : arg[u] # {o}
      /\ owner.object = {} /\ owner.call = "none"
      /\ owner' = [call |-> "created", object |-> {o}, key |-> NoTid]
      /\ UNCHANGED <<isHover, threadMap, keys, back, pending, installed, crash>>
  <2>1. o \in Overlap \/ \A u \in Tids : arg[u] # {o}
    BY <1>0 DEF Create, Alive, ArgAlive
  <2> QED
    BY <2>1 DEF Create, Call, Idle
<1>4. /\ \A u \in Tids \ {t} : os'[u] = os[u] /\ arg'[u] = arg[u]
      /\ \A p \in Objects \ {o} : threadId'[p] = threadId[p]
      /\ os'[t] = "entry" /\ arg'[t] = {o} /\ threadId'[o] = t
  BY <1>0, <1>1 DEF TypeOK
<1>a. /\ pending \subseteq Tids
      /\ \A p \in Objects : threadId[p] # NoTid => threadId[p] \in Tids
  BY <1>0 DEF TypeOK
<1>5. TypeOK'
  BY <1>0, <1>1, <1>3 DEF TypeOK, Places
<1>6. ArgAlive'
  BY <1>0, <1>2, <1>3, <1>4 DEF ArgAlive
<1>7. PendingAlive'
  BY <1>0, <1>2, <1>3, <1>4, <1>a DEF PendingAlive
<1>8. ValidMeansAlive'
  <2> SUFFICES ASSUME NEW p \in Objects, threadId'[p] # NoTid
               PROVE  os'[threadId'[p]] # "none" /\ arg'[threadId'[p]] = {p}
    BY DEF ValidMeansAlive, Alive
  <2>1. CASE p = o
    BY <1>4, <2>1
  <2>2. CASE p # o
    <3>1. threadId'[p] = threadId[p] /\ threadId[p] \in Tids \ {t}
      BY <1>2, <1>4, <1>a, <2>2
    <3>2. os[threadId[p]] # "none" /\ arg[threadId[p]] = {p}
      BY <1>0, <3>1, TidsFacts DEF ValidMeansAlive, Alive
    <3> QED
      BY <1>4, <3>1, <3>2
  <2> QED
    BY <2>1, <2>2
<1>9. SignalFindsObject'
  BY <1>0, <1>2, <1>3, <1>4, <1>a DEF SignalFindsObject
<1>10. PausedFinds'
  BY <1>0, <1>2, <1>3, <1>4 DEF PausedFinds
<1>11. ClearedForgotten'
  BY <1>0, <1>2, <1>3, <1>4 DEF ClearedForgotten, At
<1>12. KeyIsOwn'
  BY <1>3 DEF KeyIsOwn
<1>13. KillFinds'
  BY <1>3 DEF KillFinds
<1>14. JoinForgot'
  BY <1>3 DEF JoinForgot
<1>15. MapHoldsStarted'
  BY <1>0, <1>2, <1>3, <1>4 DEF MapHoldsStarted, Starting
<1>16. OneThread'
  BY <1>0, <1>2, <1>3, <1>4 DEF OneThread
<1>17. PauseIsTrue'
  BY <1>0, <1>2, <1>3, <1>4, <1>a DEF PauseIsTrue, Up
<1> QED
  BY <1>5, <1>6, <1>7, <1>8, <1>9, <1>10, <1>11, <1>12, <1>13, <1>14, <1>15,
     <1>16, <1>17 DEF IInv

LEMMA BeginInsertKeeps ==
  ASSUME IInv, NEW o \in Objects, BeginInsert(o)
  PROVE  IInv'
<1>0. /\ TypeOK /\ ArgAlive /\ PendingAlive /\ ValidMeansAlive
      /\ SignalFindsObject /\ PausedFinds /\ ClearedForgotten /\ KeyIsOwn
      /\ KillFinds /\ JoinForgot /\ MapHoldsStarted /\ OneThread /\ PauseIsTrue
  BY DEF IInv
<1>1. /\ owner.call = "created" /\ owner.object = {o}
      /\ owner' = [call |-> "inserting", object |-> {o}, key |-> threadId[o]]
      /\ UNCHANGED <<threadId, isHover, threadMap, keys, os, arg, back, pending,
                     installed, crash>>
  BY DEF BeginInsert, In, Call
<1>2. TypeOK'
  BY <1>0, <1>1 DEF TypeOK
<1>3. ArgAlive'
  BY <1>0, <1>1 DEF ArgAlive
<1>4. PendingAlive'
  BY <1>0, <1>1 DEF PendingAlive
<1>5. ValidMeansAlive'
  BY <1>0, <1>1 DEF ValidMeansAlive, Alive
<1>6. SignalFindsObject'
  BY <1>0, <1>1 DEF SignalFindsObject
<1>7. PausedFinds'
  BY <1>0, <1>1 DEF PausedFinds
<1>8. ClearedForgotten'
  BY <1>0, <1>1 DEF ClearedForgotten, At
<1>9. KeyIsOwn'
  BY <1>0, <1>1, TidsFacts DEF KeyIsOwn, ValidMeansAlive, Alive
<1>10. KillFinds'
  BY <1>0, <1>1, TidsFacts DEF KillFinds, ValidMeansAlive, Alive
<1>11. JoinForgot'
  BY <1>0, <1>1, TidsFacts DEF JoinForgot, ValidMeansAlive, Alive
<1>12. MapHoldsStarted'
  BY <1>0, <1>1 DEF MapHoldsStarted, Starting
<1>13. OneThread'
  BY <1>0, <1>1 DEF OneThread
<1>14. PauseIsTrue'
  BY <1>0, <1>1 DEF PauseIsTrue, Up
<1> QED
  BY <1>2, <1>3, <1>4, <1>5, <1>6, <1>7, <1>8, <1>9, <1>10, <1>11, <1>12, <1>13,
     <1>14 DEF IInv

LEMMA EndInsertPreserves ==
  ASSUME IInv, NEW o \in Objects, EndInsert(o)
  PROVE  IInv'
<1>0. /\ TypeOK /\ ArgAlive /\ PendingAlive /\ ValidMeansAlive
      /\ SignalFindsObject /\ PausedFinds /\ ClearedForgotten /\ KeyIsOwn
      /\ KillFinds /\ JoinForgot /\ MapHoldsStarted /\ OneThread /\ PauseIsTrue
  BY DEF IInv
<1>1. /\ owner.call = "inserting" /\ owner.object = {o}
      /\ owner.key \in Tids \union {NoTid}
      /\ owner' = Idle /\ keys' = keys \union {owner.key}
      /\ threadMap' = [threadMap EXCEPT ![owner.key] = {o}]
      /\ isHover' = [isHover EXCEPT ![o] = FALSE]
      /\ UNCHANGED <<threadId, os, arg, back, pending, installed, crash>>
  BY <1>0 DEF EndInsert, In, TypeOK
<1>2. \A t \in Tids \union {NoTid} :
        threadMap'[t] = IF t = owner.key THEN {o} ELSE threadMap[t]
  BY <1>0, <1>1 DEF TypeOK
<1>3. \A t \in Tids : t = owner.key /\ os[t] # "none" => arg[t] = {o}
  BY <1>0, <1>1 DEF KeyIsOwn
<1>4. TypeOK'
  BY <1>0, <1>1 DEF TypeOK, Idle
<1>5. ArgAlive'
  BY <1>0, <1>1 DEF ArgAlive
<1>6. PendingAlive'
  BY <1>0, <1>1 DEF PendingAlive
<1>7. ValidMeansAlive'
  BY <1>0, <1>1 DEF ValidMeansAlive, Alive
<1>8. SignalFindsObject'
  BY <1>0, <1>1, <1>2, <1>3 DEF SignalFindsObject, PendingAlive, TypeOK
<1>9. PausedFinds'
  BY <1>0, <1>1, <1>2, <1>3 DEF PausedFinds
<1>10. ClearedForgotten'
  BY <1>0, <1>1 DEF ClearedForgotten, At
<1>11. KeyIsOwn'
  BY <1>1 DEF KeyIsOwn, Idle
<1>12. KillFinds'
  BY <1>1 DEF KillFinds, Idle
<1>13. JoinForgot'
  BY <1>1 DEF JoinForgot, Idle
<1>14. MapHoldsStarted'
  <2> SUFFICES ASSUME NEW p \in Objects, threadId[p] # NoTid
               PROVE  threadMap'[threadId[p]] = {p}
    BY <1>1 DEF MapHoldsStarted
  <2>1. /\ threadId[p] \in Tids /\ os[threadId[p]] # "none"
        /\ arg[threadId[p]] = {p}
    BY <1>0 DEF ValidMeansAlive, Alive, TypeOK
  <2>2. CASE p = o
    BY <1>0, <1>1, <1>2, <2>1, <2>2 DEF KeyIsOwn
  <2>3. CASE p # o
    <3>1. threadId[p] # owner.key
      BY <1>3, <2>1, <2>3
    <3>2. threadMap[threadId[p]] = {p}
      BY <1>0, <1>1, <2>3 DEF MapHoldsStarted, Starting
    <3> QED
      BY <1>2, <2>1, <3>1, <3>2
  <2> QED
    BY <2>2, <2>3
<1>15. OneThread'
  BY <1>0, <1>1 DEF OneThread
<1>16. PauseIsTrue'
  BY <1>0, <1>1 DEF PauseIsTrue, Up, TypeOK
<1> QED
  BY <1>4, <1>5, <1>6, <1>7, <1>8, <1>9, <1>10, <1>11, <1>12, <1>13, <1>14,
     <1>15, <1>16 DEF IInv

LEMMA StopForgetsKeeps ==
  ASSUME IInv, NEW o \in Objects, StopForgets(o)
  PROVE  IInv'
<1>0. /\ TypeOK /\ ArgAlive /\ PendingAlive /\ ValidMeansAlive
      /\ SignalFindsObject /\ PausedFinds /\ ClearedForgotten /\ KeyIsOwn
      /\ KillFinds /\ JoinForgot /\ MapHoldsStarted /\ OneThread /\ PauseIsTrue
  BY DEF IInv
<1>1. TypeOK'
  BY <1>0, TidsFacts DEF TypeOK, Tids, NoTid, Places, StopForgets, In, Call
<1>2. ArgAlive'
  BY <1>0, TidsFacts DEF ArgAlive, StopForgets, In, Call, TypeOK
<1>3. PendingAlive'
  BY <1>0, TidsFacts DEF PendingAlive, StopForgets, In, Call, TypeOK
<1>4. ValidMeansAlive'
  BY <1>0, TidsFacts DEF ValidMeansAlive, Alive, StopForgets, In, Call, TypeOK
<1>5. SignalFindsObject'
  BY <1>0, TidsFacts DEF SignalFindsObject, StopForgets, In, Call, TypeOK
<1>6. PausedFinds'
  BY <1>0, TidsFacts DEF PausedFinds, StopForgets, In, Call, TypeOK
<1>7. ClearedForgotten'
  BY <1>0, TidsFacts DEF ClearedForgotten, At, StopForgets, In, Call, TypeOK
<1>8. KeyIsOwn'
  BY <1>0, TidsFacts DEF KeyIsOwn, StopForgets, In, Call, TypeOK
<1>9. KillFinds'
  BY <1>0, TidsFacts DEF KillFinds, StopForgets, In, Call, TypeOK
<1>10. JoinForgot'
  BY <1>0, TidsFacts DEF JoinForgot, StopForgets, In, Call, TypeOK
<1>11. MapHoldsStarted'
  BY <1>0, TidsFacts DEF MapHoldsStarted, Starting, StopForgets, In, Call, TypeOK
<1>12. OneThread'
  BY <1>0, TidsFacts DEF OneThread, StopForgets, In, Call, TypeOK
<1>13. PauseIsTrue'
  BY <1>0, TidsFacts DEF PauseIsTrue, Up, StopForgets, In, Call, TypeOK
<1> QED
  BY <1>1, <1>2, <1>3, <1>4, <1>5, <1>6, <1>7, <1>8, <1>9, <1>10, <1>11, <1>12,
     <1>13 DEF IInv

\* A step of Stop or Pause that changes nothing but what the call knows.
LEMMA CallKeeps ==
  ASSUME IInv, owner.call \notin {"created", "inserting"},
         owner' \in [call : {"none", "killing", "stopping"},
                     object : SUBSET Objects, key : Tids \union {NoTid}],
         KeyIsOwn', KillFinds', PauseIsTrue',
         UNCHANGED <<threadId, isHover, threadMap, keys, os, arg, back, pending,
                     installed, crash>>
  PROVE  IInv'
<1>0. /\ TypeOK /\ ArgAlive /\ PendingAlive /\ ValidMeansAlive
      /\ SignalFindsObject /\ PausedFinds /\ ClearedForgotten /\ KeyIsOwn
      /\ KillFinds /\ JoinForgot /\ MapHoldsStarted /\ OneThread /\ PauseIsTrue
  BY DEF IInv
<1>1. TypeOK'
  BY <1>0 DEF TypeOK
<1>2. ArgAlive' /\ PendingAlive' /\ ValidMeansAlive'
  BY <1>0 DEF ArgAlive, PendingAlive, ValidMeansAlive, Alive
<1>3. SignalFindsObject' /\ PausedFinds' /\ ClearedForgotten'
  BY <1>0 DEF SignalFindsObject, PausedFinds, ClearedForgotten, At
<1>4. JoinForgot'
  BY DEF JoinForgot
<1>5. MapHoldsStarted'
  BY <1>0 DEF MapHoldsStarted, Starting
<1>6. OneThread'
  BY <1>0 DEF OneThread
<1> QED
  BY <1>1, <1>2, <1>3, <1>4, <1>5, <1>6 DEF IInv

LEMMA BeginStopKeeps ==
  ASSUME IInv, NEW o \in Objects, BeginStop(o)
  PROVE  IInv'
<1>1. /\ owner.call = "none" /\ owner.object = {}
      /\ owner' = [call |-> "stopping", object |-> {o}, key |-> NoTid]
      /\ UNCHANGED <<threadId, isHover, threadMap, keys, os, arg, back, pending,
                     installed, crash>>
  BY DEF BeginStop, Idle, Call
<1>2. KeyIsOwn' /\ KillFinds'
  BY <1>1 DEF KeyIsOwn, KillFinds
<1>3. PauseIsTrue'
  BY <1>1 DEF IInv, PauseIsTrue, Up
<1> QED
  BY <1>1, <1>2, <1>3, CallKeeps

\* The thread of the call is not there, or the join is refused.
LEMMA JoinedKeeps ==
  ASSUME IInv, NEW o \in Objects, In("joining", o), owner' = Idle,
         UNCHANGED <<threadId, isHover, threadMap, keys, os, arg, back, pending,
                     installed, crash>>
  PROVE  IInv'
<1>1. owner.call = "joining" /\ owner.object = {o} /\ threadId[o] = NoTid
  BY DEF In, IInv, JoinForgot
<1>2. KeyIsOwn' /\ KillFinds'
  BY DEF KeyIsOwn, KillFinds, Idle
<1>3. PauseIsTrue'
  BY <1>1 DEF IInv, PauseIsTrue, Up, Idle
<1> QED
  BY <1>1, <1>2, <1>3, CallKeeps DEF Idle

LEMMA ReadPauseKeeps ==
  ASSUME IInv, NEW o \in Objects, ReadPause(o)
  PROVE  IInv'
<1>0. /\ TypeOK /\ ArgAlive /\ PendingAlive /\ ValidMeansAlive
      /\ SignalFindsObject /\ PausedFinds /\ ClearedForgotten /\ KeyIsOwn
      /\ KillFinds /\ JoinForgot /\ MapHoldsStarted /\ OneThread /\ PauseIsTrue
  BY DEF IInv
<1>1. /\ owner.call = "pausing" /\ owner.object = {o}
      /\ owner' = [call |-> "killing", object |-> {o}, key |-> threadId[o]]
      /\ UNCHANGED <<threadId, isHover, threadMap, keys, os, arg, back, pending,
                     installed, crash>>
  BY DEF ReadPause, In, Call
<1>2. threadId[o] \in Tids \union {NoTid}
  BY <1>0 DEF TypeOK
<1>3. threadId[o] # NoTid => arg[threadId[o]] = {o} /\ threadMap[threadId[o]] = {o}
  BY <1>0, <1>1 DEF ValidMeansAlive, MapHoldsStarted, Starting
<1>4. KeyIsOwn' /\ KillFinds'
  BY <1>1, <1>3, TidsFacts DEF KeyIsOwn, KillFinds
<1>5. PauseIsTrue'
  BY <1>0, <1>1 DEF PauseIsTrue, Up
<1> QED
  BY <1>1, <1>2, <1>4, <1>5, CallKeeps

\* pthread_kill finds no thread, and the process goes on.
LEMMA NotSentKeeps ==
  ASSUME IInv, NEW o \in Objects, In("killing", o), NoThread, owner' = Idle,
         UNCHANGED <<threadId, isHover, threadMap, keys, os, arg, back, pending,
                     installed, crash>>
  PROVE  IInv'
<1>1. owner.call = "killing" /\ owner.object = {o}
  BY DEF In
<1>2. threadId[o] = NoTid
  <2>1. threadId[o] \in {NoTid, owner.key}
    BY <1>1 DEF IInv, KeyIsOwn
  <2>2. threadId[o] # NoTid => threadId[o] \in {t \in Tids : Alive(t)}
    BY DEF IInv, TypeOK, ValidMeansAlive
  <2> QED
    BY <2>1, <2>2 DEF NoThread
<1>3. KeyIsOwn' /\ KillFinds'
  BY DEF KeyIsOwn, KillFinds, Idle
<1>4. PauseIsTrue'
  BY <1>1, <1>2 DEF IInv, PauseIsTrue, Up, Idle
<1> QED
  BY <1>1, <1>3, <1>4, CallKeeps DEF Idle

LEMMA BeginPauseKeeps ==
  ASSUME IInv, NEW o \in Objects, BeginPause(o)
  PROVE  IInv'
<1>0. /\ TypeOK /\ ArgAlive /\ PendingAlive /\ ValidMeansAlive
      /\ SignalFindsObject /\ PausedFinds /\ ClearedForgotten /\ KeyIsOwn
      /\ KillFinds /\ JoinForgot /\ MapHoldsStarted /\ OneThread /\ PauseIsTrue
  BY DEF IInv
<1>1. /\ owner.call = "none" /\ owner.object = {}
      /\ owner' = [call |-> "pausing", object |-> {o}, key |-> NoTid]
      /\ isHover' = [isHover EXCEPT ![o] = TRUE]
      /\ UNCHANGED <<threadId, threadMap, keys, os, arg, back, pending,
                     installed, crash>>
  BY DEF BeginPause, Idle, Call
<1>2. TypeOK'
  BY <1>0, <1>1 DEF TypeOK
<1>3. ArgAlive'
  BY <1>0, <1>1 DEF ArgAlive
<1>4. PendingAlive'
  BY <1>0, <1>1 DEF PendingAlive
<1>5. ValidMeansAlive'
  BY <1>0, <1>1 DEF ValidMeansAlive, Alive
<1>6. SignalFindsObject'
  BY <1>0, <1>1 DEF SignalFindsObject
<1>7. PausedFinds'
  BY <1>0, <1>1 DEF PausedFinds
<1>8. ClearedForgotten'
  BY <1>0, <1>1 DEF ClearedForgotten, At
<1>9. KeyIsOwn'
  BY <1>1 DEF KeyIsOwn
<1>10. KillFinds'
  BY <1>1 DEF KillFinds
<1>11. JoinForgot'
  BY <1>1 DEF JoinForgot
<1>12. MapHoldsStarted'
  BY <1>0, <1>1 DEF MapHoldsStarted, Starting
<1>13. OneThread'
  BY <1>0, <1>1 DEF OneThread
<1>14. PauseIsTrue'
  BY <1>0, <1>1 DEF PauseIsTrue, Up, TypeOK
<1> QED
  BY <1>2, <1>3, <1>4, <1>5, <1>6, <1>7, <1>8, <1>9, <1>10, <1>11, <1>12, <1>13,
     <1>14 DEF IInv

\* pthread_kill finds a thread and the handler.
LEMMA SendKeeps ==
  ASSUME IInv, NEW o \in Objects, In("killing", o), ~ NoThread,
         pending' = pending \union {owner.key}, owner' = Idle,
         UNCHANGED <<threadId, isHover, threadMap, keys, os, arg, back,
                     installed, crash>>
  PROVE  IInv'
<1>0. /\ TypeOK /\ ArgAlive /\ PendingAlive /\ ValidMeansAlive
      /\ SignalFindsObject /\ PausedFinds /\ ClearedForgotten /\ KeyIsOwn
      /\ KillFinds /\ JoinForgot /\ MapHoldsStarted /\ OneThread /\ PauseIsTrue
  BY DEF IInv
<1>1. /\ owner.call = "killing" /\ owner.object = {o}
      /\ owner.key \in Tids /\ os[owner.key] # "none"
      /\ arg[owner.key] = {o} /\ threadId[o] \in {NoTid, owner.key}
      /\ \/ threadMap[owner.key] = {o}
         \/ threadMap[owner.key] = {} /\ os[owner.key] = "unmapped"
  BY <1>0 DEF NoThread, Alive, KeyIsOwn, KillFinds, In
<1>2. TypeOK'
  BY <1>0, <1>1, TidsFacts DEF TypeOK, Tids, NoTid, Places, Idle
<1>3. ArgAlive'
  BY <1>0, TidsFacts, <1>1 DEF ArgAlive, Idle, TypeOK
<1>4. PendingAlive'
  BY <1>0, TidsFacts, <1>1 DEF PendingAlive, Idle, TypeOK
<1>5. ValidMeansAlive'
  BY <1>0, TidsFacts, <1>1 DEF ValidMeansAlive, Alive, Idle, TypeOK
<1>6. SignalFindsObject'
  BY <1>0, TidsFacts, <1>1 DEF SignalFindsObject, Idle, TypeOK
<1>7. PausedFinds'
  BY <1>0, TidsFacts, <1>1 DEF PausedFinds, Idle, TypeOK
<1>8. ClearedForgotten'
  BY <1>0, TidsFacts, <1>1 DEF ClearedForgotten, At, Idle, TypeOK
<1>9. KeyIsOwn'
  BY <1>0, TidsFacts, <1>1 DEF KeyIsOwn, Idle, TypeOK
<1>10. KillFinds'
  BY <1>0, TidsFacts, <1>1 DEF KillFinds, Idle, TypeOK
<1>11. JoinForgot'
  BY <1>0, TidsFacts, <1>1 DEF JoinForgot, Idle, TypeOK
<1>12. MapHoldsStarted'
  BY <1>0, TidsFacts, <1>1 DEF MapHoldsStarted, Starting, Idle, TypeOK
<1>13. OneThread'
  BY <1>0, TidsFacts, <1>1 DEF OneThread, Idle, TypeOK
<1>14. PauseIsTrue'
  BY <1>0, TidsFacts, <1>1 DEF PauseIsTrue, Up, Idle, TypeOK
<1> QED
  BY <1>2, <1>3, <1>4, <1>5, <1>6, <1>7, <1>8, <1>9, <1>10, <1>11, <1>12, <1>13,
     <1>14 DEF IInv

LEMMA EnterKeeps ==
  ASSUME IInv, NEW t \in Tids, Enter(t)
  PROVE  IInv'
<1>0. /\ TypeOK /\ ArgAlive /\ PendingAlive /\ ValidMeansAlive
      /\ SignalFindsObject /\ PausedFinds /\ ClearedForgotten /\ KeyIsOwn
      /\ KillFinds /\ JoinForgot /\ MapHoldsStarted /\ OneThread /\ PauseIsTrue
  BY DEF IInv
<1>1. TypeOK'
  BY <1>0, TidsFacts DEF TypeOK, Tids, NoTid, Places, Enter
<1>2. ArgAlive'
  BY <1>0, TidsFacts DEF ArgAlive, Enter, TypeOK
<1>3. PendingAlive'
  BY <1>0, TidsFacts DEF PendingAlive, Enter, TypeOK
<1>4. ValidMeansAlive'
  BY <1>0, TidsFacts DEF ValidMeansAlive, Alive, Enter, TypeOK
<1>5. SignalFindsObject'
  BY <1>0, TidsFacts DEF SignalFindsObject, Enter, TypeOK
<1>6. PausedFinds'
  BY <1>0, TidsFacts DEF PausedFinds, Enter, TypeOK
<1>7. ClearedForgotten'
  BY <1>0, TidsFacts DEF ClearedForgotten, At, Enter, TypeOK
<1>8. KeyIsOwn'
  BY <1>0, TidsFacts DEF KeyIsOwn, Enter, TypeOK
<1>9. KillFinds'
  BY <1>0, TidsFacts DEF KillFinds, Enter, TypeOK
<1>10. JoinForgot'
  BY <1>0, TidsFacts DEF JoinForgot, Enter, TypeOK
<1>11. MapHoldsStarted'
  BY <1>0, TidsFacts DEF MapHoldsStarted, Starting, Enter, TypeOK
<1>12. OneThread'
  BY <1>0, TidsFacts DEF OneThread, Enter, TypeOK
<1>13. PauseIsTrue'
  BY <1>0, TidsFacts DEF PauseIsTrue, Up, Enter, TypeOK
<1> QED
  BY <1>1, <1>2, <1>3, <1>4, <1>5, <1>6, <1>7, <1>8, <1>9, <1>10, <1>11, <1>12,
     <1>13 DEF IInv

LEMMA ReturnKeeps ==
  ASSUME IInv, NEW t \in Tids, Return(t)
  PROVE  IInv'
<1>0. /\ TypeOK /\ ArgAlive /\ PendingAlive /\ ValidMeansAlive
      /\ SignalFindsObject /\ PausedFinds /\ ClearedForgotten /\ KeyIsOwn
      /\ KillFinds /\ JoinForgot /\ MapHoldsStarted /\ OneThread /\ PauseIsTrue
  BY DEF IInv
<1>1. TypeOK'
  BY <1>0, TidsFacts DEF TypeOK, Tids, NoTid, Places, Return
<1>2. ArgAlive'
  BY <1>0, TidsFacts DEF ArgAlive, Return, TypeOK
<1>3. PendingAlive'
  BY <1>0, TidsFacts DEF PendingAlive, Return, TypeOK
<1>4. ValidMeansAlive'
  BY <1>0, TidsFacts DEF ValidMeansAlive, Alive, Return, TypeOK
<1>5. SignalFindsObject'
  BY <1>0, TidsFacts DEF SignalFindsObject, Return, TypeOK
<1>6. PausedFinds'
  BY <1>0, TidsFacts DEF PausedFinds, Return, TypeOK
<1>7. ClearedForgotten'
  BY <1>0, TidsFacts DEF ClearedForgotten, At, Return, TypeOK
<1>8. KeyIsOwn'
  BY <1>0, TidsFacts DEF KeyIsOwn, Return, TypeOK
<1>9. KillFinds'
  BY <1>0, TidsFacts DEF KillFinds, Return, TypeOK
<1>10. JoinForgot'
  BY <1>0, TidsFacts DEF JoinForgot, Return, TypeOK
<1>11. MapHoldsStarted'
  BY <1>0, TidsFacts DEF MapHoldsStarted, Starting, Return, TypeOK
<1>12. OneThread'
  BY <1>0, TidsFacts DEF OneThread, Return, TypeOK
<1>13. PauseIsTrue'
  BY <1>0, TidsFacts DEF PauseIsTrue, Up, Return, TypeOK
<1> QED
  BY <1>1, <1>2, <1>3, <1>4, <1>5, <1>6, <1>7, <1>8, <1>9, <1>10, <1>11, <1>12,
     <1>13 DEF IInv

LEMMA ClearIdKeeps ==
  ASSUME IInv, NEW t \in Tids, ClearId(t)
  PROVE  IInv'
<1>0. /\ TypeOK /\ ArgAlive /\ PendingAlive /\ ValidMeansAlive
      /\ SignalFindsObject /\ PausedFinds /\ ClearedForgotten /\ KeyIsOwn
      /\ KillFinds /\ JoinForgot /\ MapHoldsStarted /\ OneThread /\ PauseIsTrue
  BY DEF IInv
<1>1. TypeOK'
  BY <1>0, TidsFacts DEF TypeOK, Tids, NoTid, Places, ClearId
<1>2. ArgAlive'
  BY <1>0, TidsFacts DEF ArgAlive, ClearId, TypeOK
<1>3. PendingAlive'
  BY <1>0, TidsFacts DEF PendingAlive, ClearId, TypeOK
<1>4. ValidMeansAlive'
  BY <1>0, TidsFacts DEF ValidMeansAlive, Alive, ClearId, TypeOK
<1>5. SignalFindsObject'
  BY <1>0, TidsFacts DEF SignalFindsObject, ClearId, TypeOK
<1>6. PausedFinds'
  BY <1>0, TidsFacts DEF PausedFinds, ClearId, TypeOK
<1>7. ClearedForgotten'
  <2>1. /\ \A p \in Objects : threadId'[p] = IF arg[t] = {p} THEN NoTid
                                                         ELSE threadId[p]
        /\ \A u \in Tids \ {t} : os'[u] = os[u]
        /\ UNCHANGED back
    BY <1>0 DEF ClearId, TypeOK
  <2>2. \A p \in Objects : threadId[p] = t => arg[t] = {p}
    BY <1>0, TidsFacts DEF ValidMeansAlive
  <2>3. ASSUME NEW u \in Tids, At(u)' \in {"cleared", "unmapped"}, NEW p \in Objects
        PROVE  threadId'[p] # u
    BY <1>0, <2>1, <2>2, <2>3, TidsFacts DEF ClearedForgotten, At
  <2> QED
    BY <2>3 DEF ClearedForgotten
<1>8. KeyIsOwn'
  BY <1>0, TidsFacts DEF KeyIsOwn, ClearId, TypeOK
<1>9. KillFinds'
  BY <1>0, TidsFacts DEF KillFinds, ClearId, TypeOK
<1>10. JoinForgot'
  BY <1>0, TidsFacts DEF JoinForgot, ClearId, TypeOK
<1>11. MapHoldsStarted'
  BY <1>0, TidsFacts DEF MapHoldsStarted, Starting, ClearId, TypeOK
<1>12. OneThread'
  BY <1>0, TidsFacts DEF OneThread, ClearId, TypeOK
<1>13. PauseIsTrue'
  BY <1>0, TidsFacts DEF PauseIsTrue, Up, ClearId, TypeOK
<1> QED
  BY <1>1, <1>2, <1>3, <1>4, <1>5, <1>6, <1>7, <1>8, <1>9, <1>10, <1>11, <1>12,
     <1>13 DEF IInv

\* The thread lets its entry go.
LEMMA UnmapKeeps ==
  ASSUME IInv, NEW t \in Tids, os[t] = "cleared",
         threadMap' = [threadMap EXCEPT ![t] = {}],
         os' = [os EXCEPT ![t] = "unmapped"],
         UNCHANGED <<threadId, isHover, keys, arg, back, pending, installed, owner,
                     crash>>
  PROVE  IInv'
<1>0. /\ TypeOK /\ ArgAlive /\ PendingAlive /\ ValidMeansAlive
      /\ SignalFindsObject /\ PausedFinds /\ ClearedForgotten /\ KeyIsOwn
      /\ KillFinds /\ JoinForgot /\ MapHoldsStarted /\ OneThread /\ PauseIsTrue
  BY DEF IInv
<1>1. /\ \A u \in Tids \ {t} : os'[u] = os[u] /\ threadMap'[u] = threadMap[u]
      /\ os'[t] = "unmapped" /\ threadMap'[t] = {}
  BY <1>0 DEF TypeOK
<1>a. /\ pending \subseteq Tids
      /\ \A p \in Objects : threadId[p] # NoTid => threadId[p] \in Tids \ {t}
  BY <1>0 DEF TypeOK, ClearedForgotten, At
<1>2. TypeOK'
  BY <1>0, TidsFacts DEF TypeOK, Tids, NoTid, Places
<1>3. ArgAlive' /\ OneThread'
  BY <1>0, <1>1 DEF ArgAlive, OneThread
<1>4. PendingAlive'
  BY <1>0, <1>1, <1>a DEF PendingAlive
<1>5. ValidMeansAlive'
  BY <1>0, <1>1, <1>a DEF ValidMeansAlive, Alive
<1>6. SignalFindsObject'
  BY <1>0, <1>1, <1>a DEF SignalFindsObject
<1>7. PausedFinds'
  BY <1>0, <1>1 DEF PausedFinds
<1>8. ClearedForgotten'
  BY <1>0, <1>1 DEF ClearedForgotten, At
<1>9. KeyIsOwn'
  BY <1>0, <1>1 DEF KeyIsOwn
<1>10. KillFinds' /\ JoinForgot'
  BY <1>0, <1>1 DEF KillFinds, JoinForgot
<1>11. MapHoldsStarted'
  BY <1>0, <1>1, <1>a DEF MapHoldsStarted, Starting
<1>12. PauseIsTrue'
  BY <1>0, <1>1, <1>a DEF PauseIsTrue, Up
<1> QED
  BY <1>2, <1>3, <1>4, <1>5, <1>6, <1>7, <1>8, <1>9, <1>10, <1>11, <1>12 DEF
     IInv

\* A thread no object has the id of ends.
LEMMA EndsKeeps ==
  ASSUME IInv, NEW t \in Tids, Ends(t),
         \A o \in Objects : threadId[o] # t,
         UNCHANGED <<threadId, isHover, threadMap, keys, installed, owner, crash>>
  PROVE  IInv'
<1>0. /\ TypeOK /\ ArgAlive /\ PendingAlive /\ ValidMeansAlive
      /\ SignalFindsObject /\ PausedFinds /\ ClearedForgotten /\ KeyIsOwn
      /\ KillFinds /\ JoinForgot /\ MapHoldsStarted /\ OneThread /\ PauseIsTrue
  BY DEF IInv
<1>1. /\ \A u \in Tids \ {t} : /\ os'[u] = os[u] /\ arg'[u] = arg[u]
                                /\ back'[u] = back[u]
      /\ os'[t] = "none" /\ arg'[t] = {}
      /\ pending' = pending \ {t}
  BY <1>0 DEF Ends, TypeOK
<1>a. /\ pending \subseteq Tids
      /\ \A p \in Objects : threadId[p] # NoTid => threadId[p] \in Tids
  BY <1>0 DEF TypeOK
<1>2. TypeOK'
  BY <1>0, TidsFacts DEF TypeOK, Tids, NoTid, Places, Ends
<1>3. ArgAlive'
  BY <1>0, <1>1, TidsFacts DEF ArgAlive
<1>4. PendingAlive'
  BY <1>0, <1>1, TidsFacts, <1>a DEF PendingAlive
<1>5. ValidMeansAlive'
  BY <1>0, <1>1, TidsFacts, <1>a DEF ValidMeansAlive, Alive
<1>6. SignalFindsObject'
  BY <1>0, <1>1, TidsFacts DEF SignalFindsObject, TypeOK
<1>7. PausedFinds'
  BY <1>0, <1>1, TidsFacts DEF PausedFinds
<1>8. ClearedForgotten'
  BY <1>0, <1>1, TidsFacts DEF ClearedForgotten, At
<1>9. KeyIsOwn'
  BY <1>0, <1>1, TidsFacts DEF KeyIsOwn
<1>10. KillFinds'
  BY <1>0, <1>1, TidsFacts DEF KillFinds
<1>11. JoinForgot'
  BY <1>0, <1>1, TidsFacts DEF JoinForgot
<1>12. MapHoldsStarted'
  BY <1>0, <1>1, TidsFacts DEF MapHoldsStarted, Starting, TypeOK
<1>13. OneThread'
  BY <1>0, <1>1, TidsFacts DEF OneThread
<1>14. PauseIsTrue'
  BY <1>0, <1>1, TidsFacts, <1>a DEF PauseIsTrue, Up
<1> QED
  BY <1>2, <1>3, <1>4, <1>5, <1>6, <1>7, <1>8, <1>9, <1>10, <1>11, <1>12, <1>13,
     <1>14 DEF IInv

\* The handler finds an object and enters its loop.
LEMMA PausesKeeps ==
  ASSUME IInv, NEW t \in Tids, t \in pending, os[t] \in Places, threadMap[t] # {},
         pending' = pending \ {t},
         isHover' = [o \in Objects |-> isHover[o] \/ threadMap[t] = {o}],
         back' = [back EXCEPT ![t] = os[t]],
         os' = [os EXCEPT ![t] = "paused"],
         UNCHANGED <<threadId, threadMap, keys, arg, installed, owner, crash>>
  PROVE  IInv'
<1>0. /\ TypeOK /\ ArgAlive /\ PendingAlive /\ ValidMeansAlive
      /\ SignalFindsObject /\ PausedFinds /\ ClearedForgotten /\ KeyIsOwn
      /\ KillFinds /\ JoinForgot /\ MapHoldsStarted /\ OneThread /\ PauseIsTrue
  BY DEF IInv
<1>1. threadMap[t] = arg[t] /\ arg[t] # {}
  BY <1>0 DEF SignalFindsObject, PendingAlive, ArgAlive, TypeOK
<1>2. TypeOK'
  BY <1>0, TidsFacts DEF TypeOK, Tids, NoTid, Places
<1>3. ArgAlive'
  BY <1>0, TidsFacts, <1>1 DEF ArgAlive, Places, TypeOK
<1>4. PendingAlive'
  BY <1>0, TidsFacts, <1>1 DEF PendingAlive, Places, TypeOK
<1>5. ValidMeansAlive'
  BY <1>0, TidsFacts, <1>1 DEF ValidMeansAlive, Alive, Places, TypeOK
<1>6. SignalFindsObject'
  BY <1>0, TidsFacts, <1>1 DEF SignalFindsObject, Places, TypeOK
<1>7. PausedFinds'
  BY <1>0, TidsFacts, <1>1 DEF PausedFinds, Places, TypeOK
<1>8. ClearedForgotten'
  BY <1>0, TidsFacts, <1>1 DEF ClearedForgotten, At, Places, TypeOK
<1>9. KeyIsOwn'
  BY <1>0, TidsFacts, <1>1 DEF KeyIsOwn, Places, TypeOK
<1>10. KillFinds'
  <2>1. \A u \in Tids : os'[u] = IF u = t THEN "paused" ELSE os[u]
    BY <1>0 DEF TypeOK
  <2>2. os[t] # "none"
    BY DEF Places
  <2> QED
    BY <1>0, <1>1, <2>1, <2>2 DEF KillFinds
<1>11. JoinForgot'
  BY <1>0, TidsFacts, <1>1 DEF JoinForgot, Places, TypeOK
<1>12. MapHoldsStarted'
  BY <1>0, TidsFacts, <1>1 DEF MapHoldsStarted, Starting, Places, TypeOK
<1>13. OneThread'
  BY <1>0, TidsFacts, <1>1 DEF OneThread, Places, TypeOK
<1>14. PauseIsTrue'
  <2> SUFFICES ASSUME NEW p \in Objects \ Overlap, crash = "no",
                      isHover'[p], threadId[p] # NoTid, owner.object # {p}
               PROVE  threadId[p] \in pending' \/ os'[threadId[p]] = "paused"
    BY DEF PauseIsTrue, Up
  <2>1. threadId[p] \in Tids /\ arg[threadId[p]] = {p}
    BY <1>0 DEF ValidMeansAlive, TypeOK
  <2>2. \A u \in Tids : os'[u] = IF u = t THEN "paused" ELSE os[u]
    BY <1>0 DEF TypeOK
  <2>3. CASE threadId[p] = t
    BY <2>1, <2>2, <2>3
  <2>4. CASE threadId[p] # t
    <3>1. arg[t] # {p}
      BY <1>0, <2>1, <2>4 DEF OneThread
    <3>2. isHover[p]
      BY <1>1, <3>1
    <3> QED
      BY <1>0, <2>1, <2>2, <2>4, <3>2 DEF PauseIsTrue, Up
  <2> QED
    BY <2>3, <2>4
<1> QED
  BY <1>2, <1>3, <1>4, <1>5, <1>6, <1>7, <1>8, <1>9, <1>10, <1>11, <1>12, <1>13,
     <1>14 DEF IInv

\* The handler leaves its loop, and the thread is where it was.
LEMMA ResumeKeeps ==
  ASSUME IInv, NEW t \in Tids, os[t] = "paused", NEW o \in threadMap[t],
         ~ isHover[o], os' = [os EXCEPT ![t] = back[t]],
         back' = [back EXCEPT ![t] = "entry"],
         UNCHANGED <<threadId, isHover, threadMap, keys, arg, pending, installed,
                     owner, crash>>
  PROVE  IInv'
<1>0. /\ TypeOK /\ ArgAlive /\ PendingAlive /\ ValidMeansAlive
      /\ SignalFindsObject /\ PausedFinds /\ ClearedForgotten /\ KeyIsOwn
      /\ KillFinds /\ JoinForgot /\ MapHoldsStarted /\ OneThread /\ PauseIsTrue
  BY DEF IInv
<1>1. back[t] \in Places /\ o \in Objects /\ arg[t] = threadMap[t]
  BY <1>0 DEF TypeOK, PausedFinds
<1>2. TypeOK'
  BY <1>0, TidsFacts DEF TypeOK, Tids, NoTid, Places
<1>3. ArgAlive'
  BY <1>0, TidsFacts, <1>1 DEF ArgAlive, Places, TypeOK
<1>4. PendingAlive'
  BY <1>0, TidsFacts, <1>1 DEF PendingAlive, Places, TypeOK
<1>5. ValidMeansAlive'
  BY <1>0, TidsFacts, <1>1 DEF ValidMeansAlive, Alive, Places, TypeOK
<1>6. SignalFindsObject'
  BY <1>0, TidsFacts, <1>1 DEF SignalFindsObject, Places, TypeOK
<1>7. PausedFinds'
  BY <1>0, TidsFacts, <1>1 DEF PausedFinds, Places, TypeOK
<1>8. ClearedForgotten'
  BY <1>0, TidsFacts, <1>1 DEF ClearedForgotten, At, Places, TypeOK
<1>9. KeyIsOwn'
  BY <1>0, TidsFacts, <1>1 DEF KeyIsOwn, Places, TypeOK
<1>10. KillFinds'
  BY <1>0, TidsFacts, <1>1 DEF KillFinds, Places, TypeOK
<1>11. JoinForgot'
  BY <1>0, TidsFacts, <1>1 DEF JoinForgot, Places, TypeOK
<1>12. MapHoldsStarted'
  BY <1>0, TidsFacts, <1>1 DEF MapHoldsStarted, Starting, Places, TypeOK
<1>13. OneThread'
  BY <1>0, TidsFacts, <1>1 DEF OneThread, Places, TypeOK
<1>14. PauseIsTrue'
  <2>1. \A u \in Tids \ {t} : os'[u] = os[u]
    BY <1>0 DEF TypeOK
  <2>2. \A p \in Objects : threadId[p] = t => ~ isHover[p]
    BY <1>0, <1>1, TidsFacts DEF ValidMeansAlive
  <2> QED
    BY <1>0, <2>1, <2>2 DEF PauseIsTrue, Up, TypeOK
<1> QED
  BY <1>2, <1>3, <1>4, <1>5, <1>6, <1>7, <1>8, <1>9, <1>10, <1>11, <1>12, <1>13,
     <1>14 DEF IInv

\* The handler finds no object: the thread has let its entry go.
LEMMA IgnoresKeeps ==
  ASSUME IInv, NEW t \in Tids, t \in pending, threadMap[t] = {},
         pending' = pending \ {t},
         UNCHANGED <<threadId, isHover, threadMap, keys, os, arg, back, installed,
                     owner, crash>>
  PROVE  IInv'
<1>0. /\ TypeOK /\ ArgAlive /\ PendingAlive /\ ValidMeansAlive
      /\ SignalFindsObject /\ PausedFinds /\ ClearedForgotten /\ KeyIsOwn
      /\ KillFinds /\ JoinForgot /\ MapHoldsStarted /\ OneThread /\ PauseIsTrue
  BY DEF IInv
<1>1. os[t] = "unmapped"
  BY <1>0 DEF SignalFindsObject, PendingAlive, ArgAlive
<1>2. \A o \in Objects : threadId[o] # t
  BY <1>0, <1>1 DEF ClearedForgotten, At
<1>3. TypeOK'
  BY <1>0 DEF TypeOK
<1>4. ArgAlive' /\ PendingAlive' /\ ValidMeansAlive' /\ OneThread'
  BY <1>0 DEF ArgAlive, PendingAlive, ValidMeansAlive, Alive, OneThread
<1>5. SignalFindsObject' /\ PausedFinds' /\ ClearedForgotten'
  BY <1>0 DEF SignalFindsObject, PausedFinds, ClearedForgotten, At
<1>6. KeyIsOwn' /\ KillFinds' /\ JoinForgot' /\ MapHoldsStarted'
  BY <1>0 DEF KeyIsOwn, KillFinds, JoinForgot, MapHoldsStarted, Starting
<1>7. PauseIsTrue'
  BY <1>0, <1>2 DEF PauseIsTrue, Up
<1> QED
  BY <1>3, <1>4, <1>5, <1>6, <1>7 DEF IInv

LEMMA NextIInv == IInv /\ [Next]_vars => IInv'
<1> SUFFICES ASSUME IInv, [Next]_vars PROVE IInv'
  OBVIOUS
<1>1. ASSUME NEW o \in Objects, Owner(o) PROVE IInv'
  <2>1. CASE Create(o)
    BY <2>1, CreateKeeps
  <2>2. CASE BeginInsert(o)
    BY <2>2, BeginInsertKeeps
  <2>3. CASE EndInsert(o)
    BY <2>3, EndInsertPreserves
  <2>4. CASE BeginStop(o)
    BY <2>4, BeginStopKeeps
  <2>5. CASE StopForgets(o)
    BY <2>5, StopForgetsKeeps
  <2>6. CASE EndStop(o)
    <3>1. CASE Crashes("no thread")
      BY <3>1, CrashKeeps
    <3>2. CASE ~ Crashes("no thread")
      BY <2>6, <3>2, JoinedKeeps DEF EndStop
    <3> QED
      BY <3>1, <3>2
  <2>7. CASE BeginPause(o)
    BY <2>7, BeginPauseKeeps
  <2>8. CASE ReadPause(o)
    BY <2>8, ReadPauseKeeps
  <2>9. CASE EndPause(o)
    <3>1. CASE Crashes("no thread") \/ Crashes("SIGUSR1")
      BY <3>1, CrashKeeps
    <3>2. CASE ~ (Crashes("no thread") \/ Crashes("SIGUSR1"))
      <4>1. /\ In("killing", o) /\ owner' = Idle
            /\ pending' = IF NoThread THEN pending ELSE pending \union {owner.key}
            /\ UNCHANGED <<threadId, isHover, threadMap, keys, os, arg, back,
                           installed, crash>>
        BY <2>9, <3>2 DEF EndPause
      <4>2. CASE NoThread
        BY <4>1, <4>2, NotSentKeeps
      <4>3. CASE ~ NoThread
        BY <4>1, <4>3, SendKeeps
      <4> QED
        BY <4>2, <4>3
    <3> QED
      BY <3>1, <3>2
  <2> QED
    BY <1>1, <2>1, <2>2, <2>3, <2>4, <2>5, <2>6, <2>7, <2>8, <2>9 DEF Owner
<1>2. ASSUME NEW t \in Tids, Runs(t) PROVE IInv'
  <2>1. CASE Enter(t)
    BY <2>1, EnterKeeps
  <2>2. CASE Return(t)
    BY <2>2, ReturnKeeps
  <2>3. CASE ClearId(t)
    BY <2>3, ClearIdKeeps
  <2>4. CASE ClearMap(t)
    <3>1. CASE Crashes("race")
      BY <3>1, CrashKeeps
    <3>2. CASE ~ Crashes("race")
      BY <2>4, <3>2, UnmapKeeps DEF ClearMap
    <3> QED
      BY <3>1, <3>2
  <2>5. CASE Sigaction(t)
    <3>1. CASE Crashes("race")
      BY <3>1, CrashKeeps
    <3>2. CASE ~ Crashes("race")
      <4>1. CASE threadMap[t] # {}
        BY <2>5, <3>2, <4>1, PausesKeeps DEF Sigaction
      <4>2. CASE threadMap[t] = {}
        BY <2>5, <3>2, <4>2, IgnoresKeeps DEF Sigaction
      <4> QED
        BY <4>1, <4>2
    <3> QED
      BY <3>1, <3>2
  <2>6. CASE Hover(t)
    <3>1. PICK o \in threadMap[t] :
            \/ /\ ~ isHover[o]
               /\ os' = [os EXCEPT ![t] = back[t]]
               /\ back' = [back EXCEPT ![t] = "entry"]
               /\ UNCHANGED <<arg, pending>>
            \/ isHover[o] /\ threadId[o] = NoTid /\ Ends(t)
      BY <2>6 DEF Hover
    <3>2. /\ os[t] = "paused"
          /\ UNCHANGED <<threadId, isHover, threadMap, keys, installed, owner,
                         crash>>
      BY <2>6 DEF Hover
    <3>3. CASE ~ isHover[o]
      BY <3>1, <3>2, <3>3, ResumeKeeps
    <3>4. CASE isHover[o]
      <4>1. \A p \in Objects : threadId[p] # t
        <5>1. threadMap[t] = arg[t]
          BY <3>2 DEF IInv, PausedFinds
        <5>2. \A p \in Objects : threadId[p] = t => p = o
          BY <5>1, TidsFacts DEF IInv, ValidMeansAlive
        <5> QED
          BY <3>1, <3>4, <5>2, TidsFacts
      <4> QED
        BY <3>1, <3>2, <3>4, <4>1, EndsKeeps
    <3> QED
      BY <3>3, <3>4
  <2>7. CASE Exit(t)
    <3>1. \A o \in Objects : threadId[o] # t
      BY <2>7 DEF Exit, IInv, ClearedForgotten, At
    <3> QED
      BY <2>7, <3>1, EndsKeeps DEF Exit
  <2> QED
    BY <1>2, <2>1, <2>2, <2>3, <2>4, <2>5, <2>6, <2>7 DEF Runs
<1>3. CASE UNCHANGED vars
  <2>1. TypeOK'
    BY <1>3 DEF vars, IInv, TypeOK
  <2>2. ArgAlive' /\ PendingAlive' /\ ValidMeansAlive' /\ SignalFindsObject'
    BY <1>3 DEF vars, IInv, ArgAlive, PendingAlive, ValidMeansAlive, Alive,
       SignalFindsObject
  <2>3. PausedFinds' /\ ClearedForgotten' /\ KeyIsOwn' /\ KillFinds' /\ JoinForgot'
    BY <1>3 DEF vars, IInv, PausedFinds, ClearedForgotten, At, KeyIsOwn, KillFinds,
       JoinForgot
  <2>4. MapHoldsStarted' /\ OneThread' /\ PauseIsTrue'
    BY <1>3 DEF vars, IInv, MapHoldsStarted, Starting, OneThread,
       PauseIsTrue, Up
  <2> QED
    BY <2>1, <2>2, <2>3, <2>4 DEF IInv
<1> QED
  BY <1>1, <1>2, <1>3 DEF Next

\* IInv holds whatever the owner and the threads do.
THEOREM ThreadInvariant == Spec => []IInv
BY InitIInv, NextIInv, PTL DEF Spec

\* The variables keep their types: an id is of a thread or none (Thread.cpp:14,
\* 28, 63).
THEOREM ThreadTypes == Spec => []TypeOK
<1>1. IInv => TypeOK
  BY DEF IInv
<1> QED
  BY <1>1, ThreadInvariant, PTL

\* isValid does not lie (Thread.h:35): the id of an object is that of a thread it
\* has made and that has not ended, though ids are used again and the thread of an
\* earlier Start clears the id of a later one.
THEOREM IdsAreOfThreads == Spec => []ValidMeansAlive
<1>1. IInv => ValidMeansAlive
  BY DEF IInv
<1> QED
  BY <1>1, ThreadInvariant, PTL

\* A thread SIGUSR1 is sent to finds the object it was made for (Thread.cpp:79),
\* whatever entries ended threads have left under its id, or none once it has let
\* its own entry go (Thread.cpp:67, 82).
THEOREM SignalsFindObjects == Spec => []SignalFindsObject
<1>1. IInv => SignalFindsObject
  BY DEF IInv
<1> QED
  BY <1>1, ThreadInvariant, PTL

\* An object that waits for its last thread before it starts again is paused when
\* it says it is (Thread.cpp:17, 46, 84).
THEOREM PausesAreTrue == Spec => []PauseIsTrue
<1>1. IInv => PauseIsTrue
  BY DEF IInv
<1> QED
  BY <1>1, ThreadInvariant, PTL
-----------------------------------------------------------------------------
(* What a stop promises a paused thread, up to the fairness of the thread. *)

\* Where StopEndsPaused starts from: the thread waits for an object that is
\* stopped, and that is not started again over it.
Stopped(t) == os[t] = "paused" /\ \E o \in arg[t] \ Overlap : threadId[o] = NoTid

\* The loop of the handler has an exit: it finds an object, and sees that it is
\* resumed or stopped.
FindsExit(t) == \E o \in threadMap[t] : ~ isHover[o] \/ threadId[o] = NoTid

StoppedFindsExit == \A t \in Tids : Stopped(t) => FindsExit(t)

\* What a step may do to a thread that has been stopped: nothing but the thread
\* itself takes it out of the handler, and its next look at the loop does.
StoppedUntilOut ==
  /\ \A t \in Tids : Stopped(t) => Stopped(t)' \/ (os'[t] # "paused" /\ Hover(t))
  /\ \A t \in Tids : Hover(t) => os'[t] # "paused"

LEMMA ExitIsThere ==
  ASSUME IInv
  PROVE  StoppedFindsExit
<1> SUFFICES ASSUME NEW t \in Tids, Stopped(t) PROVE FindsExit(t)
  BY DEF StoppedFindsExit
<1>1. PICK o \in arg[t] : threadId[o] = NoTid
  BY DEF Stopped
<1>2. threadMap[t] = arg[t]
  BY DEF Stopped, IInv, PausedFinds
<1> QED
  BY <1>1, <1>2 DEF FindsExit

\* A thread is made for one object.
OneObject == \A t \in Tids : \A o, p \in arg[t] : o = p

LEMMA OneObjectStep ==
  ASSUME TypeOK, OneObject, [Next]_vars
  PROVE  OneObject'
<1>0. arg \in [Tids -> SUBSET Objects]
  BY DEF TypeOK
<1>1. ASSUME NEW o \in Objects, Create(o) PROVE OneObject'
  BY <1>0, <1>1 DEF Create, OneObject
<1>2. ASSUME NEW t \in Tids, Ends(t) PROVE OneObject'
  BY <1>0, <1>2 DEF Ends, OneObject
<1>3. ASSUME UNCHANGED arg PROVE OneObject'
  BY <1>3 DEF OneObject
<1>4. ASSUME NEW o \in Objects, Owner(o) PROVE OneObject'
  BY <1>1, <1>3, <1>4 DEF Owner, BeginInsert, EndInsert, BeginStop, StopForgets,
     EndStop, BeginPause, ReadPause, EndPause, Crashes
<1>5. ASSUME NEW t \in Tids, Runs(t) PROVE OneObject'
  BY <1>2, <1>3, <1>5 DEF Runs, Enter, Return, ClearId, ClearMap, Exit, Sigaction,
     Hover, Crashes
<1> QED
  BY <1>3, <1>4, <1>5 DEF Next, vars

\* Start makes a thread for the object it is called on (Thread.cpp:14), and nothing
\* gives it another.
THEOREM ThreadsAreOfOneObject == Spec => []OneObject
<1>1. Init => OneObject
  BY DEF Init, OneObject
<1>2. IInv => TypeOK
  BY DEF IInv
<1> QED
  BY <1>1, <1>2, OneObjectStep, ThreadInvariant, PTL DEF Spec

LEMMA StoppedStep ==
  ASSUME IInv, OneObject, [Next]_vars
  PROVE  [StoppedUntilOut]_vars
<1> SUFFICES ASSUME Next PROVE StoppedUntilOut
  BY DEF vars
<1>0. /\ os \in [Tids -> Places \union {"none", "paused"}]
      /\ arg \in [Tids -> SUBSET Objects]
      /\ threadId \in [Objects -> Tids \union {NoTid}]
      /\ back \in [Tids -> Places]
      /\ "paused" \notin Places
  BY DEF IInv, TypeOK, Places
<1>1. ASSUME NEW t \in Tids, Hover(t) PROVE os'[t] # "paused"
  BY <1>0, <1>1 DEF Hover, Ends
<1>2. ASSUME NEW t \in Tids, Stopped(t), ~ Hover(t) PROVE Stopped(t)'
  <2>1. PICK o \in arg[t] \ Overlap : threadId[o] = NoTid
    BY <1>2 DEF Stopped
  <2>2. os[t] = "paused" /\ o \in Objects
    BY <1>0, <1>2, <2>1 DEF Stopped
  <2>3. SUFFICES os'[t] = "paused" /\ arg'[t] = arg[t] /\ threadId'[o] = NoTid
    BY <2>1 DEF Stopped
  <2>4. CASE \E p \in Objects : Owner(p)
    <3>1. PICK p \in Objects : Owner(p)
      BY <2>4
    <3>2. CASE Create(p)
      <4>1. PICK u \in Tids : /\ os[u] = "none"
                              /\ os' = [os EXCEPT ![u] = "entry"]
                              /\ arg' = [arg EXCEPT ![u] = {p}]
                              /\ threadId' = [threadId EXCEPT ![p] = u]
        BY <3>2 DEF Create, Alive
      <4>2. p # o
        <5> SUFFICES ASSUME p = o PROVE FALSE
          OBVIOUS
        <5>1. arg[t] # {o}
          BY <2>1, <2>2, <3>2 DEF Create, Alive
        <5> QED
          BY <1>0, <2>1, <2>2, <5>1 DEF OneObject
      <4> QED
        BY <1>0, <2>1, <2>2, <4>1, <4>2
    <3>3. CASE StopForgets(p)
      BY <1>0, <2>1, <2>2, <3>3 DEF StopForgets
    <3>4. CASE EndPause(p) \/ EndStop(p)
      BY <2>1, <2>2, <3>4 DEF EndPause, EndStop, Crashes
    <3> QED
      BY <2>1, <2>2, <3>1, <3>2, <3>3, <3>4
         DEF Owner, BeginInsert, EndInsert, BeginStop, BeginPause, ReadPause
  <2>5. CASE \E u \in Tids : Runs(u)
    <3>1. PICK u \in Tids : Runs(u)
      BY <2>5
    <3>2. CASE ClearId(u)
      BY <1>0, <2>1, <2>2, <3>2 DEF ClearId
    <3>3. CASE ClearMap(u)
      BY <1>0, <2>1, <2>2, <3>3 DEF ClearMap, Crashes
    <3>4. CASE Sigaction(u)
      BY <1>0, <2>1, <2>2, <3>4 DEF Sigaction, Crashes
    <3>5. CASE Hover(u)
      <4>1. u # t
        BY <1>2, <3>5
      <4> QED
        BY <1>0, <2>1, <2>2, <3>5, <4>1 DEF Hover, Ends
    <3>6. CASE Enter(u) \/ Return(u)
      BY <1>0, <2>1, <2>2, <3>6 DEF Enter, Return
    <3>7. CASE Exit(u)
      BY <1>0, <2>1, <2>2, <3>7 DEF Exit, Ends
    <3> QED
      BY <3>1, <3>2, <3>3, <3>4, <3>5, <3>6, <3>7 DEF Runs
  <2> QED
    BY <2>4, <2>5 DEF Next
<1> QED
  BY <1>1, <1>2 DEF StoppedUntilOut

\* A paused thread whose object is stopped has a way out of the handler at every
\* moment, nothing takes it away before the thread has used it, and using it once
\* is enough (Thread.cpp:85-92).
THEOREM StopOpensTheHandler == Spec => []StoppedFindsExit /\ [][StoppedUntilOut]_vars
<1>1. IInv => StoppedFindsExit
  BY ExitIsThere
<1>2. IInv /\ OneObject /\ [Next]_vars => [StoppedUntilOut]_vars
  BY StoppedStep
<1> QED
  BY <1>1, <1>2, ThreadInvariant, ThreadsAreOfOneObject, PTL DEF Spec
=============================================================================
