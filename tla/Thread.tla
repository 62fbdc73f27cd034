------------------------------- MODULE Thread -------------------------------
(***************************************************************************)
(* The class Thread: Start, Stop and Pause by the thread that owns the     *)
(* objects, ThreadEntry and the signal handler in the threads it makes,    *)
(* and the map all of them share without a lock.                           *)
(*                                                                         *)
(* Threads are made detached.  pthread_create stores the id before the new *)
(* thread runs; an id is used again once its thread has ended.  The join   *)
(* in Stop is refused for a detached thread, so that its SIGUSR2 is never  *)
(* sent and Stop comes down to forgetting the id.                          *)
(***************************************************************************)
EXTENDS Integers, FiniteSets

CONSTANTS Objects,  (* Thread objects of a process                         *)
          MaxTid,   (* bound: threads alive at a time                      *)
          Overlap   (* objects that may be started again while a thread    *)
                    (* they have made is alive                             *)

NoTid == 0          (* what m_threadId holds when there is no thread       *)

ASSUME ThreadAssumption == MaxTid \in Nat /\ Overlap \subseteq Objects

VARIABLES
  threadId,  (* m_threadId of every object                                 *)
  isHover,   (* m_IsHover of every object                                  *)
  threadMap, (* m_ThreadMap, {} where it has no entry or the entry is NULL *)
  keys,      (* the keys m_ThreadMap has                                   *)
  os,        (* what every thread is at                                    *)
  arg,       (* the object it was made for                                 *)
  back,      (* what it was at when the signal came, "entry" if none has   *)
  pending,   (* threads SIGUSR1 was sent to and not taken by               *)
  installed, (* whether the handlers are installed; they are the process's *)
  owner,     (* the call the owner is in                                   *)
  crash      (* what ended the process, "no" if nothing did                *)

vars == <<threadId, isHover, threadMap, keys, os, arg, back, pending,
          installed, owner, crash>>

Tids == 1..MaxTid

\* A thread that is not in the handler: before and in EntryThread, at lines 63, 64
\* and 69 of ThreadEntry.
Places == {"entry", "function", "returned", "cleared", "unmapped"}

Idle == [call |-> "none", object |-> {}, key |-> NoTid]

Call(c, o, k) == [call |-> c, object |-> {o}, key |-> k]

In(c, o) == owner.call = c /\ owner.object = {o}

Alive(t) == os[t] # "none"

Init == /\ threadId = [o \in Objects |-> NoTid]
        /\ isHover = [o \in Objects |-> FALSE]
        /\ threadMap = [t \in Tids \union {NoTid} |-> {}]
        /\ keys = {}
        /\ os = [t \in Tids |-> "none"]
        /\ arg = [t \in Tids |-> {}]
        /\ back = [t \in Tids |-> "entry"]
        /\ pending = {}
        /\ installed = FALSE
        /\ owner = Idle
        /\ crash = "no"

Up == crash = "no"

Crashes(why) ==
  /\ crash' = why
  /\ UNCHANGED <<threadId, isHover, threadMap, keys, os, arg, back, pending,
                 installed, owner>>
-----------------------------------------------------------------------------
(* The owner.                                                              *)

\* Start up to pthread_create.
Create(o) ==
  /\ Up /\ owner = Idle
  /\ o \in Overlap \/ \A t \in Tids : Alive(t) => arg[t] # {o}
  /\ \E t \in Tids :
       /\ ~ Alive(t)
       /\ os' = [os EXCEPT ![t] = "entry"]
       /\ arg' = [arg EXCEPT ![t] = {o}]
       /\ threadId' = [threadId EXCEPT ![o] = t]
  /\ owner' = Call("created", o, NoTid)
  /\ UNCHANGED <<isHover, threadMap, keys, back, pending, installed, crash>>

\* m_ThreadMap[m_threadId] = this begins: the member is read again, and a new
\* key changes the map for a while.
BeginInsert(o) ==
  /\ Up /\ In("created", o)
  /\ owner' = Call("inserting", o, threadId[o])
  /\ UNCHANGED <<threadId, isHover, threadMap, keys, os, arg, back, pending,
                 installed, crash>>

\* Mutant of EndInsert: insert, which leaves an entry that is there.
EndInsertKeeps(o) ==
  /\ Up /\ In("inserting", o)
  /\ threadMap' = IF owner.key \in keys
                  THEN threadMap
                  ELSE [threadMap EXCEPT ![owner.key] = {o}]
  /\ keys' = keys \union {owner.key}
  /\ isHover' = [isHover EXCEPT ![o] = FALSE]
  /\ owner' = Idle
  /\ UNCHANGED <<threadId, os, arg, back, pending, installed, crash>>

\* Mutant of EndInsert: m_IsHover is left as the last thread left it.
EndInsertKeepsHover(o) ==
  /\ Up /\ In("inserting", o)
  /\ threadMap' = [threadMap EXCEPT ![owner.key] = {o}]
  /\ keys' = keys \union {owner.key}
  /\ owner' = Idle
  /\ UNCHANGED <<threadId, isHover, os, arg, back, pending, installed, crash>>

\* ... and the rest of Start.
EndInsert(o) ==
  /\ Up /\ In("inserting", o)
  /\ threadMap' = [threadMap EXCEPT ![owner.key] = {o}]
  /\ keys' = keys \union {owner.key}
  /\ isHover' = [isHover EXCEPT ![o] = FALSE]
  /\ owner' = Idle
  /\ UNCHANGED <<threadId, os, arg, back, pending, installed, crash>>

\* Stop looks at the id, ...
BeginStop(o) ==
  /\ Up /\ owner = Idle /\ threadId[o] # NoTid
  /\ owner' = Call("stopping", o, NoTid)
  /\ UNCHANGED <<threadId, isHover, threadMap, keys, os, arg, back, pending,
                 installed, crash>>

\* Mutant of StopForgets: another value for "no thread".
StopMinusOne(o) ==
  /\ Up /\ In("stopping", o)
  /\ owner' = Call("joining", o, threadId[o])
  /\ threadId' = [threadId EXCEPT ![o] = -1]
  /\ UNCHANGED <<isHover, threadMap, keys, os, arg, back, pending, installed,
                 crash>>

\* ... reads it again and forgets it, ...
StopForgets(o) ==
  /\ Up /\ In("stopping", o)
  /\ owner' = Call("joining", o, threadId[o])
  /\ threadId' = [threadId EXCEPT ![o] = NoTid]
  /\ UNCHANGED <<isHover, threadMap, keys, os, arg, back, pending, installed,
                 crash>>

\* pthread_kill and pthread_timedjoin_np with the id of the call read an address
\* where no thread is, if the thread has cleared its id before or ended since; that
\* of an ended thread may be readable still.
NoThread == owner.key \notin {t \in Tids : Alive(t)}

\* ... and joins: refused, the thread is detached.
EndStop(o) ==
  /\ Up /\ In("joining", o)
  /\ \/ NoThread /\ Crashes("no thread")
     \/ /\ owner.key # NoTid
        /\ owner' = Idle
        /\ UNCHANGED <<threadId, isHover, threadMap, keys, os, arg, back, pending,
                       installed, crash>>

\* Pause up to pthread_kill, ...
BeginPause(o) ==
  /\ Up /\ owner = Idle /\ threadId[o] # NoTid /\ ~ isHover[o]
  /\ isHover' = [isHover EXCEPT ![o] = TRUE]
  /\ owner' = Call("pausing", o, NoTid)
  /\ UNCHANGED <<threadId, threadMap, keys, os, arg, back, pending, installed,
                 crash>>

\* ... which is given the id as it is by now, ...
ReadPause(o) ==
  /\ Up /\ In("pausing", o)
  /\ owner' = Call("killing", o, threadId[o])
  /\ UNCHANGED <<threadId, isHover, threadMap, keys, os, arg, back, pending,
                 installed, crash>>

\* ... and sends.  Before the first thread has installed the handlers SIGUSR1 ends
\* the process.
EndPause(o) ==
  /\ Up /\ In("killing", o)
  /\ \/ NoThread /\ Crashes("no thread")
     \/ ~ NoThread /\ ~ installed /\ Crashes("SIGUSR1")
     \/ /\ owner.key # NoTid /\ (NoThread \/ installed)
        /\ pending' = IF NoThread THEN pending ELSE pending \union {owner.key}
        /\ owner' = Idle
        /\ UNCHANGED <<threadId, isHover, threadMap, keys, os, arg, back,
                       installed, crash>>
-----------------------------------------------------------------------------
(* The threads.                                                            *)

\* ThreadEntry up to the call of EntryThread.
Enter(t) ==
  /\ Up /\ os[t] = "entry"
  /\ os' = [os EXCEPT ![t] = "function"]
  /\ installed' = TRUE
  /\ UNCHANGED <<threadId, isHover, threadMap, keys, arg, back, pending, owner,
                 crash>>

\* EntryThread returns.
Return(t) ==
  /\ Up /\ os[t] = "function"
  /\ os' = [os EXCEPT ![t] = "returned"]
  /\ UNCHANGED <<threadId, isHover, threadMap, keys, arg, back, pending,
                 installed, owner, crash>>

\* Mutant of ClearId: the thread leaves its id behind.
ClearIdForgets(t) ==
  /\ Up /\ os[t] = "returned"
  /\ os' = [os EXCEPT ![t] = "cleared"]
  /\ UNCHANGED <<threadId, isHover, threadMap, keys, arg, back, pending,
                 installed, owner, crash>>

\* The id of the object is cleared, whichever thread it is of.
ClearId(t) ==
  /\ Up /\ os[t] = "returned"
  /\ threadId' = [o \in Objects |-> IF arg[t] = {o} THEN NoTid ELSE threadId[o]]
  /\ os' = [os EXCEPT ![t] = "cleared"]
  /\ UNCHANGED <<isHover, threadMap, keys, arg, back, pending, installed, owner,
                 crash>>

Inserting == owner.call = "inserting" /\ owner.key \notin keys

\* The thread ends; what was sent to it is lost.
Ends(t) == /\ os' = [os EXCEPT ![t] = "none"]
           /\ arg' = [arg EXCEPT ![t] = {}]
           /\ back' = [back EXCEPT ![t] = "entry"]
           /\ pending' = pending \ {t}

\* The entry of the thread, if it has one, becomes NULL.  Walking the map while it
\* changes is undefined; the model takes it for a crash.
ClearMap(t) ==
  /\ Up /\ os[t] = "cleared"
  /\ \/ Inserting /\ Crashes("race")
     \/ /\ ~ Inserting
        /\ threadMap' = [threadMap EXCEPT ![t] = {}]
        /\ os' = [os EXCEPT ![t] = "unmapped"]
        /\ UNCHANGED <<threadId, isHover, keys, arg, back, pending, installed,
                       owner, crash>>

\* pthread_exit.
Exit(t) ==
  /\ Up /\ os[t] = "unmapped"
  /\ Ends(t)
  /\ UNCHANGED <<threadId, isHover, threadMap, keys, installed, owner, crash>>

\* Sigaction with SIGUSR1, wherever the thread is: the handler does nothing where
\* the entry is NULL or missing.
Sigaction(t) ==
  /\ Up /\ t \in pending /\ os[t] \in Places
  /\ \/ Inserting /\ Crashes("race")
     \/ /\ ~ Inserting
        /\ pending' = pending \ {t}
        /\ IF threadMap[t] # {}
           THEN /\ isHover' = [o \in Objects |-> isHover[o] \/ threadMap[t] = {o}]
                /\ back' = [back EXCEPT ![t] = os[t]]
                /\ os' = [os EXCEPT ![t] = "paused"]
           ELSE UNCHANGED <<isHover, back, os>>
        /\ UNCHANGED <<threadId, threadMap, keys, arg, installed, owner, crash>>

\* Mutant of Hover: the loop does not look at the id.
HoverForEver(t) ==
  /\ Up /\ os[t] = "paused"
  /\ \E o \in threadMap[t] :
       /\ ~ isHover[o]
       /\ os' = [os EXCEPT ![t] = back[t]]
       /\ back' = [back EXCEPT ![t] = "entry"]
  /\ UNCHANGED <<threadId, isHover, threadMap, keys, arg, pending, installed,
                 owner, crash>>

\* The loop of the handler: on to where the thread was, or out of it, with the
\* entry of the map as it is.
Hover(t) ==
  /\ Up /\ os[t] = "paused"
  /\ \E o \in threadMap[t] :
       \/ /\ ~ isHover[o]
          /\ os' = [os EXCEPT ![t] = back[t]]
          /\ back' = [back EXCEPT ![t] = "entry"]
          /\ UNCHANGED <<arg, pending>>
       \/ isHover[o] /\ threadId[o] = NoTid /\ Ends(t)
  /\ UNCHANGED <<threadId, isHover, threadMap, keys, installed, owner, crash>>
-----------------------------------------------------------------------------
Owner(o) == \/ Create(o) \/ BeginInsert(o) \/ EndInsert(o)
            \/ BeginStop(o) \/ StopForgets(o) \/ EndStop(o)
            \/ BeginPause(o) \/ ReadPause(o) \/ EndPause(o)

Runs(t) == \/ Enter(t) \/ Return(t) \/ ClearId(t) \/ ClearMap(t) \/ Exit(t)
           \/ Sigaction(t) \/ Hover(t)

Next == (\E o \in Objects : Owner(o)) \/ (\E t \in Tids : Runs(t))

Spec == Init /\ [][Next]_vars

\* Threads are scheduled and signals delivered; the functions they run promise
\* nothing.
FairSpec == Spec /\ \A t \in Tids : WF_vars(Hover(t)) /\ WF_vars(Sigaction(t))
-----------------------------------------------------------------------------
(* Properties.                                                             *)

TypeOK ==
  /\ threadId \in [Objects -> Tids \union {NoTid}]
  /\ isHover \in [Objects -> BOOLEAN]
  /\ threadMap \in [Tids \union {NoTid} -> SUBSET Objects]
  /\ keys \subseteq Tids \union {NoTid}
  /\ os \in [Tids -> Places \union {"none", "paused"}]
  /\ arg \in [Tids -> SUBSET Objects]
  /\ back \in [Tids -> Places]
  /\ pending \subseteq Tids
  /\ installed \in BOOLEAN
  /\ owner \in [call : {"none", "created", "inserting", "pausing", "killing",
                       "stopping", "joining"},
                object : SUBSET Objects, key : Tids \union {NoTid}]
  /\ crash \in {"no", "no thread", "SIGUSR1", "race"}

\* isValid (Thread.h:35) does not lie: an object that has an id has a thread, the
\* one it made, through short functions, pauses, stops and ids used again
\* (Thread.cpp:14, 28, 63).
ValidMeansAlive ==
  \A o \in Objects : threadId[o] # NoTid =>
                       Alive(threadId[o]) /\ arg[threadId[o]] = {o}

\* A thread SIGUSR1 is on the way to finds its own object under its id, never that
\* of a thread that had the id before; it finds none only past line 67, where it has
\* let its entry go and line 82 is for it (Thread.cpp:16, 67, 79-85).
SignalFindsObject ==
  \A t \in pending : \/ threadMap[t] = arg[t]
                     \/ threadMap[t] = {} /\ os[t] = "unmapped"

\* An object that says it is paused is: its thread waits in the handler or has
\* the signal to come (Thread.cpp:17, 45-47, 84).  One that is started again while
\* the signal to its last thread is on the way promises nothing.
PauseIsTrue ==
  \A o \in Objects \ Overlap :
    Up /\ isHover[o] /\ threadId[o] # NoTid /\ owner.object # {o}
      => threadId[o] \in pending \/ os[threadId[o]] = "paused"

\* Stop ends a thread that is paused, or told to be: nothing else would ever wake
\* it (Thread.cpp:85-92).
StopEndsPaused ==
  \A t \in Tids :
    (os[t] = "paused" /\ \E o \in arg[t] \ Overlap : threadId[o] = NoTid)
      ~> (os[t] # "paused" \/ ~ Up)
=============================================================================
