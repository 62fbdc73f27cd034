------------------------- MODULE ThreadPoolProofs --------------------------
(***************************************************************************)
(* What holds of ThreadPool for every number of workers, submitting        *)
(* threads, tasks and failures.                                            *)
(***************************************************************************)
EXTENDS ThreadPool, TLAPS

-----------------------------------------------------------------------------
(* Type correctness.                                                       *)

\* Every step of the pool keeps the type of every variable.
LEMMA TypeStep == TypeOK /\ [Next]_vars => TypeOK'
<1> USE PoolAssumption DEF TypeOK, Fd
<1> SUFFICES ASSUME TypeOK, [Next]_vars
             PROVE  TypeOK'
  OBVIOUS
<1>1. CASE Start
  BY <1>1 DEF Start, streamVars
<1>2. CASE StartFailsToBind
  BY <1>2 DEF StartFailsToBind, streamVars, workerVars
<1>3. CASE StartFailsAtThread
  BY <1>3 DEF StartFailsAtThread, streamVars
<1>4. CASE CloseEpoll
  BY <1>4 DEF CloseEpoll, streamVars, workerVars
<1>5. CASE CloseServer
  BY <1>5 DEF CloseServer, streamVars, workerVars
<1>6. CASE CloseThreads
  BY <1>6 DEF CloseThreads, streamVars, workerVars
<1>7. ASSUME NEW c \in Clients, AddTaskConnect(c)
      PROVE  TypeOK'
  BY <1>7 DEF AddTaskConnect, streamVars, workerVars
<1>8. ASSUME NEW c \in Clients, AddTaskSend(c)
      PROVE  TypeOK'
  BY <1>8 DEF AddTaskSend, workerVars
<1>9. ASSUME NEW c \in Clients, ThreadExit(c)
      PROVE  TypeOK'
  BY <1>9 DEF ThreadExit, streamVars, workerVars
<1>10. ASSUME NEW w \in Workers, Poll(w)
       PROVE  TypeOK'
  <2>1. ReadySet \in SUBSET Fd
    BY DEF ReadySet
  <2>2. QED
    BY <1>10, <2>1 DEF Poll, streamVars
<1>11. ASSUME NEW w \in Workers, NEW f \in Fd, Dispatch(w, f)
       PROVE  TypeOK'
  BY <1>11 DEF Dispatch, streamVars
<1>12. ASSUME NEW w \in Workers, Accept(w)
       PROVE  TypeOK'
  BY <1>12 DEF Accept, streamVars, Pending
<1>13. ASSUME NEW w \in Workers, AcceptFails(w)
       PROVE  TypeOK'
  BY <1>13 DEF AcceptFails, streamVars
<1>14. ASSUME NEW w \in Workers, Read(w)
       PROVE  TypeOK'
  BY <1>14 DEF Read
<1>15. ASSUME NEW w \in Workers, ReadEnd(w)
       PROVE  TypeOK'
  BY <1>15 DEF ReadEnd, streamVars
<1>16. ASSUME NEW w \in Workers, TouchDeleted(w)
       PROVE  TypeOK'
  BY <1>16 DEF TouchDeleted, streamVars, workerVars
<1>17. ASSUME NEW w \in Workers, Finish(w)
       PROVE  TypeOK'
  BY <1>17 DEF Finish
<1>18. ASSUME NEW w \in Workers, Leave(w)
       PROVE  TypeOK'
  BY <1>18 DEF Leave, streamVars
<1>19. ASSUME NEW w \in Workers, AcceptReset(w)
       PROVE  TypeOK'
  BY <1>19 DEF AcceptReset, streamVars, workerVars
<1>20. ASSUME NEW w \in Workers, ReadFails(w)
       PROVE  TypeOK'
  BY <1>20 DEF ReadFails, streamVars
<1>21. CASE UNCHANGED vars
  BY <1>21 DEF vars
<1>22. QED
  BY <1>1, <1>2, <1>3, <1>4, <1>5, <1>6, <1>7, <1>8, <1>9, <1>10, <1>11,
     <1>12, <1>13, <1>14, <1>15, <1>16, <1>17, <1>18, <1>19, <1>20, <1>21
     DEF Next, Owner, Submitting, Dispatching

\* Every variable keeps its type in every reachable state of the pool.
THEOREM TypeCorrect == Spec => []TypeOK
<1>1. Init => TypeOK
  BY PoolAssumption DEF Init, TypeOK, Fd
<1>2. QED
  BY <1>1, TypeStep, PTL DEF Spec

-----------------------------------------------------------------------------
(* No worker exists before Start.                                          *)

OffBeforeStart ==
  server = "null" /\ closing = 0 => \A w \in Workers : cur[w] = "off"

BaseInv == TypeOK /\ OffBeforeStart

\* No step brings a worker to life before Start has set the server.
LEMMA BaseStep == BaseInv /\ [Next]_vars => BaseInv'
<1> SUFFICES ASSUME BaseInv, [Next]_vars
             PROVE  OffBeforeStart'
  BY TypeStep DEF BaseInv
<1> USE PoolAssumption DEF BaseInv, TypeOK, OffBeforeStart, Fd
<1>1. CASE Owner
  BY <1>1 DEF Owner, Start, StartFailsToBind, StartFailsAtThread, CloseEpoll,
              CloseServer, CloseThreads, streamVars, workerVars
<1>2. ASSUME NEW c \in Clients, Submitting(c)
      PROVE  OffBeforeStart'
  BY <1>2 DEF Submitting, AddTaskConnect, AddTaskSend, ThreadExit, workerVars
<1>3. ASSUME NEW w \in Workers, Dispatching(w)
      PROVE  OffBeforeStart'
  BY <1>3 DEF Dispatching, Poll, Dispatch, Accept, AcceptFails, AcceptReset, Read,
              ReadEnd, ReadFails, TouchDeleted, Finish, Leave, AtLoopHead, workerVars
<1>4. CASE UNCHANGED vars
  BY <1>4 DEF vars
<1>5. QED
  BY <1>1, <1>2, <1>3, <1>4 DEF Next

\* The pool begins with the types and with no worker.
LEMMA BaseInit == Init => BaseInv
BY PoolAssumption DEF Init, BaseInv, TypeOK, OffBeforeStart, Fd

-----------------------------------------------------------------------------
(* Every task that was read is in one place.                               *)

\* An idle or absent worker runs nothing.
IdleRunsNothing == \A w \in Workers : Running(w) => cur[w] \in Clients

PlaceInv == BaseInv /\ IdleRunsNothing /\ Conservation

\* A step that leaves the streams, cur and run alone, or moves a worker that
\* runs nothing, keeps every task where it is.
LEMMA PlaceUnmoved ==
  ASSUME PlaceInv, BaseInv', UNCHANGED <<taken, finished, run>>,
         \A c \in Clients : sent'[c] >= sent[c],
         \A w \in Workers : cur'[w] = cur[w] \/ run[w] = 0
  PROVE  PlaceInv'
<1> USE DEF PlaceInv, BaseInv, TypeOK
<1>1. IdleRunsNothing'
  BY DEF IdleRunsNothing, Running
<1>2. ASSUME NEW c \in Clients
      PROVE  taken'[c] <= sent'[c]
  BY DEF Conservation
<1>3. ASSUME NEW c \in Clients, NEW k \in 1..taken'[c]
      PROVE  k \notin finished'[c] <=> \E w \in Workers : Runs(w, c, k)'
  BY DEF Conservation, Runs
<1>4. ASSUME NEW c \in Clients, NEW k \in finished'[c]
      PROVE  k \in 1..taken'[c]
  BY DEF Conservation
<1>5. ASSUME NEW c \in Clients, NEW v \in Workers, NEW w \in Workers
      PROVE  /\ cur'[w] = c => run'[w] <= taken'[c]
             /\ cur'[w] = c /\ Running(w)' /\ Runs(v, c, run[w])' => v = w
  BY DEF Conservation, Runs, Running
<1>6. QED
  BY <1>1, <1>2, <1>3, <1>4, <1>5 DEF Conservation

\* A read takes the next pointer of the stream into the hands of the reader.
LEMMA PlaceRead ==
  ASSUME PlaceInv, BaseInv', NEW w \in Workers, Read(w)
  PROVE  PlaceInv'
<1> USE DEF PlaceInv, BaseInv, TypeOK
<1> DEFINE d == cur[w]
           n == taken[d] + 1
<1>1. /\ d \in Clients /\ run[w] = 0 /\ n \in Nat /\ n > 0
      /\ taken[d] < sent[d]
      /\ taken' = [taken EXCEPT ![d] = n]
      /\ run' = [run EXCEPT ![w] = n]
      /\ UNCHANGED <<sent, finished, cur>>
  BY DEF Read, Running, Queued
<1>2. IdleRunsNothing'
  BY <1>1 DEF IdleRunsNothing, Running
<1>3. ASSUME NEW c \in Clients
      PROVE  taken'[c] <= sent'[c]
  BY <1>1 DEF Conservation
<1>4. ASSUME NEW c \in Clients, NEW k \in finished'[c]
      PROVE  k \in 1..taken'[c]
  BY <1>1 DEF Conservation
<1>5. ASSUME NEW c \in Clients, NEW k \in 1..taken'[c]
      PROVE  k \notin finished'[c] <=> \E v \in Workers : Runs(v, c, k)'
  <2>1. CASE c = d /\ k = n
    <3>1. k \notin finished[c]
      BY <2>1 DEF Conservation
    <3>2. Runs(w, c, k)'
      BY <1>1, <2>1 DEF Runs
    <3>3. QED
      BY <1>1, <3>1, <3>2
  <2>2. CASE ~(c = d /\ k = n)
    <3>1. k \in 1..taken[c]
      BY <1>1, <2>2
    <3>2. \A v \in Workers : Runs(v, c, k)' <=> Runs(v, c, k)
      BY <1>1, <2>2, <3>1 DEF Runs
    <3>3. QED
      BY <1>1, <3>1, <3>2 DEF Conservation
  <2>3. QED
    BY <2>1, <2>2
<1>6. ASSUME NEW c \in Clients, NEW v \in Workers, NEW u \in Workers
      PROVE  /\ cur'[u] = c => run'[u] <= taken'[c]
             /\ cur'[u] = c /\ Running(u)' /\ Runs(v, c, run[u])' => v = u
  <2>1. \A x \in Workers : cur[x] = d => run[x] < n
    BY <1>1 DEF Conservation
  <2>2. cur'[u] = c => run'[u] <= taken'[c]
    BY <1>1 DEF Conservation
  <2>3. cur'[u] = c /\ Running(u)' /\ Runs(v, c, run[u])' => v = u
    BY <1>1, <2>1 DEF Conservation, Runs, Running
  <2>4. QED
    BY <2>2, <2>3
<1>7. QED
  BY <1>2, <1>3, <1>4, <1>5, <1>6 DEF Conservation

\* A task that returns goes from its worker to the finished ones.
LEMMA PlaceFinish ==
  ASSUME PlaceInv, BaseInv', NEW w \in Workers, Finish(w)
  PROVE  PlaceInv'
<1> USE DEF PlaceInv, BaseInv, TypeOK
<1> DEFINE d == cur[w]
           n == run[w]
<1>1. /\ d \in Clients /\ n \in Nat /\ n > 0
      /\ finished' = [finished EXCEPT ![d] = @ \union {n}]
      /\ run' = [run EXCEPT ![w] = 0]
      /\ cur' = [cur EXCEPT ![w] = "idle"]
      /\ UNCHANGED <<sent, taken>>
  BY DEF Finish, Running
<1>2. n \in 1..taken[d]
  BY <1>1 DEF Conservation
<1>3. d # "idle"
  BY <1>1, PoolAssumption
<1>4. IdleRunsNothing'
  BY <1>1 DEF IdleRunsNothing, Running
<1>5. ASSUME NEW c \in Clients
      PROVE  taken'[c] <= sent'[c]
  BY <1>1 DEF Conservation
<1>6. ASSUME NEW c \in Clients, NEW k \in finished'[c]
      PROVE  k \in 1..taken'[c]
  BY <1>1, <1>2 DEF Conservation
<1>7. ASSUME NEW c \in Clients, NEW k \in 1..taken'[c]
      PROVE  k \notin finished'[c] <=> \E v \in Workers : Runs(v, c, k)'
  <2>1. CASE c = d /\ k = n
    <3>1. \A v \in Workers : ~ Runs(v, c, k)'
      BY <1>1, <1>3, <2>1 DEF Conservation, Runs, Running
    <3>2. QED
      BY <1>1, <2>1, <3>1
  <2>2. CASE ~(c = d /\ k = n)
    <3>1. \A v \in Workers : Runs(v, c, k)' <=> Runs(v, c, k)
      BY <1>1, <1>3, <2>2, PoolAssumption DEF Runs
    <3>2. k \in finished'[c] <=> k \in finished[c]
      BY <1>1, <2>2
    <3>3. QED
      BY <1>1, <3>1, <3>2 DEF Conservation
  <2>3. QED
    BY <2>1, <2>2
<1>8. ASSUME NEW c \in Clients, NEW v \in Workers, NEW u \in Workers
      PROVE  /\ cur'[u] = c => run'[u] <= taken'[c]
             /\ cur'[u] = c /\ Running(u)' /\ Runs(v, c, run[u])' => v = u
  BY <1>1, <1>3, PoolAssumption DEF Conservation, Runs, Running
<1>9. QED
  BY <1>4, <1>5, <1>6, <1>7, <1>8 DEF Conservation

\* No step of anybody loses a task that was read, or gives it to a second worker.
LEMMA PlaceStep == PlaceInv /\ [Next]_vars => PlaceInv'
<1> SUFFICES ASSUME PlaceInv, [Next]_vars
             PROVE  PlaceInv'
  OBVIOUS
<1>0. BaseInv'
  BY BaseStep DEF PlaceInv
<1> DEFINE Still == /\ UNCHANGED <<taken, finished, run>>
                    /\ \A c \in Clients : sent'[c] >= sent[c]
                    /\ \A w \in Workers : cur'[w] = cur[w] \/ run[w] = 0
<1> USE PoolAssumption DEF PlaceInv, BaseInv, TypeOK
<1>1. CASE Owner
  <2>1. \A w \in Workers : cur[w] = "off" => run[w] = 0
    BY DEF IdleRunsNothing, Running
  <2>2. Still
    BY <1>1, <2>1
       DEF Owner, Start, StartFailsToBind, StartFailsAtThread, CloseEpoll,
           CloseServer, CloseThreads, OffBeforeStart, streamVars, workerVars
  <2>3. QED
    BY <1>0, <2>2, PlaceUnmoved
<1>2. ASSUME NEW c \in Clients, Submitting(c)
      PROVE  PlaceInv'
  <2>1. Still
    BY <1>2 DEF Submitting, AddTaskConnect, AddTaskSend, ThreadExit,
                streamVars, workerVars
  <2>2. QED
    BY <1>0, <2>1, PlaceUnmoved
<1>3. ASSUME NEW w \in Workers, Dispatching(w)
      PROVE  PlaceInv'
  <2>1. CASE Read(w)
    BY <1>0, <2>1, PlaceRead
  <2>2. CASE Finish(w)
    BY <1>0, <2>2, PlaceFinish
  <2>3. CASE ~ Read(w) /\ ~ Finish(w)
    <3>1. cur[w] \notin Clients => run[w] = 0
      BY DEF IdleRunsNothing, Running
    <3>2. Still
      BY <1>3, <2>3, <3>1
         DEF Dispatching, Poll, Dispatch, Accept, AcceptFails, AcceptReset,
             ReadEnd, ReadFails, TouchDeleted, Leave, AtLoopHead, Running, streamVars, workerVars
    <3>3. QED
      BY <1>0, <3>2, PlaceUnmoved
  <2>4. QED
    BY <2>1, <2>2, <2>3
<1>4. CASE UNCHANGED vars
  <2>1. Still
    BY <1>4 DEF vars
  <2>2. QED
    BY <1>0, <2>1, PlaceUnmoved
<1>5. QED
  BY <1>1, <1>2, <1>3, <1>4 DEF Next

\* Whatever the workers, the submitting threads, the failures and Close do, a
\* task that was read off its connection is run by exactly one worker or has
\* finished, and nothing else is ever run.
THEOREM TasksConserved == Spec => []Conservation
<1>1. Init => PlaceInv
  BY BaseInit, PoolAssumption
     DEF Init, PlaceInv, IdleRunsNothing, Conservation, Running, Runs
<1>2. PlaceInv => Conservation
  BY DEF PlaceInv
<1>3. QED
  BY <1>1, <1>2, PlaceStep, PTL DEF Spec

-----------------------------------------------------------------------------
(* With one submitting thread the pool never locks up.                     *)

OneClient == \A c, d \in Clients : c = d

\* What descriptor f announces is still there to be taken, or f was deleted.
Live(f) == Ready(f) \/ (f \in Clients /\ peer[f] = "deleted")

\* Worker w is going to get through its next blocking call.
Solid(w) == \/ cur[w] \in Clients /\ Running(w)
            \/ AtLoopHead(w)
            \/ cur[w] \in Fd /\ Live(cur[w])
            \/ cur[w] = "idle" /\ \E f \in Fd : snap[w] = {f} /\ Live(f)

\* The parts of the invariant: a client that never connected has no peer; a
\* snapshot has at most one event, and none while the worker is at one.
UnsetHasNoPeer == \A c \in Clients : cli[c] = "unset" => peer[c] = "none"

SnapSmall == \A w \in Workers : /\ cur[w] # "idle" => snap[w] = {}
                                /\ \A f, g \in snap[w] : f = g

SomeoneSolid == (closing = 0 /\ \E w \in Workers : cur[w] # "off")
                  => \E w \in Workers : Solid(w)

FreeInv == BaseInv /\ UnsetHasNoPeer /\ SnapSmall /\ SomeoneSolid

\* With one submitting thread epoll_wait never has two descriptors to report:
\* its connection is either waiting to be accepted or open.
LEMMA OneEvent ==
  ASSUME OneClient, NEW f \in ReadySet, NEW g \in ReadySet
  PROVE  f = g
BY DEF OneClient, ReadySet, Ready, Pending, Fd

\* With one submitting thread no snapshot ever holds a second event.
LEMMA SmallStep ==
  ASSUME OneClient, FreeInv, BaseInv', [Next]_vars
  PROVE  UnsetHasNoPeer' /\ SnapSmall'
<1> USE PoolAssumption
    DEF FreeInv, BaseInv, TypeOK, UnsetHasNoPeer, SnapSmall, Fd
<1>1. CASE Owner
  BY <1>1 DEF Owner, Start, StartFailsToBind, StartFailsAtThread, CloseEpoll,
              CloseServer, CloseThreads, OffBeforeStart, workerVars
<1>2. ASSUME NEW c \in Clients, Submitting(c)
      PROVE  UnsetHasNoPeer' /\ SnapSmall'
  BY <1>2 DEF Submitting, AddTaskConnect, AddTaskSend, ThreadExit, workerVars
<1>3. ASSUME NEW w \in Workers, Dispatching(w)
      PROVE  UnsetHasNoPeer' /\ SnapSmall'
  <2>1. CASE Poll(w)
    <3>1. \A f, g \in ReadySet : f = g
      BY OneEvent
    <3>2. QED
      BY <2>1, <3>1 DEF Poll, AtLoopHead
  <2>2. CASE \E f \in Fd : Dispatch(w, f)
    BY <2>2 DEF Dispatch
  <2>3. CASE Accept(w)
    BY <2>3 DEF Accept, Pending
  <2>4. CASE ReadEnd(w) \/ ReadFails(w)
    BY <2>4 DEF ReadEnd, ReadFails
  <2>5. CASE \/ AcceptFails(w) \/ AcceptReset(w) \/ Read(w) \/ TouchDeleted(w)
             \/ Finish(w) \/ Leave(w)
    BY <2>5 DEF AcceptFails, AcceptReset, Read, TouchDeleted, Finish, Leave,
                AtLoopHead, workerVars
  <2>6. QED
    BY <1>3, <2>1, <2>2, <2>3, <2>4, <2>5 DEF Dispatching
<1>4. CASE UNCHANGED vars
  BY <1>4 DEF vars
<1>5. QED
  BY <1>1, <1>2, <1>3, <1>4 DEF Next

\* The worker that takes what the others were told of is free itself, so a step
\* that blocks one worker leaves another that is not.
LEMMA SolidStep ==
  ASSUME OneClient, FreeInv, BaseInv', [Next]_vars
  PROVE  SomeoneSolid'
<1> SUFFICES ASSUME closing' = 0, NEW x \in Workers, cur'[x] # "off"
             PROVE  \E w \in Workers : Solid(w)'
  BY DEF SomeoneSolid
<1> USE PoolAssumption DEF FreeInv, BaseInv, TypeOK, Fd
<1>1. CASE Start \/ StartFailsToBind \/ StartFailsAtThread
  BY <1>1 DEF Start, StartFailsToBind, StartFailsAtThread, OffBeforeStart,
              SnapSmall, Solid, AtLoopHead, workerVars
<1>2. CASE CloseEpoll \/ CloseServer \/ CloseThreads
  BY <1>2 DEF CloseEpoll, CloseServer, CloseThreads
<1>3. ASSUME NEW c \in Clients, Submitting(c)
      PROVE  \E w \in Workers : Solid(w)'
  <2>1. UNCHANGED workerVars /\ closing = 0
    BY <1>3 DEF Submitting, AddTaskConnect, AddTaskSend, ThreadExit
  <2>2. PICK w \in Workers : Solid(w)
    BY <2>1 DEF SomeoneSolid, workerVars
  <2>3. ASSUME NEW f \in Fd, Live(f)
        PROVE  Live(f)'
    BY <1>3, <2>3
       DEF Submitting, AddTaskConnect, AddTaskSend, ThreadExit, Live, Ready,
           Pending, Queued, OneClient, UnsetHasNoPeer, streamVars
  <2>4. Solid(w)'
    BY <2>1, <2>2, <2>3 DEF Solid, AtLoopHead, Running, workerVars
  <2>5. QED
    BY <2>4
<1>4. ASSUME NEW v \in Workers, Dispatching(v)
      PROVE  \E w \in Workers : Solid(w)'
  <2>1. CASE Poll(v)
    <3>1. PICK f \in Fd : f \in ReadySet
      BY <2>1 DEF Poll, ReadySet
    <3>2. snap'[v] = {f} /\ cur'[v] = "idle"
      BY <2>1, <3>1, OneEvent DEF Poll, AtLoopHead
    <3>3. Live(f)'
      BY <2>1, <3>1 DEF Poll, ReadySet, Live, Ready, Pending, Queued, streamVars
    <3>4. Solid(v)'
      BY <3>2, <3>3 DEF Solid
    <3>5. QED
      BY <3>4
  <2>2. CASE \E f \in Fd : Dispatch(v, f)
    <3>1. PICK f \in Fd : Dispatch(v, f)
      BY <2>2
    <3>2. closing = 0 /\ \E w \in Workers : cur[w] # "off"
      BY <3>1 DEF Dispatch
    <3>3. PICK w \in Workers : Solid(w)
      BY <3>2 DEF SomeoneSolid
    <3>4. \A g \in Fd : Live(g) => Live(g)'
      BY <3>1 DEF Dispatch, Live, Ready, Pending, Queued, streamVars
    <3>5. CASE w # v
      <4>1. cur'[w] = cur[w] /\ snap'[w] = snap[w] /\ run'[w] = run[w]
        BY <3>1, <3>5 DEF Dispatch
      <4>2. Solid(w)'
        BY <3>3, <3>4, <4>1 DEF Solid, AtLoopHead, Running
      <4>3. QED
        BY <4>2
    <3>6. CASE w = v
      <4>1. cur[v] = "idle" /\ snap[v] = {f} /\ Live(f)
        BY <3>1, <3>3, <3>6 DEF Solid, Dispatch, AtLoopHead
      <4>2. snap'[v] = {} /\ (cur'[v] = f \/ cur'[v] = "idle")
        BY <3>1, <4>1 DEF Dispatch
      <4>3. Solid(v)'
        BY <3>4, <4>1, <4>2 DEF Solid, AtLoopHead
      <4>4. QED
        BY <4>3
    <3>7. QED
      BY <3>5, <3>6
  <2>3. CASE Accept(v) \/ AcceptFails(v) \/ ReadEnd(v) \/ ReadFails(v) \/ Finish(v)
    <3>1. AtLoopHead(v)'
      BY <2>3 DEF Accept, AcceptFails, ReadEnd, ReadFails, Finish, AtLoopHead,
                  SnapSmall
    <3>2. QED
      BY <3>1 DEF Solid
  <2>4. CASE Read(v)
    <3>1. cur'[v] \in Clients /\ Running(v)'
      BY <2>4 DEF Read, Running
    <3>2. QED
      BY <3>1 DEF Solid
  <2>5. CASE TouchDeleted(v)
    <3>1. Solid(v)'
      BY <2>5 DEF TouchDeleted, Solid, Live, workerVars
    <3>2. QED
      BY <3>1
  <2>6. CASE Leave(v)
    BY <2>6 DEF Leave
  <2>7. CASE AcceptReset(v)
    <3>1. closing = 0 /\ \E w \in Workers : cur[w] # "off"
      BY <2>7 DEF AcceptReset
    <3>2. PICK w \in Workers : Solid(w)
      BY <3>1 DEF SomeoneSolid
    <3>3. Solid(w)'
      BY <2>7, <3>2 DEF AcceptReset, Solid, AtLoopHead, Running, Live, Ready,
                        Pending, Queued, streamVars, workerVars
    <3>4. QED
      BY <3>3
  <2>8. QED
    BY <1>4, <2>1, <2>2, <2>3, <2>4, <2>5, <2>6, <2>7 DEF Dispatching
<1>5. CASE UNCHANGED vars
  <2>1. PICK w \in Workers : Solid(w)
    BY <1>5 DEF vars, SomeoneSolid
  <2>2. Solid(w)'
    BY <1>5, <2>1
       DEF vars, Solid, AtLoopHead, Running, Live, Ready, Pending, Queued
  <2>3. QED
    BY <2>2
<1>6. QED
  BY <1>1, <1>2, <1>3, <1>4, <1>5 DEF Next, Owner

\* With a single submitting thread, however many workers race for an event, an
\* open pool always keeps a worker that is not stuck in accept() or read().
THEOREM OneClientNeverLocksUp == OneClient => (Spec => []SomeWorkerFree)
<1> SUFFICES ASSUME OneClient
             PROVE  Spec => []SomeWorkerFree
  OBVIOUS
<1>1. Init => FreeInv
  BY BaseInit, PoolAssumption
     DEF Init, FreeInv, UnsetHasNoPeer, SnapSmall, SomeoneSolid
<1>2. FreeInv /\ [Next]_vars => FreeInv'
  BY BaseStep, SmallStep, SolidStep DEF FreeInv
<1>3. FreeInv => SomeWorkerFree
  BY PoolAssumption
     DEF FreeInv, BaseInv, TypeOK, SomeWorkerFree, SomeoneSolid, Solid,
         Blocked, Live, AtLoopHead, Fd
<1>4. QED
  BY <1>1, <1>2, <1>3, PTL DEF Spec

-----------------------------------------------------------------------------
(* With one worker nothing that is freed is used.                          *)

OneWorker == \A v, w \in Workers : v = w

\* The worker's events, and the socket it reads, are open connections.
HeldOpen == \A w \in Workers :
              /\ cur[w] \notin snap[w]
              /\ \A c \in Clients :
                   c \in snap[w] \/ (cur[w] = c /\ ~ Running(w))
                     => peer[c] = "open"

SoloInv == BaseInv /\ UnsetHasNoPeer /\ closing = 0 /\ NoUseAfterFree
           /\ HeldOpen

\* A lone worker is never told of a connection it has deleted.
LEMMA SoloStep ==
  ASSUME OneWorker, ~ Closable, SoloInv, BaseInv', [Next]_vars
  PROVE  SoloInv'
<1> USE PoolAssumption
    DEF SoloInv, BaseInv, TypeOK, UnsetHasNoPeer, NoUseAfterFree, HeldOpen, Fd
<1>1. CASE Owner
  BY <1>1 DEF Owner, Start, StartFailsToBind, StartFailsAtThread, CloseEpoll,
              CloseServer, CloseThreads, OffBeforeStart, Running, workerVars
<1>2. ASSUME NEW c \in Clients, Submitting(c)
      PROVE  SoloInv'
  BY <1>2 DEF Submitting, AddTaskConnect, AddTaskSend, ThreadExit, Running,
              workerVars
<1>3. ASSUME NEW w \in Workers, Dispatching(w)
      PROVE  SoloInv'
  <2>1. CASE Poll(w)
    BY <2>1 DEF Poll, AtLoopHead, ReadySet, Ready, Running
  <2>2. CASE \E f \in Fd : Dispatch(w, f)
    BY <2>2 DEF Dispatch, OffBeforeStart, Running
  <2>3. CASE Accept(w)
    BY <2>3 DEF Accept, Pending, Running
  <2>4. CASE ReadEnd(w) \/ ReadFails(w)
    BY <2>4 DEF ReadEnd, ReadFails, OneWorker, Running
  <2>5. CASE TouchDeleted(w) \/ AcceptReset(w)
    BY <2>5 DEF TouchDeleted, AcceptReset, OffBeforeStart
  <2>6. CASE AcceptFails(w) \/ Read(w) \/ Finish(w) \/ Leave(w)
    BY <2>6 DEF AcceptFails, Read, Finish, Leave, Running
  <2>7. QED
    BY <1>3, <2>1, <2>2, <2>3, <2>4, <2>5, <2>6 DEF Dispatching
<1>4. CASE UNCHANGED vars
  BY <1>4 DEF vars, Running
<1>5. QED
  BY <1>1, <1>2, <1>3, <1>4 DEF Next

\* A pool with one worker that is never closed uses no freed object, even when
\* its submitting threads come and go and system calls fail.
THEOREM OneWorkerIsSafe ==
  OneWorker /\ ~ Closable => (Spec => []NoUseAfterFree)
<1> SUFFICES ASSUME OneWorker, ~ Closable
             PROVE  Spec => []NoUseAfterFree
  OBVIOUS
<1>1. Init => SoloInv
  BY BaseInit, PoolAssumption
     DEF Init, SoloInv, UnsetHasNoPeer, NoUseAfterFree, HeldOpen
<1>2. SoloInv /\ [Next]_vars => SoloInv'
  BY BaseStep, SoloStep DEF SoloInv
<1>3. SoloInv => NoUseAfterFree
  BY DEF SoloInv
<1>4. QED
  BY <1>1, <1>2, <1>3, PTL DEF Spec

-----------------------------------------------------------------------------
(* With submitting threads that outlive the pool nothing that is freed is  *)
(* used, however many workers race: no stream ever ends, so that a         *)
(* connection is deleted by who accepts it or not at all.                  *)

LongLived == Leavers = {} /\ ~ Closable

\* No read fails on a connection whose client is there.
StaysReadable == ~ ReadsFail \/ MaxFaults = 0

NobodyLeft == \A c \in Clients : cli[c] # "closed"

CrowdInv == BaseInv /\ UnsetHasNoPeer /\ closing = 0 /\ NoUseAfterFree
            /\ NobodyLeft /\ HeldOpen

\* Nobody deletes a connection that another worker has been told of.
LEMMA CrowdStep ==
  ASSUME LongLived, StaysReadable, CrowdInv, BaseInv', [Next]_vars
  PROVE  CrowdInv'
<1> USE PoolAssumption
    DEF CrowdInv, BaseInv, TypeOK, UnsetHasNoPeer, NoUseAfterFree, NobodyLeft,
        HeldOpen, Fd, LongLived
<1>1. CASE Owner
  BY <1>1 DEF Owner, Start, StartFailsToBind, StartFailsAtThread, CloseEpoll,
              CloseServer, CloseThreads, OffBeforeStart, Running, workerVars
<1>2. ASSUME NEW c \in Clients, Submitting(c)
      PROVE  CrowdInv'
  BY <1>2 DEF Submitting, AddTaskConnect, AddTaskSend, ThreadExit, Running,
              workerVars
<1>3. ASSUME NEW w \in Workers, Dispatching(w)
      PROVE  CrowdInv'
  <2>1. CASE Poll(w)
    BY <2>1 DEF Poll, AtLoopHead, ReadySet, Ready, Running
  <2>2. CASE \E f \in Fd : Dispatch(w, f)
    BY <2>2 DEF Dispatch, OffBeforeStart, Running
  <2>3. CASE Accept(w)
    BY <2>3 DEF Accept, Pending, Running
  <2>4. CASE ReadEnd(w) \/ ReadFails(w)
    BY <2>4 DEF ReadEnd, ReadFails, StaysReadable
  <2>5. CASE TouchDeleted(w) \/ AcceptReset(w)
    BY <2>5 DEF TouchDeleted, AcceptReset, OffBeforeStart
  <2>6. CASE AcceptFails(w) \/ Read(w) \/ Finish(w) \/ Leave(w)
    BY <2>6 DEF AcceptFails, Read, Finish, Leave, Running
  <2>7. QED
    BY <1>3, <2>1, <2>2, <2>3, <2>4, <2>5, <2>6 DEF Dispatching
<1>4. CASE UNCHANGED vars
  BY <1>4 DEF vars, Running
<1>5. QED
  BY <1>1, <1>2, <1>3, <1>4 DEF Next

\* The other discipline: any number of workers, as long as no submitting thread
\* ends and the pool is never closed.  System calls may fail, but for a read of
\* a connected client: it deletes a socket that others may hold in a snapshot.
THEOREM LongLivedIsSafe ==
  LongLived /\ StaysReadable => (Spec => []NoUseAfterFree)
<1> SUFFICES ASSUME LongLived, StaysReadable
             PROVE  Spec => []NoUseAfterFree
  OBVIOUS
<1>1. Init => CrowdInv
  BY BaseInit, PoolAssumption
     DEF Init, CrowdInv, UnsetHasNoPeer, NoUseAfterFree, NobodyLeft, HeldOpen
<1>2. CrowdInv /\ [Next]_vars => CrowdInv'
  BY BaseStep, CrowdStep DEF CrowdInv
<1>3. CrowdInv => NoUseAfterFree
  BY DEF CrowdInv
<1>4. QED
  BY <1>1, <1>2, <1>3, PTL DEF Spec

\* Without failures no connection is ever deleted, so that AddTask is not killed
\* by SIGPIPE either.
NoneDeleted == \A c \in Clients : peer[c] # "deleted"

\* Only a failing epoll_ctl or read deletes a connection in a long-lived pool.
LEMMA DeletedStep ==
  ASSUME LongLived, MaxFaults = 0, CrowdInv, NoneDeleted, crash = "none",
         [Next]_vars
  PROVE  NoneDeleted' /\ crash' = "none"
<1> USE PoolAssumption
    DEF CrowdInv, BaseInv, TypeOK, NobodyLeft, HeldOpen, Fd, LongLived,
        NoneDeleted
<1>1. CASE Owner
  BY <1>1 DEF Owner, Start, StartFailsToBind, StartFailsAtThread, CloseEpoll,
              CloseServer, CloseThreads
<1>2. ASSUME NEW c \in Clients, Submitting(c)
      PROVE  NoneDeleted' /\ crash' = "none"
  BY <1>2 DEF Submitting, AddTaskConnect, AddTaskSend, ThreadExit
<1>3. ASSUME NEW w \in Workers, Dispatching(w)
      PROVE  NoneDeleted' /\ crash' = "none"
  <2>1. CASE Accept(w)
    BY <2>1 DEF Accept
  <2>2. CASE \E f \in Fd : Dispatch(w, f)
    BY <2>2 DEF Dispatch, OffBeforeStart
  <2>3. CASE ~ Accept(w) /\ ~ (\E f \in Fd : Dispatch(w, f))
    BY <1>3, <2>3 DEF Dispatching, Poll, AcceptFails, AcceptReset, Read, ReadEnd,
       ReadFails, TouchDeleted, Finish, Leave, OffBeforeStart
  <2>4. QED
    BY <2>1, <2>2, <2>3
<1>4. CASE UNCHANGED vars
  BY <1>4 DEF vars
<1>5. QED
  BY <1>1, <1>2, <1>3, <1>4 DEF Next

\* A long-lived pool in which no system call fails never crashes, for every
\* number of workers and submitting threads.
THEOREM UndisturbedSurvives ==
  LongLived /\ MaxFaults = 0 => (Spec => [](crash = "none"))
<1> SUFFICES ASSUME LongLived, MaxFaults = 0
             PROVE  Spec => [](crash = "none")
  OBVIOUS
<1> DEFINE I == CrowdInv /\ NoneDeleted /\ crash = "none"
<1>1. Init => I
  BY BaseInit, PoolAssumption
     DEF Init, CrowdInv, UnsetHasNoPeer, NoUseAfterFree, NobodyLeft, HeldOpen,
         NoneDeleted
<1>2. I /\ [Next]_vars => I'
  BY BaseStep, CrowdStep, DeletedStep DEF CrowdInv, StaysReadable
<1>3. I => crash = "none"
  OBVIOUS
<1>4. QED
  BY <1>1, <1>2, <1>3, PTL DEF Spec

-----------------------------------------------------------------------------
(* A task that waits never waits for a pool that waits.                    *)

\* Nobody closes the pool, no call fails, and there is a worker.
Undisturbed == ~ Closable /\ MaxFaults = 0 /\ Workers # {}

\* Worker w is in a task, or has a step of its own: the guards of WorkerStep(w).
CanStep(w) == \/ cur[w] \in Clients /\ Running(w)
              \/ AtLoopHead(w) /\ ReadySet # {}
              \/ cur[w] = "idle" /\ snap[w] # {}
              \/ cur[w] \in Fd /\ ~ Running(w) /\ Ready(cur[w])

\* Behind a task in a stream there is always a worker that moves, or one that is
\* in a task and moves on when the task returns.
NeverStuck == \A c \in Clients :
                Queued(c) => crash = "none" /\ \E w \in Workers : CanStep(w)

\* The parts of the invariant: who was connected found a listening pool, which
\* has all its workers, and its connection is there until its stream has ended.
AwakeInv == /\ closing = 0
            /\ server = "listening" => \A w \in Workers : cur[w] # "off"
            /\ \A c \in Clients :
                 /\ peer[c] # "none" => server = "listening"
                 /\ cli[c] = "up" => peer[c] # "none"
                 /\ peer[c] = "none" => sent[c] = 0
                 /\ peer[c] = "deleted" => ~ Queued(c) /\ cli[c] = "closed"
            /\ crash # "sigpipe"

LEMMA AwakeStep ==
  ASSUME Undisturbed, BaseInv, UnsetHasNoPeer, AwakeInv, BaseInv', [Next]_vars
  PROVE  AwakeInv'
<1> USE PoolAssumption
    DEF BaseInv, TypeOK, UnsetHasNoPeer, AwakeInv, Undisturbed, Fd
<1>1. CASE Owner
  BY <1>1 DEF Owner, Start, StartFailsToBind, StartFailsAtThread, CloseEpoll,
              CloseServer, CloseThreads, Queued, streamVars, workerVars
<1>2. ASSUME NEW c \in Clients, Submitting(c)
      PROVE  AwakeInv'
  BY <1>2 DEF Submitting, AddTaskConnect, AddTaskSend, ThreadExit, Queued,
              streamVars, workerVars
<1>3. ASSUME NEW w \in Workers, Dispatching(w)
      PROVE  AwakeInv'
  <2>1. CASE Accept(w)
    BY <2>1 DEF Accept, Pending, Queued, streamVars
  <2>2. CASE ReadEnd(w) \/ ReadFails(w)
    BY <2>2 DEF ReadEnd, ReadFails, Queued, streamVars
  <2>3. CASE Read(w)
    BY <2>3 DEF Read, Queued
  <2>4. CASE \/ Poll(w) \/ (\E f \in Fd : Dispatch(w, f)) \/ AcceptFails(w)
             \/ AcceptReset(w) \/ TouchDeleted(w) \/ Finish(w) \/ Leave(w)
    BY <2>4 DEF Poll, Dispatch, AcceptFails, AcceptReset, TouchDeleted, Finish,
                Leave, Queued, streamVars, workerVars
  <2>5. QED
    BY <1>3, <2>1, <2>2, <2>3, <2>4 DEF Dispatching
<1>4. CASE UNCHANGED vars
  BY <1>4 DEF vars, Queued
<1>5. QED
  BY <1>1, <1>2, <1>3, <1>4 DEF Next

\* epoll_wait has something to report as long as a pointer is on its way: the
\* connection in the backlog, or the bytes of the open one.
LEMMA QueuedIsReady ==
  ASSUME BaseInv, AwakeInv, NEW c \in Clients, Queued(c)
  PROVE  ReadySet # {} /\ server = "listening"
<1>1. sent[c] # 0
  BY DEF BaseInv, TypeOK, Queued
<1>2. peer[c] \in {"pending", "open"} /\ server = "listening"
  BY <1>1 DEF BaseInv, TypeOK, AwakeInv
<1>3. CASE peer[c] = "pending"
  BY <1>2, <1>3 DEF ReadySet, Ready, Pending, Fd
<1>4. CASE peer[c] = "open"
  BY <1>2, <1>4, PoolAssumption DEF ReadySet, Ready, Fd
<1> QED
  BY <1>2, <1>3, <1>4

\* With one submitting thread that stays, no task is left in its stream by
\* workers that all wait, however many they are: EveryTaskStarts without the
\* fairness that makes them take their steps and the returns it assumes.
THEOREM OneClientNeverStuck ==
  OneClient /\ LongLived /\ Undisturbed => (Spec => []NeverStuck)
<1> SUFFICES ASSUME OneClient, LongLived, Undisturbed
             PROVE  Spec => []NeverStuck
  OBVIOUS
<1> DEFINE I == PlaceInv /\ FreeInv /\ CrowdInv /\ AwakeInv
<1>1. Init => I
  <2>1. Init => FreeInv /\ CrowdInv
    BY BaseInit, PoolAssumption
       DEF Init, FreeInv, UnsetHasNoPeer, SnapSmall, SomeoneSolid, CrowdInv,
           NoUseAfterFree, NobodyLeft, HeldOpen
  <2>2. Init => PlaceInv /\ AwakeInv
    BY BaseInit DEF Init, PlaceInv, IdleRunsNothing, Conservation, Running, Runs,
                    AwakeInv
  <2> QED
    BY <2>1, <2>2
<1>2. I /\ [Next]_vars => I'
  BY PlaceStep, BaseStep, SmallStep, SolidStep, CrowdStep, AwakeStep
     DEF FreeInv, StaysReadable, Undisturbed
<1>3. I => NeverStuck
  <2> SUFFICES ASSUME I, NEW c \in Clients, Queued(c)
               PROVE  crash = "none" /\ \E w \in Workers : CanStep(w)
    BY DEF NeverStuck
  <2>1. BaseInv /\ ReadySet # {} /\ server = "listening"
    BY QueuedIsReady DEF FreeInv
  <2>2. PICK w \in Workers : Solid(w)
    BY <2>1 DEF AwakeInv, FreeInv, SomeoneSolid, Undisturbed
  <2>3. CanStep(w)
    BY <2>1, <2>2
       DEF Solid, CanStep, Live, AtLoopHead, PlaceInv, IdleRunsNothing, AwakeInv,
           CrowdInv, NobodyLeft
  <2>4. crash = "none"
    BY <2>1 DEF AwakeInv, CrowdInv, NoUseAfterFree, BaseInv, TypeOK
  <2> QED
    BY <2>3, <2>4
<1>4. QED
  BY <1>1, <1>2, <1>3, PTL DEF Spec

\* What a lone worker was told of is still there when it gets to it.
HeldReady == \A w \in Workers :
               /\ \A f \in snap[w] : Ready(f)
               /\ cur[w] \in Fd /\ ~ Running(w) => Ready(cur[w])

LEMMA HeldStep ==
  ASSUME OneWorker, ~ Closable, SoloInv, HeldReady, BaseInv', [Next]_vars
  PROVE  HeldReady'
<1> USE PoolAssumption
    DEF SoloInv, BaseInv, TypeOK, UnsetHasNoPeer, HeldOpen, HeldReady, Fd
<1>1. CASE Owner
  BY <1>1 DEF Owner, Start, StartFailsToBind, StartFailsAtThread, CloseEpoll,
              CloseServer, CloseThreads, OffBeforeStart, Running, Ready, Pending,
              Queued, streamVars, workerVars
<1>2. ASSUME NEW c \in Clients, Submitting(c)
      PROVE  HeldReady'
  <2>1. UNCHANGED <<snap, cur, run>>
    BY <1>2 DEF Submitting, AddTaskConnect, AddTaskSend, ThreadExit, workerVars
  <2>2. ASSUME NEW f \in Fd, Ready(f)
        PROVE  Ready(f)'
    BY <1>2, <2>2 DEF Submitting, AddTaskConnect, AddTaskSend, ThreadExit, Ready,
                      Pending, Queued, streamVars
  <2> QED
    BY <2>1, <2>2 DEF Running
<1>3. ASSUME NEW w \in Workers, Dispatching(w)
      PROVE  HeldReady'
  <2>1. CASE Poll(w)
    BY <2>1 DEF Poll, AtLoopHead, ReadySet, Ready, Pending, Queued, Running,
                streamVars
  <2>2. CASE \E f \in Fd : Dispatch(w, f)
    BY <2>2 DEF Dispatch, Ready, Pending, Queued, Running, streamVars
  <2>3. CASE Accept(w)
    BY <2>3 DEF Accept, Ready, Pending, Queued, Running, OneWorker, streamVars
  <2>4. CASE ReadEnd(w) \/ ReadFails(w)
    BY <2>4 DEF ReadEnd, ReadFails, Ready, Pending, Queued, Running, OneWorker,
                streamVars
  <2>5. CASE Read(w)
    BY <2>5 DEF Read, Ready, Pending, Queued, Running, OneWorker
  <2>6. CASE \/ AcceptFails(w) \/ AcceptReset(w) \/ TouchDeleted(w) \/ Finish(w)
             \/ Leave(w)
    BY <2>6 DEF AcceptFails, AcceptReset, TouchDeleted, Finish, Leave, Ready,
                Pending, Queued, Running, streamVars, workerVars
  <2>7. QED
    BY <1>3, <2>1, <2>2, <2>3, <2>4, <2>5, <2>6 DEF Dispatching
<1>4. CASE UNCHANGED vars
  BY <1>4 DEF vars, Ready, Pending, Queued, Running
<1>5. QED
  BY <1>1, <1>2, <1>3, <1>4 DEF Next

\* Nor does a single worker wait while a task does, although submitting threads
\* come and go.
THEOREM OneWorkerNeverStuck ==
  OneWorker /\ Undisturbed => (Spec => []NeverStuck)
<1> SUFFICES ASSUME OneWorker, Undisturbed
             PROVE  Spec => []NeverStuck
  OBVIOUS
<1> DEFINE I == PlaceInv /\ SoloInv /\ HeldReady /\ AwakeInv
<1>1. Init => I
  <2>1. Init => SoloInv /\ HeldReady
    BY BaseInit, PoolAssumption
       DEF Init, SoloInv, UnsetHasNoPeer, NoUseAfterFree, HeldOpen, HeldReady, Fd
  <2>2. Init => PlaceInv /\ AwakeInv
    BY BaseInit DEF Init, PlaceInv, IdleRunsNothing, Conservation, Running, Runs,
                    AwakeInv
  <2> QED
    BY <2>1, <2>2
<1>2. I /\ [Next]_vars => I'
  BY PlaceStep, BaseStep, SoloStep, HeldStep, AwakeStep DEF SoloInv, Undisturbed
<1>3. I => NeverStuck
  <2> SUFFICES ASSUME I, NEW c \in Clients, Queued(c)
               PROVE  crash = "none" /\ \E w \in Workers : CanStep(w)
    BY DEF NeverStuck
  <2>1. BaseInv /\ ReadySet # {} /\ server = "listening"
    BY QueuedIsReady DEF SoloInv
  <2>2. PICK w \in Workers : cur[w] # "off"
    BY <2>1 DEF AwakeInv, Undisturbed
  <2>3. CanStep(w)
    BY <2>1, <2>2
       DEF CanStep, HeldReady, PlaceInv, IdleRunsNothing, AtLoopHead, BaseInv,
           TypeOK
  <2>4. crash = "none"
    BY <2>1 DEF AwakeInv, SoloInv, NoUseAfterFree, BaseInv, TypeOK
  <2> QED
    BY <2>3, <2>4
<1>4. QED
  BY <1>1, <1>2, <1>3, PTL DEF Spec

-----------------------------------------------------------------------------
(* The pool implements the bag of tasks.                                   *)

SentBound == \A c \in Clients : sent[c] <= MaxTasks

\* AddTask hands in no more tasks than the bound says.
LEMMA SentBoundStep ==
  ASSUME BaseInv, SentBound, [Next]_vars
  PROVE  SentBound'
<1> USE PoolAssumption DEF BaseInv, TypeOK, SentBound
<1>1. CASE Owner
  BY <1>1 DEF Owner, Start, StartFailsToBind, StartFailsAtThread, CloseEpoll,
              CloseServer, CloseThreads, streamVars
<1>2. ASSUME NEW c \in Clients, Submitting(c)
      PROVE  SentBound'
  BY <1>2 DEF Submitting, AddTaskConnect, AddTaskSend, ThreadExit, streamVars
<1>3. ASSUME NEW w \in Workers, Dispatching(w)
      PROVE  SentBound'
  BY <1>3 DEF Dispatching, Poll, Dispatch, Accept, AcceptFails, AcceptReset, Read,
              ReadEnd, ReadFails, TouchDeleted, Finish, Leave, streamVars
<1>4. CASE UNCHANGED vars
  BY <1>4 DEF vars
<1>5. QED
  BY <1>1, <1>2, <1>3, <1>4 DEF Next

BagInv == PlaceInv /\ SentBound

\* Every step of the pool is a submission, a start or a finish of the bag, or
\* changes nothing a caller of AddTask can see.
LEMMA BagStep ==
  ASSUME BagInv, BagInv', [Next]_vars
  PROVE  [Bag!Next]_(Bag!vars)
<1> USE PoolAssumption DEF BagInv, PlaceInv, BaseInv, TypeOK, Fd
<1> DEFINE BagVars == <<sent, taken, finished, run>>
           Runner(w) == IF Running(w) THEN <<cur[w], run[w]>> ELSE NoTask
<1>1. ASSUME UNCHANGED BagVars,
             \A w \in Workers : cur'[w] = cur[w] \/ run[w] = 0
      PROVE  UNCHANGED Bag!vars
  BY <1>1 DEF Bag!vars, Running
<1>2. CASE Owner
  <2>1. \A w \in Workers : cur[w] = "off" => run[w] = 0
    BY DEF IdleRunsNothing, Running
  <2>2. UNCHANGED BagVars
        /\ \A w \in Workers : cur'[w] = cur[w] \/ run[w] = 0
    BY <1>2, <2>1
       DEF Owner, Start, StartFailsToBind, StartFailsAtThread, CloseEpoll,
           CloseServer, CloseThreads, OffBeforeStart, streamVars, workerVars
  <2>3. QED
    BY <1>1, <2>2
<1>3. ASSUME NEW c \in Clients, Submitting(c)
      PROVE  [Bag!Next]_(Bag!vars)
  <2>1. CASE UNCHANGED sent
    <3>1. UNCHANGED BagVars
          /\ \A w \in Workers : cur'[w] = cur[w] \/ run[w] = 0
      BY <1>3, <2>1 DEF Submitting, AddTaskConnect, AddTaskSend, ThreadExit,
                        streamVars, workerVars
    <3>2. QED
      BY <1>1, <3>1
  <2>2. CASE sent' = [sent EXCEPT ![c] = @ + 1] /\ AddTaskSend(c)
    <3> DEFINE t == <<c, sent[c] + 1>>
    <3>1. sent[c] + 1 \in 1..MaxTasks
      BY <2>2 DEF SentBound
    <3>2. t \in Tasks
      BY <3>1 DEF Tasks
    <3>3. UNCHANGED <<taken, finished, run, cur>>
      BY <2>2 DEF AddTaskSend, workerVars
    <3>4. t \notin {u \in Tasks : u[2] <= sent[u[1]]}
      OBVIOUS
    <3>5. {u \in Tasks : u[2] <= sent'[u[1]]}
            = {u \in Tasks : u[2] <= sent[u[1]]} \union {t}
      <4>1. ASSUME NEW u \in Tasks
            PROVE  u[2] <= sent'[u[1]] <=> u[2] <= sent[u[1]] \/ u = t
        <5>1. PICK d \in Clients, k \in 1..MaxTasks : u = <<d, k>>
          BY DEF Tasks
        <5>2. CASE d = c
          BY <2>2, <5>1, <5>2
        <5>3. CASE d # c
          BY <2>2, <5>1, <5>3
        <5>4. QED
          BY <5>2, <5>3
      <4>2. QED
        BY <3>2, <4>1
    <3>6. PICK u \in Tasks : u = t
      BY <3>2
    <3>7. Bag!Submit(u)
      <4> HIDE DEF t
      <4>1. QED
        BY <3>3, <3>4, <3>5, <3>6 DEF Bag!Submit, Running
    <3>8. QED
      BY <3>7 DEF Bag!Next
  <2>3. QED
    BY <1>3, <2>1, <2>2
       DEF Submitting, AddTaskConnect, AddTaskSend, ThreadExit, streamVars
<1>4. ASSUME NEW w \in Workers, Read(w)
      PROVE  [Bag!Next]_(Bag!vars)
  <2> DEFINE d == cur[w]
             n == taken[d] + 1
             t == <<d, n>>
  <2>1. /\ d \in Clients /\ run[w] = 0 /\ n \in Nat /\ n > 0
        /\ taken[d] < sent[d]
        /\ taken' = [taken EXCEPT ![d] = n]
        /\ run' = [run EXCEPT ![w] = n]
        /\ UNCHANGED <<sent, finished, cur>>
    BY <1>4 DEF Read, Running, Queued
  <2>2. t \in Tasks
    BY <2>1 DEF Tasks, SentBound
  <2>3. t \in {u \in Tasks : u[2] <= sent[u[1]]}
               \ {u \in Tasks : u[2] <= taken[u[1]]}
    BY <2>1, <2>2
  <2>4. {u \in Tasks : u[2] <= taken'[u[1]]}
          = {u \in Tasks : u[2] <= taken[u[1]]} \union {t}
    <3>1. ASSUME NEW u \in Tasks
          PROVE  u[2] <= taken'[u[1]] <=> u[2] <= taken[u[1]] \/ u = t
      <4>1. PICK e \in Clients, k \in 1..MaxTasks : u = <<e, k>>
        BY DEF Tasks
      <4>2. CASE e = d
        BY <2>1, <4>1, <4>2
      <4>3. CASE e # d
        BY <2>1, <4>1, <4>3
      <4>4. QED
        BY <4>2, <4>3
    <3>2. QED
      BY <2>2, <3>1
  <2>5. Runner(w) = NoTask
    BY <2>1 DEF Running
  <2>6. \A v \in Workers : Runner(v)' = IF v = w THEN t ELSE Runner(v)
    BY <2>1 DEF Running
  <2>7. [v \in Workers |-> Runner(v)'] = [[v \in Workers |-> Runner(v)]
                                            EXCEPT ![w] = t]
    BY <2>6
  <2>8. PICK u \in Tasks : u = t
    BY <2>2
  <2>9. Bag!Start(w, u)
    <3> HIDE DEF t
    <3>1. QED
      BY <2>1, <2>3, <2>4, <2>5, <2>7, <2>8 DEF Bag!Start
  <2>10. QED
    BY <2>9 DEF Bag!Next
<1>5. ASSUME NEW w \in Workers, Finish(w)
      PROVE  [Bag!Next]_(Bag!vars)
  <2> DEFINE d == cur[w]
             n == run[w]
             t == <<d, n>>
  <2>1. /\ d \in Clients /\ n \in Nat /\ n > 0
        /\ finished' = [finished EXCEPT ![d] = @ \union {n}]
        /\ run' = [run EXCEPT ![w] = 0]
        /\ cur' = [cur EXCEPT ![w] = "idle"]
        /\ UNCHANGED <<sent, taken>>
    BY <1>5 DEF Finish, Running
  <2>2. n \in 1..taken[d] /\ n \notin finished[d]
    BY <2>1 DEF Conservation, Runs
  <2>3. t \in Tasks
    BY <2>1, <2>2 DEF Conservation, SentBound, Tasks
  <2>4. t \notin {u \in Tasks : u[2] \in finished[u[1]]}
    BY <2>2
  <2>5. {u \in Tasks : u[2] \in finished'[u[1]]}
          = {u \in Tasks : u[2] \in finished[u[1]]} \union {t}
    <3>1. ASSUME NEW u \in Tasks
          PROVE  u[2] \in finished'[u[1]] <=> u[2] \in finished[u[1]] \/ u = t
      <4>1. PICK e \in Clients, k \in 1..MaxTasks : u = <<e, k>>
        BY DEF Tasks
      <4>2. CASE e = d
        BY <2>1, <4>1, <4>2
      <4>3. CASE e # d
        BY <2>1, <4>1, <4>3
      <4>4. QED
        BY <4>2, <4>3
    <3> DEFINE Was(u) == u[2] \in finished[u[1]]
               Now(u) == u[2] \in finished'[u[1]]
    <3>2. \A u \in Tasks : Now(u) <=> Was(u) \/ u = t
      BY <3>1
    <3> HIDE DEF Was, Now, t
    <3>3. {u \in Tasks : Now(u)} = {u \in Tasks : Was(u)} \union {t}
      BY <2>3, <3>2
    <3>4. QED
      BY <3>3 DEF Was, Now, t
  <2>6. Runner(w) = t /\ t # NoTask
    BY <2>1 DEF Running, NoTask
  <2>7. \A v \in Workers : Runner(v)' = IF v = w THEN NoTask ELSE Runner(v)
    BY <2>1 DEF Running
  <2>8. [v \in Workers |-> Runner(v)'] = [[v \in Workers |-> Runner(v)]
                                            EXCEPT ![w] = NoTask]
    BY <2>7
  <2>9. Bag!Finish(w)
    BY <2>1, <2>4, <2>5, <2>6, <2>8 DEF Bag!Finish
  <2>10. QED
    BY <2>9 DEF Bag!Next
<1>6. ASSUME NEW w \in Workers, Dispatching(w), ~ Read(w), ~ Finish(w)
      PROVE  [Bag!Next]_(Bag!vars)
  <2>1. cur[w] \notin Clients => run[w] = 0
    BY DEF IdleRunsNothing, Running
  <2>2. UNCHANGED BagVars
        /\ \A v \in Workers : cur'[v] = cur[v] \/ run[v] = 0
    BY <1>6, <2>1
       DEF Dispatching, Poll, Dispatch, Accept, AcceptFails, AcceptReset, ReadEnd,
           ReadFails, TouchDeleted, Leave, AtLoopHead, Running, streamVars, workerVars
  <2>3. QED
    BY <1>1, <2>2
<1>7. CASE UNCHANGED vars
  BY <1>1, <1>7 DEF vars
<1>8. QED
  BY <1>2, <1>3, <1>4, <1>5, <1>6, <1>7 DEF Next

\* Seen from AddTask's callers the pool is TaskBag: every step of a worker, a
\* submitter, a failure or Close is one step of the bag or none.
THEOREM PoolImplementsBag == Spec => BagSpec
<1>1. Init => Bag!Init
  BY DEF Init, Bag!Init, Running, Tasks
<1>2. Init => BagInv
  BY BaseInit, PoolAssumption
     DEF Init, BagInv, PlaceInv, IdleRunsNothing, Conservation, Running, Runs,
         SentBound
<1>3. BagInv /\ [Next]_vars => BagInv'
  BY PlaceStep, SentBoundStep DEF BagInv, PlaceInv
<1>4. BagInv /\ BagInv' /\ [Next]_vars => [Bag!Next]_(Bag!vars)
  BY BagStep
<1>5. QED
  BY <1>1, <1>2, <1>3, <1>4, PTL DEF Spec, BagSpec, Bag!Spec

=============================================================================
