---------------------------- MODULE ThreadPool -----------------------------
(***************************************************************************)
(* The thread pool of EPlayerServer (ThreadPool.h, ThreadPool.cpp).        *)
(*                                                                         *)
(* A task is handed over as an 8-byte pointer written on a local stream    *)
(* socket.  The client is a static thread_local CSocket of the template    *)
(* AddTask: one for each submitting thread and each instantiation, shared  *)
(* by all pools; here is one pool.  Every worker runs TaskDispatch: it     *)
(* waits on the shared epoll descriptor and walks the events it got.  The  *)
(* descriptors are level-triggered and BLOCKING, and an event is a         *)
(* snapshot: between epoll_wait and the accept or read it announces, any   *)
(* other worker may have consumed what was announced.                      *)
(*                                                                         *)
(* The byte stream of client c is kept as two counters: sent[c] pointers   *)
(* written, taken[c] read.  The k-th pointer of c stands for its task.     *)
(***************************************************************************)
EXTENDS Integers, FiniteSets

CONSTANTS
  Workers,    (* threads of m_pool                                         *)
  Clients,    (* thread_local clients: a thread and an AddTask<F, Args>    *)
  Leavers,    (* the clients whose thread may end while the pool is in use *)
  Closable,   (* whether the pool's owner may call Close                   *)
  ReadsFail,  (* whether Recv may fail while the client is connected       *)
  SendCap,    (* pointers a socket buffer holds before write() blocks      *)
  MaxTasks,   (* bound: tasks one client hands in                          *)
  MaxFaults   (* bound: system calls that fail                             *)

ASSUME PoolAssumption ==
  /\ {"server", "idle", "off"} \intersect (Clients \union Workers) = {}
  /\ Leavers \subseteq Clients
  /\ Closable \in BOOLEAN
  /\ ReadsFail \in BOOLEAN
  /\ SendCap \in Nat \ {0}
  /\ MaxTasks \in Nat
  /\ MaxFaults \in Nat

VARIABLES
  server,     (* m_server: "null", "listening", or "unbound" (bind failed) *)
  closing,    (* progress of Close: 0 not called ... 3 returned            *)
  cli,        (* client end: "unset" (-1), "dead" (never linked), "up",    *)
              (* "closed" (thread ended)                                   *)
  peer,       (* server end: "none", "pending" (backlog), "open",          *)
              (* "deleted"                                                 *)
  sent,       (* pointers written by each client                           *)
  taken,      (* pointers read from each client's connection               *)
  finished,   (* numbers of the tasks of each client that have returned    *)
  cur,        (* what a worker is at: a descriptor, "idle", or "off"       *)
  snap,       (* events of its last epoll_wait it has not looked at yet    *)
  run,        (* number of the task of cur[w] it runs, 0 if none           *)
  crash,      (* "none", "uaf" (a freed or reset object was used),         *)
              (* "sigpipe"                                                 *)
  faults      (* system calls that have failed                             *)

workerVars == <<cur, snap, run>>
streamVars == <<sent, taken, finished>>
vars == <<server, closing, cli, peer, sent, taken, finished, cur, snap, run,
          crash, faults>>

Fd == Clients \union {"server"}
-----------------------------------------------------------------------------
Init == /\ server = "null"
        /\ closing = 0
        /\ cli = [c \in Clients |-> "unset"]
        /\ peer = [c \in Clients |-> "none"]
        /\ sent = [c \in Clients |-> 0]
        /\ taken = [c \in Clients |-> 0]
        /\ finished = [c \in Clients |-> {}]
        /\ cur = [w \in Workers |-> "off"]
        /\ snap = [w \in Workers |-> {}]
        /\ run = [w \in Workers |-> 0]
        /\ crash = "none"
        /\ faults = 0

Queued(c) == sent[c] > taken[c]

Pending == {c \in Clients : peer[c] = "pending"}

\* Mutant of Ready: a deleted connection that was never taken off the epoll.
ReadyWithoutDel(f) ==
  IF f = "server"
  THEN server = "listening" /\ Pending # {}
  ELSE \/ peer[f] = "deleted"
       \/ peer[f] = "open" /\ (Queued(f) \/ cli[f] = "closed")

\* What epoll_wait reports as EPOLLIN: a connection to accept, bytes to read,
\* or the end of a stream whose client is gone.
Ready(f) == IF f = "server"
            THEN server = "listening" /\ Pending # {}
            ELSE peer[f] = "open" /\ (Queued(f) \/ cli[f] = "closed")

\* Mutant of ReadySet: walking every watched descriptor, not the reported ones.
WatchedSet == {f \in Fd : IF f = "server" THEN server = "listening"
                                          ELSE peer[f] = "open"}

ReadySet == {f \in Fd : Ready(f)}

Running(w) == run[w] > 0
-----------------------------------------------------------------------------
(* ThreadPool::Start: listen, create the epoll, start the threads.  Threads *)
(* that have not reached TaskDispatch yet are slow threads, so one action.  *)
(* The program starts a pool once and Close is its end: no Start follows it.*)

Start ==
  /\ crash = "none" /\ closing = 0
  /\ server = "null"
  /\ server' = "listening"
  /\ cur' = [w \in Workers |-> "idle"]
  /\ UNCHANGED <<closing, cli, peer, streamVars, snap, run, crash, faults>>

\* bind or listen fails (-4): m_server stays set, nothing listens, and Start
\* answers -1 from then on.
StartFailsToBind ==
  /\ crash = "none" /\ closing = 0
  /\ server = "null" /\ faults < MaxFaults
  /\ server' = "unbound"
  /\ faults' = faults + 1
  /\ UNCHANGED <<closing, cli, peer, streamVars, workerVars, crash>>

\* pthread_create fails for one of the threads (-8): those started before it
\* stay and serve the pool.
StartFailsAtThread ==
  /\ crash = "none" /\ closing = 0
  /\ server = "null" /\ faults < MaxFaults
  /\ \E up \in (SUBSET Workers) \ {Workers} :
       cur' = [w \in Workers |-> IF w \in up THEN "idle" ELSE "off"]
  /\ server' = "listening"
  /\ faults' = faults + 1
  /\ UNCHANGED <<closing, cli, peer, streamVars, snap, run, crash>>
-----------------------------------------------------------------------------
(* ThreadPool::AddTask, in the thread that owns client c.                  *)

\* client == -1: Init makes the socket, Link connects it.  When Link fails the
\* socket stays (AddTask answers -2, and -4 on every later call).
AddTaskConnect(c) ==
  /\ crash = "none"
  /\ cli[c] = "unset"
  /\ IF server = "listening"
     THEN /\ cli' = [cli EXCEPT ![c] = "up"]
          /\ peer' = [peer EXCEPT ![c] = "pending"]
     ELSE /\ cli' = [cli EXCEPT ![c] = "dead"]
          /\ UNCHANGED peer
  /\ UNCHANGED <<server, closing, streamVars, workerVars, crash, faults>>

\* Mutant of AddTaskSend: a write that is repeated although it succeeded.
AddTaskSendTwice(c) ==
  /\ crash = "none"
  /\ cli[c] = "up" /\ peer[c] # "deleted"
  /\ sent[c] < MaxTasks
  /\ sent[c] - taken[c] < SendCap
  /\ sent' = [sent EXCEPT ![c] = @ + 2]
  /\ UNCHANGED <<server, closing, cli, peer, taken, finished, workerVars,
                 crash, faults>>

\* Send writes the pointer; a full socket buffer blocks the caller.  Nothing
\* ignores SIGPIPE, so writing to a connection the pool dropped is fatal.
AddTaskSend(c) ==
  /\ crash = "none"
  /\ cli[c] = "up"
  /\ IF peer[c] = "deleted"
     THEN crash' = "sigpipe" /\ UNCHANGED sent
     ELSE /\ sent[c] < MaxTasks
          /\ sent[c] - taken[c] < SendCap
          /\ sent' = [sent EXCEPT ![c] = @ + 1]
          /\ UNCHANGED crash
  /\ UNCHANGED <<server, closing, cli, peer, taken, finished, workerVars,
                 faults>>

\* The submitting thread ends: its thread_local client is closed.
ThreadExit(c) ==
  /\ crash = "none"
  /\ c \in Leavers /\ cli[c] \in {"up", "dead"}
  /\ cli' = [cli EXCEPT ![c] = "closed"]
  /\ UNCHANGED <<server, closing, peer, streamVars, workerVars, crash,
                 faults>>
-----------------------------------------------------------------------------
(* ThreadPool::TaskDispatch, in worker w.                                  *)

AtLoopHead(w) == cur[w] = "idle" /\ snap[w] = {}

\* The loop condition and epoll_wait, of a millisecond at most, in one step; a
\* wait that times out changes nothing.
Poll(w) ==
  /\ crash = "none" /\ closing = 0
  /\ AtLoopHead(w)
  /\ ReadySet # {}
  /\ snap' = [snap EXCEPT ![w] = ReadySet]
  /\ UNCHANGED <<server, closing, cli, peer, streamVars, cur, run, crash,
                 faults>>

\* Next event of the snapshot.  Once Close has reset m_server the listening
\* socket's event no longer compares equal to it: the freed server object is
\* then used as a client.
Dispatch(w, f) ==
  /\ crash = "none"
  /\ cur[w] = "idle" /\ f \in snap[w]
  /\ snap' = [snap EXCEPT ![w] = @ \ {f}]
  /\ IF f = "server" /\ server = "null"
     THEN crash' = "uaf" /\ UNCHANGED cur
     ELSE cur' = [cur EXCEPT ![w] = f] /\ UNCHANGED crash
  /\ UNCHANGED <<server, closing, cli, peer, streamVars, run, faults>>

\* Mutant of Accept: the accepted connection is not added to the epoll.
AcceptWithoutAdd(w) ==
  /\ crash = "none"
  /\ cur[w] = "server" /\ server = "listening"
  /\ \E c \in Pending : peer' = [peer EXCEPT ![c] = "none"]
  /\ cur' = [cur EXCEPT ![w] = "idle"]
  /\ UNCHANGED <<server, closing, cli, streamVars, snap, run, crash, faults>>

\* m_server->Link: accept blocks until a connection is pending.  The new
\* connection joins the epoll; if that fails it is deleted.
Accept(w) ==
  /\ crash = "none"
  /\ cur[w] = "server" /\ server = "listening"
  /\ \E c \in Pending :
       \/ /\ closing = 0
          /\ peer' = [peer EXCEPT ![c] = "open"]
          /\ UNCHANGED faults
       \/ /\ closing # 0
          /\ peer' = [peer EXCEPT ![c] = "deleted"]
          /\ UNCHANGED faults
       \/ /\ closing = 0 /\ faults < MaxFaults
          /\ peer' = [peer EXCEPT ![c] = "deleted"]
          /\ faults' = faults + 1
  /\ cur' = [cur EXCEPT ![w] = "idle"]
  /\ UNCHANGED <<server, closing, cli, streamVars, snap, run, crash>>

\* Mutant of AcceptFails: no continue, the worker goes on with a NULL client.
AcceptFailsGoesOn(w) ==
  /\ crash = "none"
  /\ cur[w] = "server" /\ server = "listening"
  /\ Pending # {} /\ faults < MaxFaults
  /\ cur' = [cur EXCEPT ![w] = "null"]
  /\ faults' = faults + 1
  /\ UNCHANGED <<server, closing, cli, peer, streamVars, snap, run, crash>>

\* accept fails: on to the next event, the connection stays in the backlog.
AcceptFails(w) ==
  /\ crash = "none"
  /\ cur[w] = "server" /\ server = "listening"
  /\ Pending # {} /\ faults < MaxFaults
  /\ cur' = [cur EXCEPT ![w] = "idle"]
  /\ faults' = faults + 1
  /\ UNCHANGED <<server, closing, cli, peer, streamVars, snap, run, crash>>

\* The worker is past the comparison with m_server when Close resets it: Link is
\* called through NULL, unless the worker was inside accept and stays there.
AcceptReset(w) ==
  /\ crash = "none"
  /\ cur[w] = "server" /\ server = "null"
  /\ crash' = "uaf"
  /\ UNCHANGED <<server, closing, cli, peer, streamVars, workerVars, faults>>

\* Mutant of Read: the pointer is looked at and left in the stream.
ReadPeek(w) ==
  /\ crash = "none"
  /\ cur[w] \in Clients /\ ~Running(w)
  /\ peer[cur[w]] = "open" /\ Queued(cur[w])
  /\ run' = [run EXCEPT ![w] = taken[cur[w]] + 1]
  /\ UNCHANGED <<server, closing, cli, peer, streamVars, cur, snap, crash,
                 faults>>

\* Recv returns a pointer and the task is called; read blocks when neither
\* bytes nor the end of the stream are there.
Read(w) ==
  /\ crash = "none"
  /\ cur[w] \in Clients /\ ~Running(w)
  /\ peer[cur[w]] = "open" /\ Queued(cur[w])
  /\ taken' = [taken EXCEPT ![cur[w]] = @ + 1]
  /\ run' = [run EXCEPT ![w] = taken[cur[w]] + 1]
  /\ UNCHANGED <<server, closing, cli, peer, sent, finished, cur, snap, crash,
                 faults>>

\* Recv finds the stream ended: leave the epoll, delete the socket.
ReadEnd(w) ==
  /\ crash = "none"
  /\ cur[w] \in Clients /\ ~Running(w)
  /\ peer[cur[w]] = "open" /\ ~Queued(cur[w]) /\ cli[cur[w]] = "closed"
  /\ peer' = [peer EXCEPT ![cur[w]] = "deleted"]
  /\ cur' = [cur EXCEPT ![w] = "idle"]
  /\ UNCHANGED <<server, closing, cli, streamVars, snap, run, crash, faults>>

\* Recv fails although the client is there: it is dropped all the same.
ReadFails(w) ==
  /\ crash = "none"
  /\ cur[w] \in Clients /\ ~Running(w)
  /\ peer[cur[w]] = "open" /\ ReadsFail /\ faults < MaxFaults
  /\ peer' = [peer EXCEPT ![cur[w]] = "deleted"]
  /\ cur' = [cur EXCEPT ![w] = "idle"]
  /\ faults' = faults + 1
  /\ UNCHANGED <<server, closing, cli, streamVars, snap, run, crash>>

\* Recv, Del or delete on a socket another worker has deleted meanwhile.
TouchDeleted(w) ==
  /\ crash = "none"
  /\ cur[w] \in Clients /\ ~Running(w)
  /\ peer[cur[w]] = "deleted"
  /\ crash' = "uaf"
  /\ UNCHANGED <<server, closing, cli, peer, streamVars, workerVars, faults>>

\* (*base)() returns and the task object is deleted.
Finish(w) ==
  /\ crash = "none"
  /\ cur[w] \in Clients /\ Running(w)
  /\ finished' = [finished EXCEPT ![cur[w]] = @ \union {run[w]}]
  /\ run' = [run EXCEPT ![w] = 0]
  /\ cur' = [cur EXCEPT ![w] = "idle"]
  /\ UNCHANGED <<server, closing, cli, peer, sent, taken, snap, crash, faults>>

\* m_epoll == -1: TaskDispatch returns, and ThreadEntry looks into the Thread
\* object, which Close may have deleted (with the pool itself) by then.
Leave(w) ==
  /\ crash = "none"
  /\ AtLoopHead(w) /\ closing # 0
  /\ IF closing = 3
     THEN crash' = "uaf" /\ UNCHANGED cur
     ELSE cur' = [cur EXCEPT ![w] = "off"] /\ UNCHANGED crash
  /\ UNCHANGED <<server, closing, cli, peer, streamVars, snap, run, faults>>
-----------------------------------------------------------------------------
(* ThreadPool::Close, in the thread that owns the pool.  It waits for no   *)
(* worker, and it deletes none of the accepted connections.                *)

CloseEpoll ==
  /\ crash = "none"
  /\ Closable /\ closing = 0
  /\ closing' = 1
  /\ UNCHANGED <<server, cli, peer, streamVars, workerVars, crash, faults>>

\* Deleting m_server resets the connections nobody has accepted.
CloseServer ==
  /\ crash = "none"
  /\ closing = 1
  /\ closing' = 2
  /\ server' = "null"
  /\ peer' = [c \in Clients |->
                IF peer[c] = "pending" THEN "deleted" ELSE peer[c]]
  /\ UNCHANGED <<cli, streamVars, workerVars, crash, faults>>

CloseThreads ==
  /\ crash = "none"
  /\ closing = 2
  /\ closing' = 3
  /\ UNCHANGED <<server, cli, peer, streamVars, workerVars, crash, faults>>
-----------------------------------------------------------------------------
Dispatching(w) ==
  \/ Poll(w)
  \/ \E f \in Fd : Dispatch(w, f)
  \/ Accept(w)
  \/ AcceptFails(w)
  \/ AcceptReset(w)
  \/ Read(w)
  \/ ReadEnd(w)
  \/ ReadFails(w)
  \/ TouchDeleted(w)
  \/ Finish(w)
  \/ Leave(w)

Submitting(c) == AddTaskConnect(c) \/ AddTaskSend(c) \/ ThreadExit(c)

Owner == \/ Start \/ StartFailsToBind \/ StartFailsAtThread
         \/ CloseEpoll \/ CloseServer \/ CloseThreads

Next == \/ Owner
        \/ \E c \in Clients : Submitting(c)
        \/ \E w \in Workers : Dispatching(w)

Spec == Init /\ [][Next]_vars

\* The kernel runs every thread that can run: a worker whose next step stays
\* possible takes it.  Failures owe nobody anything, and neither do the tasks:
\* Finish, the return of the function that was handed in, is under no fairness.
WorkerStep(w) == \/ Poll(w) \/ (\E f \in Fd : Dispatch(w, f)) \/ Accept(w)
                 \/ Read(w) \/ ReadEnd(w)

FairSpec == Spec /\ \A w \in Workers : WF_vars(WorkerStep(w))
-----------------------------------------------------------------------------
(* Properties.                                                             *)

TypeOK ==
  /\ server \in {"null", "listening", "unbound"}
  /\ closing \in 0..3
  /\ cli \in [Clients -> {"unset", "dead", "up", "closed"}]
  /\ peer \in [Clients -> {"none", "pending", "open", "deleted"}]
  /\ sent \in [Clients -> Nat]
  /\ taken \in [Clients -> Nat]
  /\ finished \in [Clients -> SUBSET Nat]
  /\ cur \in [Workers -> Fd \union {"idle", "off"}]
  /\ snap \in [Workers -> SUBSET Fd]
  /\ run \in [Workers -> Nat]
  /\ crash \in {"none", "uaf", "sigpipe"}
  /\ faults \in Nat

Runs(w, c, k) == cur[w] = c /\ run[w] = k

\* A task that has been read off its connection is in exactly one place: run
\* by one worker, or finished; none is run that was not read, none is read
\* that was not written.  So no task object is called twice or deleted while
\* it runs (ThreadPool.cpp:82-87), whatever the workers, the failures and
\* Close do.
Conservation ==
  \A c \in Clients :
    /\ taken[c] <= sent[c]
    /\ \A k \in 1..taken[c] :
         k \notin finished[c] <=> \E w \in Workers : Runs(w, c, k)
    /\ \A k \in finished[c] : k \in 1..taken[c]
    /\ \A v, w \in Workers :
         /\ cur[w] = c => run[w] <= taken[c]
         /\ cur[w] = c /\ Running(w) /\ Runs(v, c, run[w]) => v = w

\* No worker uses a CSocket, a task or a Thread object that another thread has
\* freed.  It needs one of two disciplines the code never states: submitting
\* threads and pool outlive the work, or the pool has one worker and is never
\* closed.
NoUseAfterFree == crash # "uaf"

\* Nothing a worker could be waiting for inside accept() or read() is there.
Blocked(w) == cur[w] \in Fd /\ ~Running(w) /\ ~Ready(cur[w])
              /\ (cur[w] \in Clients => peer[cur[w]] # "deleted")

\* As long as the pool is open and has a worker, some worker is not stuck in a
\* blocking accept or read: with a single submitting thread the race for an
\* event leaves at least its winner free.
SomeWorkerFree ==
  (closing = 0 /\ \E w \in Workers : cur[w] # "off")
     => \E w \in Workers : cur[w] # "off" /\ ~Blocked(w)

\* What the callers of AddTask must see to, for the pool cannot: a task that is
\* running returns.  The program's own tasks are endless loops (CServer.cpp:71,
\* EPlayerServer.h:148), of which each keeps a worker for good.
TasksReturn == \A w \in Workers : Running(w) ~> ~Running(w)

\* If the tasks return, every task AddTask accepted is begun at last.
EveryTaskStarts ==
  TasksReturn => \A c \in Clients : \A k \in 1..MaxTasks :
                   (sent[c] >= k) ~> (taken[c] >= k)
-----------------------------------------------------------------------------
(* The promise of AddTask, as a refinement.                                *)

Tasks == Clients \X (1..MaxTasks)

NoTask == <<>>

Bag == INSTANCE TaskBag WITH
  submitted <- {t \in Tasks : t[2] <= sent[t[1]]},
  started   <- {t \in Tasks : t[2] <= taken[t[1]]},
  running   <- [w \in Workers |->
                  IF Running(w) THEN <<cur[w], run[w]>> ELSE NoTask],
  finished  <- {t \in Tasks : t[2] \in finished[t[1]]}

BagSpec == Bag!Spec
=============================================================================
