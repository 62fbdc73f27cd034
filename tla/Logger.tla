------------------------------- MODULE Logger ------------------------------
(***************************************************************************)
(* The log server (Logger.cpp, Logger.h) and the threads that trace to it. *)
(*                                                                         *)
(* Logger::Start runs in the log process and binds ./log/server.sock; its  *)
(* one thread, ThreadFunc, accepts connections and copies what it reads to *)
(* the log file.  Every other thread traces through a static thread_local  *)
(* CSocket, whose m_status only ever grows (0 fresh, 2 linked, 3 closed). *)
(* The writers here are the threads of one other process, so that SIGPIPE  *)
(* takes all of them.                                                      *)
(*                                                                         *)
(* Record k of writer c is its k-th call of Trace.                         *)
(***************************************************************************)
EXTENDS Integers, Sequences, FiniteSets

CONSTANTS
  Writers,    (* the threads that trace                                    *)
  Orderly,    (* whether Close waits until all of them have ended          *)
  PoolCloses, (* whether the process of the writers may close a ThreadPool *)
  MaxRecords, (* bound: calls of Trace by one writer                       *)
  MaxFaults,  (* bound: system calls that fail                             *)
  MaxCrashes  (* bound: kills of the log process                           *)

ASSUME LoggerAssumption ==
  /\ {"server", "idle", "off"} \intersect Writers = {}
  /\ Orderly \in BOOLEAN /\ PoolCloses \in BOOLEAN
  /\ MaxRecords \in Nat /\ MaxFaults \in Nat /\ MaxCrashes \in Nat

VARIABLES
  path,     (* what ./log/server.sock names: "none", "stale", "live"       *)
  log,      (* the log process: "down", "starting", "up", then through     *)
            (* Close: "noserver", "noepoll", "nofile", and "done"          *)
  cur,      (* what ThreadFunc is at: a descriptor, "idle", "off"          *)
  snap,     (* events of its last epoll_wait it has not looked at yet      *)
  data,     (* records it has read and not yet written                     *)
  hasFile,  (* whether WriteLog holds the FILE it found in m_file          *)
  status,   (* m_status of each writer's client; "ended" with its thread    *)
  conn,     (* its connection: "none", "pending", "open", "gone"           *)
  stream,   (* records on the way in it                                    *)
  traced,   (* calls of Trace made                                         *)
  written,  (* records given to fwrite, by writer, in that order           *)
  failed,   (* those of them that did not get into the file                *)
  crash,    (* "none", "uaf" in the log process, "sigpipe" in the writers' *)
  faults, crashes

threadVars == <<cur, snap, data, hasFile>>
writerVars == <<status, stream, traced>>
vars == <<path, log, cur, snap, data, hasFile, status, conn, stream, traced,
          written, failed, crash, faults, crashes>>

Fault == faults < MaxFaults /\ faults' = faults + 1

Init == /\ path = "none"
        /\ log = "down"
        /\ cur = "off" /\ snap = {} /\ data = <<>> /\ hasFile = FALSE
        /\ status = [c \in Writers |-> "fresh"]
        /\ conn = [c \in Writers |-> "none"]
        /\ stream = [c \in Writers |-> <<>>]
        /\ traced = [c \in Writers |-> 0]
        /\ written = [c \in Writers |-> <<>>]
        /\ failed = [c \in Writers |-> {}]
        /\ crash = "none"
        /\ faults = 0 /\ crashes = 0

ServerOpen == log \in {"starting", "up"}

\* The process is gone: the kernel closes what it had open.
Severed == [c \in Writers |-> IF conn[c] = "none" THEN "none" ELSE "gone"]

\* Deleting m_server unlinks the path and resets who was not accepted yet.
Refused == [c \in Writers |-> IF conn[c] = "pending" THEN "gone" ELSE conn[c]]
-----------------------------------------------------------------------------
(* Logger::Start in the log process.                                       *)

\* fopen or epoll_create fails (-2, -4): CreateLogServer gives up.
StartFailsEarly ==
  /\ crash = "none" /\ log = "down"
  /\ Fault
  /\ UNCHANGED <<path, log, threadVars, writerVars, conn, written, failed,
                 crash, crashes>>

\* Mutant of StartOnTakenPath: a failed bind that does not call Close.
StartLeavesPath ==
  /\ crash = "none" /\ log = "down" /\ path # "none"
  /\ UNCHANGED <<path, log, threadVars, writerVars, conn, written, failed,
                 crash, faults, crashes>>

\* The path exists: bind fails (-6).  CSocket::Init has stored the parameters by
\* then, so its Close unlinks the path it could not bind.
StartOnTakenPath ==
  /\ crash = "none" /\ log = "down" /\ path # "none"
  /\ path' = "none"
  /\ UNCHANGED <<log, threadVars, writerVars, conn, written, failed, crash,
                 faults, crashes>>

\* bind and listen: connections are taken from here on.
StartListens ==
  /\ crash = "none" /\ log = "down" /\ path = "none"
  /\ path' = "live"
  /\ log' = "starting"
  /\ UNCHANGED <<threadVars, writerVars, conn, written, failed, crash, faults,
                 crashes>>

StartThread ==
  /\ crash = "none" /\ log = "starting"
  /\ log' = "up"
  /\ cur' = "idle"
  /\ UNCHANGED <<path, snap, data, hasFile, writerVars, conn, written, failed,
                 crash, faults, crashes>>

\* m_epoll.Add or m_thread.Start fails (-7, -8): Close, and the process exits.
StartFailsLate ==
  /\ crash = "none" /\ log = "starting"
  /\ Fault
  /\ log' = "down" /\ path' = "none"
  /\ conn' = Severed
  /\ UNCHANGED <<threadVars, writerVars, written, failed, crash, crashes>>
-----------------------------------------------------------------------------
(* Logger::ThreadFunc, the only thread that reads.                         *)

Ready(f) == IF f = "server"
            THEN log = "up" /\ \E c \in Writers : conn[c] = "pending"
            ELSE conn[f] = "open"
                 /\ (stream[f] # <<>> \/ status[f] \in {"closed", "ended"})

ReadySet == {f \in Writers \union {"server"} : Ready(f)}

\* The loop condition and the wait, of a millisecond at most, in one step.
WaitForEpoll ==
  /\ crash = "none" /\ log = "up"
  /\ cur = "idle" /\ snap = {} /\ ReadySet # {}
  /\ snap' = ReadySet
  /\ UNCHANGED <<path, log, cur, data, hasFile, writerVars, conn, written,
                 failed, crash, faults, crashes>>

\* The next event.  After Close the server's pointer is compared with NULL and
\* the freed object is taken for a client.
Dispatch(f) ==
  /\ crash = "none"
  /\ cur = "idle" /\ f \in snap
  /\ snap' = snap \ {f}
  /\ IF f = "server" /\ log # "up"
     THEN crash' = "uaf" /\ UNCHANGED cur
     ELSE cur' = f /\ UNCHANGED crash
  /\ UNCHANGED <<path, log, data, hasFile, writerVars, conn, written, failed,
                 faults, crashes>>

\* Mutant of Accept: the connection is not added to the epoll.
AcceptWithoutAdd ==
  /\ crash = "none" /\ cur = "server" /\ log = "up"
  /\ \E c \in Writers : conn[c] = "pending"
                        /\ conn' = [conn EXCEPT ![c] = "none"]
  /\ cur' = "idle"
  /\ UNCHANGED <<path, log, snap, data, hasFile, writerVars, written, failed,
                 crash, faults, crashes>>

\* m_server->Link and m_epoll.Add; when Add fails the client is deleted.  If
\* Close came first, Link is called through NULL.
Accept ==
  /\ crash = "none" /\ cur = "server"
  /\ IF log # "up"
     THEN crash' = "uaf" /\ UNCHANGED <<conn, faults>>
     ELSE /\ \E c \in Writers :
               /\ conn[c] = "pending"
               /\ \/ conn' = [conn EXCEPT ![c] = "open"] /\ UNCHANGED faults
                  \/ conn' = [conn EXCEPT ![c] = "gone"] /\ Fault
          /\ UNCHANGED crash
  /\ cur' = "idle"
  /\ UNCHANGED <<path, log, snap, data, hasFile, writerVars, written, failed,
                 crashes>>

\* Mutant of AcceptFails: no continue, the thread goes on with a NULL client.
AcceptFailsGoesOn ==
  /\ crash = "none" /\ cur = "server" /\ log = "up"
  /\ Fault
  /\ cur' = "null"
  /\ UNCHANGED <<path, log, snap, data, hasFile, writerVars, conn, written,
                 failed, crash, crashes>>

\* Link fails: on to the next event.
AcceptFails ==
  /\ crash = "none" /\ cur = "server" /\ log = "up"
  /\ Fault
  /\ cur' = "idle"
  /\ UNCHANGED <<path, log, snap, data, hasFile, writerVars, conn, written,
                 failed, crash, crashes>>

\* Mutant of Recv: r <= 0 taken for r <= sizeof: the client is always dropped.
RecvOnce ==
  /\ crash = "none" /\ cur \in Writers /\ data = <<>> /\ stream[cur] # <<>>
  /\ data' = stream[cur]
  /\ stream' = [stream EXCEPT ![cur] = <<>>]
  /\ conn' = [conn EXCEPT ![cur] = "gone"]
  /\ UNCHANGED <<path, log, cur, snap, hasFile, status, traced, written,
                 failed, crash, faults, crashes>>

\* Mutant of Recv: what did not fit into the buffer is dropped.
RecvDropsRest ==
  /\ crash = "none" /\ cur \in Writers /\ data = <<>> /\ stream[cur] # <<>>
  /\ \E n \in 1..Len(stream[cur]) : data' = SubSeq(stream[cur], 1, n)
  /\ stream' = [stream EXCEPT ![cur] = <<>>]
  /\ UNCHANGED <<path, log, cur, snap, hasFile, status, conn, traced, written,
                 failed, crash, faults, crashes>>

\* Recv takes what has arrived, one record or many.
Recv ==
  /\ crash = "none" /\ cur \in Writers /\ data = <<>> /\ stream[cur] # <<>>
  /\ \E n \in 1..Len(stream[cur]) :
       /\ data' = SubSeq(stream[cur], 1, n)
       /\ stream' = [stream EXCEPT ![cur] = SubSeq(@, n + 1, Len(@))]
  /\ UNCHANGED <<path, log, cur, snap, hasFile, status, conn, traced, written,
                 failed, crash, faults, crashes>>

\* The end of the stream: the client is deleted.
RecvEnd ==
  /\ crash = "none" /\ cur \in Writers /\ data = <<>> /\ stream[cur] = <<>>
  /\ status[cur] \in {"closed", "ended"}
  /\ conn' = [conn EXCEPT ![cur] = "gone"]
  /\ cur' = "idle"
  /\ UNCHANGED <<path, log, snap, data, hasFile, writerVars, written, failed,
                 crash, faults, crashes>>

\* WriteLog looks at m_file; with the file closed the records are dropped.
FindFile ==
  /\ crash = "none" /\ data # <<>> /\ ~ hasFile
  /\ IF log = "nofile"
     THEN data' = <<>> /\ cur' = "idle" /\ UNCHANGED hasFile
     ELSE hasFile' = TRUE /\ UNCHANGED <<cur, data>>
  /\ UNCHANGED <<path, log, snap, writerVars, conn, written, failed, crash,
                 faults, crashes>>

\* fwrite and fflush on the FILE found before.  Nobody looks at what they answer:
\* what a failing write leaves out is lost, and the next one goes on behind it.
WriteLog ==
  /\ crash = "none" /\ hasFile
  /\ \/ /\ log = "nofile"
        /\ crash' = "uaf" /\ UNCHANGED <<written, failed, faults>>
     \/ /\ log # "nofile"
        /\ written' = [written EXCEPT ![cur] = @ \o data]
        /\ \/ UNCHANGED <<failed, faults>>
           \/ /\ \E n \in 1..Len(data) :
                   failed' = [failed EXCEPT ![cur] =
                                @ \union {data[i] : i \in n..Len(data)}]
              /\ Fault
        /\ UNCHANGED crash
  /\ data' = <<>> /\ hasFile' = FALSE /\ cur' = "idle"
  /\ UNCHANGED <<path, log, snap, writerVars, conn, crashes>>

\* The loop condition fails: the thread ends.
ThreadEnds ==
  /\ crash = "none" /\ cur = "idle" /\ snap = {}
  /\ log \in {"noserver", "noepoll", "nofile"}
  /\ cur' = "off"
  /\ UNCHANGED <<path, log, snap, data, hasFile, writerVars, conn, written,
                 failed, crash, faults, crashes>>
-----------------------------------------------------------------------------
(* Logger::Close and the end of the log process.  m_thread.Stop tries to    *)
(* join a detached thread, so nothing waits for ThreadFunc.                 *)

CloseServer ==
  /\ crash = "none" /\ log = "up"
  /\ Orderly => \A c \in Writers : status[c] = "ended"
  /\ log' = "noserver"
  /\ path' = "none"
  /\ conn' = Refused
  /\ UNCHANGED <<threadVars, writerVars, written, failed, crash, faults,
                 crashes>>

CloseEpoll ==
  /\ crash = "none" /\ log = "noserver"
  /\ log' = "noepoll"
  /\ UNCHANGED <<path, threadVars, writerVars, conn, written, failed, crash,
                 faults, crashes>>

CloseFile ==
  /\ crash = "none" /\ log = "noepoll"
  /\ log' = "nofile"
  /\ UNCHANGED <<path, threadVars, writerVars, conn, written, failed, crash,
                 faults, crashes>>

ThreadGone == cur' = "off" /\ snap' = {} /\ data' = <<>> /\ hasFile' = FALSE

Exit ==
  /\ crash = "none" /\ log = "nofile"
  /\ log' = "done"
  /\ conn' = Severed
  /\ ThreadGone
  /\ UNCHANGED <<path, writerVars, written, failed, crash, faults, crashes>>

\* The process is killed; the path stays behind.
LogKilled ==
  /\ crash = "none" /\ log \notin {"down", "done"} /\ crashes < MaxCrashes
  /\ crashes' = crashes + 1
  /\ log' = "down"
  /\ path' = IF path = "live" THEN "stale" ELSE path
  /\ conn' = Severed
  /\ ThreadGone
  /\ UNCHANGED <<writerVars, written, failed, crash, faults>>
-----------------------------------------------------------------------------
(* Logger::Trace, in writer c.                                             *)

\* Init and Link of a fresh client.  When Link fails the record is lost and the
\* client closed.
TraceLinks(c) ==
  /\ crash = "none" /\ status[c] = "fresh"
  /\ IF path = "live"
     THEN /\ status' = [status EXCEPT ![c] = "linked"]
          /\ conn' = [conn EXCEPT ![c] = "pending"]
          /\ UNCHANGED traced
     ELSE /\ status' = [status EXCEPT ![c] = "closed"]
          /\ traced' = [traced EXCEPT ![c] = @ + 1]
          /\ UNCHANGED conn
  /\ UNCHANGED <<path, log, threadVars, stream, written, failed, crash,
                 faults, crashes>>

\* Send on a linked client.  A peer that is gone means SIGPIPE: nothing ignores
\* it, so Send never returns its -2.
TraceSends(c) ==
  /\ crash = "none" /\ status[c] = "linked" /\ traced[c] < MaxRecords
  /\ traced' = [traced EXCEPT ![c] = @ + 1]
  /\ IF conn[c] = "gone"
     THEN crash' = "sigpipe" /\ UNCHANGED stream
     ELSE /\ stream' = [stream EXCEPT ![c] = Append(@, traced[c] + 1)]
          /\ UNCHANGED crash
  /\ UNCHANGED <<path, log, threadVars, status, conn, written, failed, faults,
                 crashes>>

\* Mutant of TraceSilently: a closed client that is initialised once more.
TraceRelinks(c) ==
  /\ crash = "none" /\ status[c] = "closed" /\ traced[c] < MaxRecords
  /\ path = "live"
  /\ status' = [status EXCEPT ![c] = "linked"]
  /\ conn' = [conn EXCEPT ![c] = "pending"]
  /\ UNCHANGED <<path, log, threadVars, stream, traced, written, failed,
                 crash, faults, crashes>>

\* A closed client has descriptor -1 and status 3: Init answers -1 for ever.
TraceSilently(c) ==
  /\ crash = "none" /\ status[c] = "closed" /\ traced[c] < MaxRecords
  /\ traced' = [traced EXCEPT ![c] = @ + 1]
  /\ UNCHANGED <<path, log, threadVars, status, conn, stream, written, failed,
                 crash, faults, crashes>>

\* The thread ends and its client with it.
WriterEnds(c) ==
  /\ crash = "none" /\ status[c] # "ended"
  /\ status' = [status EXCEPT ![c] = "ended"]
  /\ UNCHANGED <<path, log, threadVars, conn, stream, traced, written, failed,
                 crash, faults, crashes>>

\* ~SocketBase of a ThreadPool's m_server unlinks the log server's path too.
PoolClose ==
  /\ crash = "none" /\ PoolCloses /\ path # "none"
  /\ path' = "none"
  /\ UNCHANGED <<log, threadVars, writerVars, conn, written, failed, crash,
                 faults, crashes>>
-----------------------------------------------------------------------------
Starting == \/ StartFailsEarly \/ StartOnTakenPath \/ StartListens
            \/ StartThread \/ StartFailsLate

ThreadFunc == \/ WaitForEpoll
              \/ \E f \in Writers \union {"server"} : Dispatch(f)
              \/ Accept \/ AcceptFails \/ Recv \/ RecvEnd \/ FindFile
              \/ WriteLog \/ ThreadEnds

Closing == CloseServer \/ CloseEpoll \/ CloseFile \/ Exit \/ LogKilled

Tracing(c) == \/ TraceLinks(c) \/ TraceSends(c) \/ TraceSilently(c)
              \/ WriterEnds(c)

Next == \/ Starting \/ ThreadFunc \/ Closing \/ PoolClose
        \/ \E c \in Writers : Tracing(c)

Spec == Init /\ [][Next]_vars

\* The kernel runs the log thread and the thread inside Start.
ThreadStep == \/ WaitForEpoll
              \/ \E f \in Writers \union {"server"} : Dispatch(f)
              \/ Accept \/ Recv \/ RecvEnd \/ FindFile \/ WriteLog

StartStep == StartOnTakenPath \/ StartListens \/ StartThread

FairSpec == Spec /\ WF_vars(ThreadStep) /\ WF_vars(StartThread)

\* The same with an operator who starts a log process whenever there is none.
AttendedSpec == FairSpec /\ WF_vars(StartStep)
-----------------------------------------------------------------------------
(* What a writer sees of all this.                                         *)

\* Whether records of c can still reach the file: ThreadFunc serves what it has
\* accepted through all of Close, until the file is closed.
Linked(c) == conn[c] \in {"pending", "open"} /\ log # "nofile"

\* Its records on their way: read and not yet written, then not yet read.
Queue(c) == IF Linked(c) THEN (IF cur = c THEN data ELSE <<>>) \o stream[c]
                         ELSE <<>>

Link(c) == IF Linked(c) THEN "open"
           ELSE IF status[c] = "fresh" THEN "fresh" ELSE "lost"

Records == INSTANCE RecordLog WITH
             link  <- [c \in Writers |-> Link(c)],
             queue <- [c \in Writers |-> Queue(c)]

\* The log server gives each writer one queue to the file, and no second one
\* after the first is lost: accepting, reading in pieces, the file found and
\* lost, Close, kills and restarts are steps of RecordLog or none
\* (Logger.cpp:36-81, 112-193).
LogSpec == Records!Spec
-----------------------------------------------------------------------------
(* Properties.                                                             *)

Prefix(s) == \A i \in 1..Len(s) : s[i] = i

TypeOK ==
  /\ path \in {"none", "stale", "live"}
  /\ log \in {"down", "starting", "up", "noserver", "noepoll", "nofile", "done"}
  /\ cur \in Writers \union {"server", "idle", "off"}
  /\ snap \subseteq Writers \union {"server"}
  /\ data \in Seq(Nat)
  /\ hasFile \in BOOLEAN
  /\ status \in [Writers -> {"fresh", "linked", "closed", "ended"}]
  /\ conn \in [Writers -> {"none", "pending", "open", "gone"}]
  /\ stream \in [Writers -> Seq(Nat)]
  /\ traced \in [Writers -> Nat]
  /\ written \in [Writers -> Seq(Nat)]
  /\ failed \in [Writers -> SUBSET Nat]
  /\ crash \in {"none", "uaf", "sigpipe"}
  /\ faults \in Nat /\ crashes \in Nat

\* What is written of a thread is the beginning of what it traced, in order, with
\* no hole: through kills, restarts and failures a record is only ever lost
\* together with all that follow it, because a client that lost its server stays
\* silent (Logger.cpp:172-193, Socket.h:152), or because its own fwrite or fflush
\* failed, which nobody notices (Logger.cpp:216-217).  Of a thread that is
\* connected none is lost otherwise: what is not written is on its way.
HolesAreFailedWrites ==
  \A c \in Writers :
    /\ Prefix(written[c]) /\ Len(written[c]) <= traced[c]
    /\ failed[c] \subseteq 1..Len(written[c])
    /\ faults = 0 => failed[c] = {}
    /\ Linked(c) => /\ Len(written[c] \o Queue(c)) = traced[c]
                    /\ Prefix(written[c] \o Queue(c))

\* If the log process outlives the threads that trace, no trace ever kills its
\* process with SIGPIPE (Logger.cpp:188, Socket.h:250).
NoWriterKilled == crash # "sigpipe"

\* The records of c in the log files.
Stored(c) == {written[c][i] : i \in 1..Len(written[c])} \ failed[c]

\* A record that Trace sent reaches the disk, unless its server is closed or
\* killed first (no call fails where this is checked).
RecordReachesDisk ==
  \A c \in Writers, k \in 1..MaxRecords :
    (log = "up" /\ k \in {stream[c][i] : i \in 1..Len(stream[c])})
      ~> (log # "up" \/ k \in Stored(c))

\* A path left behind by a killed log process costs one failed start, not all:
\* whoever keeps starting the log process gets one that listens.
ServerComesBack == (log = "down") ~> (log = "up" \/ crash # "none")
=============================================================================
