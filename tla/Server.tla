------------------------------- MODULE Server ------------------------------
(***************************************************************************)
(* The life of the server program (main.cpp Main, CServer.cpp, Process.h,  *)
(* EPlayerServer.h BusinessProcess): the main process forks the log        *)
(* process and the business process, each with a socket pair kept in a     *)
(* CProcess, and unwinds when CServer::Init fails.                         *)
(*                                                                         *)
(* hold holds <<p, k, i>> when process p has pipes[i] of the CProcess of   *)
(* child k open.  fork copies the open descriptors; close and exit drop    *)
(* them.  A cleared pipes[i] is 0, which is stdin and no socket.           *)
(***************************************************************************)
EXTENDS Integers, FiniteSets

CONSTANTS MaxFaults   (* bound: system calls, database calls that fail     *)

ASSUME FaultsAssumption == MaxFaults \in Nat

VARIABLES
  pc,       (* where each process is; "none" before its fork               *)
  hold,     (* open ends of the two socket pairs                           *)
  junk,     (* whether RecvFD's uninitialised msghdr makes recvmsg fail    *)
  faults    (* calls that have failed                                      *)

vars == <<pc, hold, junk, faults>>

Kid == {"log", "biz"}
Proc == Kid \union {"main"}

Ends(p) == {h \in hold : h[1] = p}

Goto(p, l) == pc' = [pc EXCEPT ![p] = l]

Fault == faults < MaxFaults /\ faults' = faults + 1
-----------------------------------------------------------------------------
Init == /\ pc = [p \in Proc |-> IF p = "main" THEN "forklog" ELSE "none"]
        /\ hold = {}
        /\ junk \in BOOLEAN
        /\ faults = 0

\* Mutant of ForkHold: the child keeps the pipe behind the last one.
ForkHoldOffByOne(k) == hold \union {<<"main", k, 0>>, <<k, k, 2>>}
                            \union {<<k, h[2], h[3]>> : h \in Ends("main")}

\* Mutant of ForkHold: the descriptors are closed in the child.
ForkHoldAlone(k) == hold \union {<<"main", k, 0>>, <<k, k, 1>>}

\* Mutant of ForkHold: the child does not close pipes[0].
ForkHoldKeepsFirst(k) ==
  hold \union {<<"main", k, 0>>, <<k, k, 0>>, <<k, k, 1>>}
       \union {<<k, h[2], h[3]>> : h \in Ends("main")}

(* CProcess::CreateSubProcess: the child keeps pipes[1] and whatever its    *)
(* parent had open, the parent keeps pipes[0].                              *)
ForkHold(k) == hold \union {<<"main", k, 0>>, <<k, k, 1>>}
                    \union {<<k, h[2], h[3]>> : h \in Ends("main")}

CreateSubProcess(k, l, first) ==
  /\ pc' = [pc EXCEPT !["main"] = l, ![k] = first]
  /\ hold' = ForkHold(k)
  /\ UNCHANGED <<junk, faults>>

\* socketpair fails (-2), or fork does (-3) and both ends stay open.
CreateFails(k, l) ==
  /\ Fault
  /\ Goto("main", l)
  /\ hold' \in {hold, hold \union {<<"main", k, 0>>, <<"main", k, 1>>}}
  /\ UNCHANGED junk

\* ~CProcess in the main process: m_pid is 0 there, pipes[0] is closed.
Destroy(k, l) ==
  /\ Goto("main", l)
  /\ hold' = hold \ {<<"main", k, 0>>}
  /\ UNCHANGED <<junk, faults>>

Exit(p) == /\ Goto(p, "ended")
           /\ hold' = hold \ Ends(p)
           /\ UNCHANGED junk
-----------------------------------------------------------------------------
(* The main process.                                                       *)

ForkLog == /\ pc["main"] = "forklog"
           /\ \/ CreateSubProcess("log", "forkbiz", "start")
              \/ CreateFails("log", "dtorlog")

\* CServer::Init, first the child.
ForkBiz == /\ pc["main"] = "forkbiz"
           /\ \/ CreateSubProcess("biz", "listen", "setup")
              \/ CreateFails("biz", "dtorserver")

\* m_server->Init: bind and listen on port 9999.
Listen == /\ pc["main"] = "listen"
          /\ \/ Goto("main", "link") /\ UNCHANGED faults
             \/ Goto("main", "dtorserver") /\ Fault
          /\ UNCHANGED <<hold, junk>>

\* What CSocket::Link returns on a listening socket: it wants somewhere to put
\* the accepted client.
LinkResult(pClient) == IF pClient = "NULL" THEN -2 ELSE 0

\* m_server->Link() passes nothing; on 0 Init would go on to its epoll.
Link == /\ pc["main"] = "link"
        /\ Goto("main", IF LinkResult("NULL") # 0 THEN "dtorserver"
                                                  ELSE "epoll")
        /\ UNCHANGED <<hold, junk, faults>>

\* ~CServer: Close, whose SendFD(-1) always fails, then m_process.
DestroyServer == pc["main"] = "dtorserver" /\ Destroy("biz", "dtorbiz")

\* ~EPlayerServer reads m_db, which only the business process ever set: NULL by
\* chance, or a wild pointer that kills the process.
DestroyBusiness ==
  /\ pc["main"] = "dtorbiz"
  /\ \/ /\ Goto("main", "dtorlog")
        /\ UNCHANGED <<hold, junk, faults>>
     \/ Exit("main") /\ UNCHANGED faults

DestroyLog == pc["main"] = "dtorlog" /\ Destroy("log", "exit")

MainExit == pc["main"] = "exit" /\ Exit("main") /\ UNCHANGED faults
-----------------------------------------------------------------------------
(* The log process, CreateLogServer.                                       *)

LogStart == /\ pc["log"] = "start"
            /\ \/ Goto("log", "recv") /\ UNCHANGED <<hold, junk, faults>>
               \/ Exit("log") /\ Fault

\* RecvFD until fd <= 0.  The end of the stream leaves fd at 0; a recvmsg that
\* fails leaves it at 1, and the loop goes round.
LogRecv == /\ pc["log"] = "recv"
           /\ ~ junk /\ <<"log", "log", 1>> \in hold
           /\ \A p \in Proc : <<p, "log", 0>> \notin hold
           /\ Goto("log", "exit")
           /\ UNCHANGED <<hold, junk, faults>>

LogExit == pc["log"] = "exit" /\ Exit("log") /\ UNCHANGED faults
-----------------------------------------------------------------------------
(* The business process, EPlayerServer::BusinessProcess.                   *)

\* Database, table, epoll, pool and its tasks; any of them may fail.
BizSetup == /\ pc["biz"] = "setup"
            /\ \/ Goto("biz", "recv") /\ UNCHANGED <<hold, junk, faults>>
               \/ Exit("biz") /\ Fault

\* RecvSocket reads pipes[0].  recvmsg on a cleared descriptor fails with sock
\* still 0, which ends the loop.
BizRecv == /\ pc["biz"] = "recv"
           /\ <<"biz", "biz", 0>> \notin hold
           /\ Goto("biz", "exit")
           /\ UNCHANGED <<hold, junk, faults>>

BizExit == pc["biz"] = "exit" /\ Exit("biz") /\ UNCHANGED faults
-----------------------------------------------------------------------------
MainStep == \/ ForkLog \/ ForkBiz \/ Listen \/ Link \/ DestroyServer
            \/ DestroyBusiness \/ DestroyLog \/ MainExit

LogStep == LogStart \/ LogRecv \/ LogExit

BizStep == BizSetup \/ BizRecv \/ BizExit

Next == MainStep \/ LogStep \/ BizStep

Spec == Init /\ [][Next]_vars

\* The kernel schedules every process that can run.
FairSpec == Spec /\ WF_vars(MainStep) /\ WF_vars(LogStep) /\ WF_vars(BizStep)
-----------------------------------------------------------------------------
(* Properties.                                                             *)

TypeOK ==
  /\ pc \in [Proc -> {"none", "forklog", "forkbiz", "listen", "link", "epoll",
                      "dtorserver", "dtorbiz", "dtorlog", "start", "setup",
                      "recv", "exit", "ended"}]
  /\ hold \subseteq Proc \X Kid \X {0, 1}
  /\ junk \in BOOLEAN
  /\ faults \in 0..MaxFaults

\* The log process stops receiving only when nobody is left to log: the
\* business process inherits the main process's end of the log socket pair, so
\* main's death alone does not end the log (main.cpp:14-22, Process.h:44-59).
LogOutlivesWriters ==
  pc["log"] = "exit" =>
    /\ \A h \in hold : h[1] = "main" => h[2] = "biz"
    /\ pc["biz"] \in {"none", "ended"}

\* Nothing stays behind: whatever fails, every process that was forked ends,
\* unless the uninitialised msghdr keeps the log process in its loop.
EverythingEnds ==
  ~ junk ~> \A p \in Proc : pc[p] \in {"none", "ended"}

\* "The child uses the second socket" (Process.h:49): the business process
\* receives clients until the main process has closed the first one.
BusinessServesWhileMainLives ==
  pc["biz"] = "ended" => <<"main", "biz", 0>> \notin hold
=============================================================================
