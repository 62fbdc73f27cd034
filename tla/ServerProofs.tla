---------------------------- MODULE ServerProofs ----------------------------
(***************************************************************************)
(* What holds of the processes of the server however many calls fail.      *)
(*                                                                         *)
(* That the log process ends last is a matter of who still has the main    *)
(* process's end of its socket pair; HoldInv says who does at each place.  *)
(***************************************************************************)
EXTENDS Server, TLAPS

\* The places of each process, and what can only come before what.
PlaceInv ==
  /\ pc["main"] \in {"forklog", "forkbiz", "listen", "link", "dtorserver",
                     "dtorbiz", "dtorlog", "exit", "ended"}
  /\ pc["log"] \in {"none", "start", "recv", "exit", "ended"}
  /\ pc["biz"] \in {"none", "setup", "recv", "exit", "ended"}
  /\ pc["main"] = "forklog" => pc["log"] = "none" /\ hold = {}
  /\ pc["main"] \in {"forklog", "forkbiz"} => pc["biz"] = "none"

\* Who has an end of the log process's pair.
HoldInv ==
  /\ pc["log"] # "none" => <<"main", "log", 1>> \notin hold
  /\ pc["main"] \in {"forkbiz", "listen", "link", "dtorserver", "dtorbiz"}
       => <<"main", "log", 0>> \in hold
  /\ pc["biz"] \notin {"none", "ended"} => <<"biz", "log", 0>> \in hold
  /\ pc["log"] = "exit" => \A p \in Proc : <<p, "log", 0>> \notin hold

IInv == TypeOK /\ PlaceInv /\ HoldInv

\* The ends a child gets are ends of its own.
LEMMA ForkHoldIn ==
  ASSUME TypeOK, NEW k \in Kid
  PROVE  ForkHold(k) \subseteq Proc \X Kid \X {0, 1}
<1>1. \A h \in Ends("main") :
        h[2] \in Kid /\ h[3] \in {0, 1} /\ h = <<h[1], h[2], h[3]>>
  BY DEF TypeOK, Ends
<1> QED
  BY <1>1 DEF ForkHold, TypeOK, Proc, Kid

\* What is in the hold of a fork: what was, the two new ends, and the parent's.
LEMMA ForkHoldHas ==
  ASSUME TypeOK, NEW k \in Kid, NEW p \in Proc, NEW j \in Kid, NEW i \in {0, 1}
  PROVE  <<p, j, i>> \in ForkHold(k) <=>
           \/ <<p, j, i>> \in hold
           \/ p = "main" /\ j = k /\ i = 0
           \/ p = k /\ j = k /\ i = 1
           \/ p = k /\ <<"main", j, i>> \in hold
<1>1. \A h \in Ends("main") :
        h \in hold /\ h = <<"main", h[2], h[3]>>
  BY DEF TypeOK, Ends
<1>2. <<"main", j, i>> \in hold => <<"main", j, i>> \in Ends("main")
  BY DEF Ends
<1>3. <<p, j, i>> \in {<<k, h[2], h[3]>> : h \in Ends("main")}
        <=> p = k /\ <<"main", j, i>> \in hold
  <2>1. ASSUME <<p, j, i>> \in {<<k, h[2], h[3]>> : h \in Ends("main")}
        PROVE  p = k /\ <<"main", j, i>> \in hold
    <3>1. PICK h \in Ends("main") : <<p, j, i>> = <<k, h[2], h[3]>>
      BY <2>1
    <3> QED
      BY <3>1, <1>1
  <2>2. ASSUME p = k, <<"main", j, i>> \in hold
        PROVE  <<p, j, i>> \in {<<k, h[2], h[3]>> : h \in Ends("main")}
    BY <2>2, <1>2
  <2> QED
    BY <2>1, <2>2
<1> QED
  BY <1>3 DEF ForkHold, Proc, Kid

\* A fork keeps what every other process has.
LEMMA ForkHoldKeeps ==
  ASSUME TypeOK, NEW k \in Kid
  PROVE  hold \subseteq ForkHold(k)
BY DEF ForkHold

LEMMA InitIInv == Init => IInv
BY FaultsAssumption DEF Init, IInv, TypeOK, PlaceInv, HoldInv, Proc, Kid

LEMMA MainIInv == IInv /\ MainStep => IInv'
<1> SUFFICES ASSUME IInv, MainStep PROVE IInv'
  OBVIOUS
<1>0. TypeOK /\ PlaceInv /\ HoldInv /\ MaxFaults \in Nat
  BY FaultsAssumption DEF IInv
<1>1. CASE ForkLog
  <2>0. pc["main"] = "forklog" /\ pc["log"] = "none" /\ pc["biz"] = "none"
        /\ hold = {}
    BY <1>0, <1>1 DEF ForkLog, PlaceInv
  <2>1. CASE CreateSubProcess("log", "forkbiz", "start")
    <3>1. /\ pc' = [pc EXCEPT !["main"] = "forkbiz", !["log"] = "start"]
          /\ hold' = ForkHold("log") /\ UNCHANGED <<junk, faults>>
      BY <2>1 DEF CreateSubProcess
    <3>2. /\ pc'["main"] = "forkbiz" /\ pc'["log"] = "start"
          /\ pc'["biz"] = "none"
      BY <1>0, <2>0, <3>1 DEF TypeOK, Proc, Kid
    <3>3. TypeOK'
      BY <1>0, <3>1, ForkHoldIn DEF TypeOK, Kid, Proc
    <3>4. PlaceInv'
      BY <3>2 DEF PlaceInv
    <3>5. <<"main", "log", 1>> \notin hold' /\ <<"main", "log", 0>> \in hold'
      BY <1>0, <2>0, <3>1, ForkHoldHas DEF Proc, Kid
    <3>6. HoldInv'
      BY <3>2, <3>5 DEF HoldInv
    <3> QED
      BY <3>3, <3>4, <3>6 DEF IInv
  <2>2. CASE CreateFails("log", "dtorlog")
    <3>1. /\ pc' = [pc EXCEPT !["main"] = "dtorlog"]
          /\ hold' \in {hold, hold \union {<<"main", "log", 0>>,
                                           <<"main", "log", 1>>}}
          /\ UNCHANGED junk /\ faults < MaxFaults /\ faults' = faults + 1
      BY <2>2 DEF CreateFails, Goto, Fault
    <3>2. /\ pc'["main"] = "dtorlog" /\ pc'["log"] = "none"
          /\ pc'["biz"] = "none"
      BY <1>0, <2>0, <3>1 DEF TypeOK, Proc, Kid
    <3>3. TypeOK'
      BY <1>0, <3>1 DEF TypeOK, Kid, Proc
    <3> QED
      BY <3>2, <3>3 DEF IInv, PlaceInv, HoldInv
  <2> QED
    BY <1>1, <2>1, <2>2 DEF ForkLog
<1>2. CASE ForkBiz
  <2>0. /\ pc["main"] = "forkbiz" /\ pc["biz"] = "none"
        /\ <<"main", "log", 0>> \in hold /\ pc["log"] # "exit"
    BY <1>0, <1>2 DEF ForkBiz, PlaceInv, HoldInv, Proc
  <2>1. CASE CreateSubProcess("biz", "listen", "setup")
    <3>1. /\ pc' = [pc EXCEPT !["main"] = "listen", !["biz"] = "setup"]
          /\ hold' = ForkHold("biz") /\ UNCHANGED <<junk, faults>>
      BY <2>1 DEF CreateSubProcess
    <3>2. /\ pc'["main"] = "listen" /\ pc'["log"] = pc["log"]
          /\ pc'["biz"] = "setup"
      BY <1>0, <2>0, <3>1 DEF TypeOK, Proc, Kid
    <3>3. TypeOK'
      BY <1>0, <3>1, ForkHoldIn DEF TypeOK, Kid, Proc
    <3>4. PlaceInv'
      BY <1>0, <3>2 DEF PlaceInv
    <3>5. /\ <<"main", "log", 0>> \in hold' /\ <<"biz", "log", 0>> \in hold'
          /\ <<"main", "log", 1>> \in hold' => <<"main", "log", 1>> \in hold
      BY <1>0, <2>0, <3>1, ForkHoldHas DEF Proc, Kid
    <3>6. HoldInv'
      BY <1>0, <2>0, <3>2, <3>5 DEF HoldInv
    <3> QED
      BY <3>3, <3>4, <3>6 DEF IInv
  <2>2. CASE CreateFails("biz", "dtorserver")
    <3>1. /\ pc' = [pc EXCEPT !["main"] = "dtorserver"]
          /\ hold' \in {hold, hold \union {<<"main", "biz", 0>>,
                                           <<"main", "biz", 1>>}}
          /\ UNCHANGED junk /\ faults < MaxFaults /\ faults' = faults + 1
      BY <2>2 DEF CreateFails, Goto, Fault
    <3>2. /\ pc'["main"] = "dtorserver" /\ pc'["log"] = pc["log"]
          /\ pc'["biz"] = "none"
      BY <1>0, <2>0, <3>1 DEF TypeOK, Proc, Kid
    <3>3. TypeOK'
      BY <1>0, <3>1 DEF TypeOK, Kid, Proc
    <3>4. \A p \in Proc, i \in {0, 1} :
            <<p, "log", i>> \in hold' <=> <<p, "log", i>> \in hold
      BY <3>1
    <3>5. PlaceInv'
      BY <1>0, <3>2 DEF PlaceInv
    <3>6. HoldInv'
      BY <1>0, <2>0, <3>2, <3>4 DEF HoldInv, Proc, Kid
    <3> QED
      BY <3>3, <3>5, <3>6 DEF IInv
  <2> QED
    BY <1>2, <2>1, <2>2 DEF ForkBiz
<1>3. CASE Listen \/ Link
  <2>1. /\ pc["main"] \in {"listen", "link"}
        /\ pc' \in {[pc EXCEPT !["main"] = "link"],
                    [pc EXCEPT !["main"] = "dtorserver"]}
        /\ UNCHANGED <<hold, junk>> /\ faults' \in 0..MaxFaults
    BY <1>0, <1>3 DEF Listen, Link, LinkResult, Goto, Fault, TypeOK
  <2>2. /\ pc'["main"] \in {"link", "dtorserver"}
        /\ pc'["log"] = pc["log"] /\ pc'["biz"] = pc["biz"]
    BY <1>0, <2>1 DEF TypeOK, Proc, Kid
  <2>3. TypeOK'
    BY <1>0, <2>1 DEF TypeOK, Proc, Kid
  <2> QED
    BY <1>0, <2>1, <2>2, <2>3 DEF IInv, PlaceInv, HoldInv
<1>4. CASE DestroyServer \/ DestroyBusiness \/ DestroyLog \/ MainExit
  <2>1. /\ pc["main"] \in {"dtorserver", "dtorbiz", "dtorlog", "exit"}
        /\ \E l \in {"dtorbiz", "dtorlog", "exit", "ended"} :
             /\ pc' = [pc EXCEPT !["main"] = l]
             /\ l = "dtorbiz" => hold' = hold \ {<<"main", "biz", 0>>}
        /\ hold' \subseteq hold
        /\ \A h \in hold \ hold' : h[1] = "main"
        /\ UNCHANGED <<junk, faults>>
    BY <1>4 DEF DestroyServer, DestroyBusiness, DestroyLog, MainExit, Destroy,
       Exit, Goto, Ends
  <2>2. /\ pc'["main"] \in {"dtorbiz", "dtorlog", "exit", "ended"}
        /\ pc'["main"] = "dtorbiz" => hold' = hold \ {<<"main", "biz", 0>>}
        /\ pc'["log"] = pc["log"] /\ pc'["biz"] = pc["biz"]
    BY <1>0, <2>1 DEF TypeOK, Proc, Kid
  <2>3. TypeOK'
    BY <1>0, <2>1 DEF TypeOK, Proc, Kid
  <2>4. pc["main"] = "dtorserver" => <<"main", "log", 0>> \in hold
    BY <1>0 DEF HoldInv
  <2>5. pc'["main"] = "dtorbiz" => pc["main"] = "dtorserver"
    BY <1>0, <1>4, <2>2 DEF DestroyServer, DestroyBusiness, DestroyLog,
       MainExit, Destroy, Exit, Goto, TypeOK, Proc
  <2>6. <<"biz", "log", 0>> \in hold => <<"biz", "log", 0>> \in hold'
    BY <2>1
  <2>7. PlaceInv'
    BY <1>0, <2>1, <2>2 DEF PlaceInv
  <2>8. HoldInv'
    BY <1>0, <2>1, <2>2, <2>4, <2>5, <2>6 DEF HoldInv
  <2> QED
    BY <2>3, <2>7, <2>8 DEF IInv
<1> QED
  BY <1>1, <1>2, <1>3, <1>4 DEF MainStep

LEMMA LogIInv == IInv /\ LogStep => IInv'
<1> SUFFICES ASSUME IInv, LogStep PROVE IInv'
  OBVIOUS
<1>0. TypeOK /\ PlaceInv /\ HoldInv /\ MaxFaults \in Nat
  BY FaultsAssumption DEF IInv
<1>1. /\ pc["log"] \in {"start", "recv", "exit"}
      /\ \E l \in {"recv", "exit", "ended"} : pc' = [pc EXCEPT !["log"] = l]
      /\ hold' = hold \/ hold' = hold \ Ends("log")
      /\ UNCHANGED junk /\ faults' \in 0..MaxFaults
  BY <1>0 DEF LogStep, LogStart, LogRecv, LogExit, Exit, Goto, Fault, TypeOK
<1>2. /\ pc'["log"] \in {"recv", "exit", "ended"}
      /\ pc'["main"] = pc["main"] /\ pc'["biz"] = pc["biz"]
  BY <1>0, <1>1 DEF TypeOK, Proc, Kid
<1>3. TypeOK'
  BY <1>0, <1>1 DEF TypeOK, Proc, Kid
<1>4. /\ hold' \subseteq hold
      /\ \A p \in {"main", "biz"} :
           <<p, "log", 0>> \in hold => <<p, "log", 0>> \in hold'
  BY <1>1 DEF Ends
<1>5. pc'["log"] = "exit" => \A p \in Proc : <<p, "log", 0>> \notin hold
  <2>1. SUFFICES ASSUME pc'["log"] = "exit" PROVE LogRecv
    BY DEF LogRecv
  <2>2. ~ LogStart /\ ~ LogExit
    BY <1>0, <2>1 DEF LogStart, LogExit, Exit, Goto, TypeOK, Proc, Kid
  <2> QED
    BY <2>2 DEF LogStep
<1>6. PlaceInv'
  BY <1>0, <1>1, <1>2 DEF PlaceInv
<1>7. HoldInv'
  BY <1>0, <1>1, <1>2, <1>4, <1>5 DEF HoldInv
<1> QED
  BY <1>3, <1>6, <1>7 DEF IInv

LEMMA BizIInv == IInv /\ BizStep => IInv'
<1> SUFFICES ASSUME IInv, BizStep PROVE IInv'
  OBVIOUS
<1>0. TypeOK /\ PlaceInv /\ HoldInv /\ MaxFaults \in Nat
  BY FaultsAssumption DEF IInv
<1>1. /\ pc["biz"] \in {"setup", "recv", "exit"}
      /\ \/ /\ \E l \in {"recv", "exit"} : pc' = [pc EXCEPT !["biz"] = l]
            /\ UNCHANGED hold
         \/ /\ pc' = [pc EXCEPT !["biz"] = "ended"]
            /\ hold' = hold \ Ends("biz")
      /\ UNCHANGED junk /\ faults' \in 0..MaxFaults
  BY <1>0 DEF BizStep, BizSetup, BizRecv, BizExit, Exit, Goto, Fault, TypeOK
<1>2. /\ pc'["biz"] \in {"recv", "exit", "ended"}
      /\ pc'["biz"] # "ended" => UNCHANGED hold
      /\ pc'["main"] = pc["main"] /\ pc'["log"] = pc["log"]
  BY <1>0, <1>1 DEF TypeOK, Proc, Kid
<1>3. TypeOK'
  BY <1>0, <1>1 DEF TypeOK, Proc, Kid
<1>4. /\ hold' \subseteq hold
      /\ <<"main", "log", 0>> \in hold => <<"main", "log", 0>> \in hold'
  BY <1>1 DEF Ends
<1>5. PlaceInv'
  BY <1>0, <1>1, <1>2, <1>4 DEF PlaceInv
<1>6. HoldInv'
  BY <1>0, <1>1, <1>2, <1>4 DEF HoldInv
<1> QED
  BY <1>3, <1>5, <1>6 DEF IInv

LEMMA NextIInv == IInv /\ [Next]_vars => IInv'
<1>1. IInv /\ UNCHANGED vars => IInv'
  BY DEF vars, IInv, TypeOK, PlaceInv, HoldInv
<1> QED
  BY <1>1, MainIInv, LogIInv, BizIInv DEF Next

\* The strengthening of both properties is an invariant, for any number of calls
\* that fail (main.cpp, CServer.cpp, Process.h).
THEOREM ServerInvariant == Spec => []IInv
<1> QED
  BY InitIInv, NextIInv, PTL DEF Spec

\* The types are kept (main.cpp:163-178, CServer.cpp:9-65, Process.h:39-63).
THEOREM ServerTypes == Spec => []TypeOK
<1>1. IInv => TypeOK
  BY DEF IInv
<1> QED
  BY <1>1, ServerInvariant, PTL

\* The log process leaves its loop only when main holds nothing of its pair and the
\* business process, which has inherited main's end, is gone or was never made
\* (main.cpp:14-22, Process.h:44-59).
THEOREM LogIsLast == Spec => []LogOutlivesWriters
<1>1. IInv => LogOutlivesWriters
  <2> SUFFICES ASSUME IInv, pc["log"] = "exit"
               PROVE  /\ \A h \in hold : h[1] = "main" => h[2] = "biz"
                      /\ pc["biz"] \in {"none", "ended"}
    BY DEF LogOutlivesWriters
  <2>1. /\ <<"main", "log", 0>> \notin hold /\ <<"main", "log", 1>> \notin hold
        /\ <<"biz", "log", 0>> \notin hold
    BY DEF IInv, HoldInv, Proc, Kid
  <2>2. \A h \in hold : h[1] = "main" => h[2] = "biz"
    <3> SUFFICES ASSUME NEW h \in hold, h[1] = "main", h[2] # "biz"
                 PROVE  FALSE
      OBVIOUS
    <3>1. h \in Proc \X Kid \X {0, 1}
      BY DEF IInv, TypeOK
    <3>2. h = <<"main", "log", 0>> \/ h = <<"main", "log", 1>>
      BY <3>1 DEF Kid
    <3> QED
      BY <2>1, <3>2
  <2>3. pc["biz"] \in {"none", "ended"}
    BY <2>1 DEF IInv, HoldInv
  <2> QED
    BY <2>2, <2>3
<1> QED
  BY <1>1, ServerInvariant, PTL
-----------------------------------------------------------------------------
(* That everything ends, step by step.                                      *)

\* Whose ends are open: those of processes that are alive, the log process's own
\* while it may still read, and never the end a child has closed.
EndsInv ==
  /\ \A h \in hold : pc[h[1]] \notin {"none", "ended"}
  /\ pc["log"] \in {"start", "recv"} => <<"log", "log", 1>> \in hold
  /\ <<"log", "log", 0>> \notin hold
  /\ <<"biz", "biz", 0>> \notin hold
  /\ pc["main"] = "forkbiz" => <<"main", "biz", 0>> \notin hold

\* When each process has a step: the guards of MainStep, LogStep and BizStep.
MainReady == pc["main"] # "ended"

LogReady ==
  \/ pc["log"] \in {"start", "exit"}
  \/ /\ pc["log"] = "recv" /\ ~ junk /\ <<"log", "log", 1>> \in hold
     /\ \A p \in Proc : <<p, "log", 0>> \notin hold

BizReady == \/ pc["biz"] \in {"setup", "exit"}
            \/ pc["biz"] = "recv" /\ <<"biz", "biz", 0>> \notin hold

\* Nobody waits for somebody who waits: either a process can go on, or all that
\* were forked have ended, or the log process is in the loop that only the
\* uninitialised msghdr explains.
NeverStuck == \/ MainReady \/ LogReady \/ BizReady
              \/ \A p \in Proc : pc[p] \in {"none", "ended"}
              \/ junk /\ pc["log"] = "recv"

\* How many steps each process has before it, at most.
Left(p) == CASE pc[p] = "forklog" -> 8
             [] pc[p] = "forkbiz" -> 7
             [] pc[p] = "listen" -> 6
             [] pc[p] = "link" -> 5
             [] pc[p] \in {"dtorserver", "none"} -> 4
             [] pc[p] \in {"dtorbiz", "start", "setup"} -> 3
             [] pc[p] \in {"dtorlog", "recv"} -> 2
             [] pc[p] = "exit" -> 1
             [] OTHER -> 0

StepsLeft == Left("main") + Left("log") + Left("biz")

LEMMA InitEnds == Init => EndsInv
BY DEF Init, EndsInv, Proc, Kid

LEMMA NextEnds == IInv /\ EndsInv /\ [Next]_vars => EndsInv'
<1> SUFFICES ASSUME IInv, EndsInv, [Next]_vars PROVE EndsInv'
  OBVIOUS
<1>0. TypeOK /\ PlaceInv /\ HoldInv
  BY DEF IInv
<1>1. CASE ForkLog
  <2>0. pc["main"] = "forklog" /\ pc["log"] = "none" /\ hold = {}
    BY <1>0, <1>1 DEF ForkLog, PlaceInv
  <2>1. CASE CreateSubProcess("log", "forkbiz", "start")
    <3>1. /\ pc'["main"] = "forkbiz" /\ pc'["log"] = "start"
          /\ hold' = ForkHold("log")
      BY <1>0, <2>1 DEF CreateSubProcess, TypeOK, Proc, Kid
    <3>2. hold' = {<<"main", "log", 0>>, <<"log", "log", 1>>}
      BY <2>0, <3>1 DEF ForkHold, Ends
    <3> QED
      BY <3>1, <3>2 DEF EndsInv
  <2>2. CASE CreateFails("log", "dtorlog")
    <3>1. /\ pc'["main"] = "dtorlog" /\ pc'["log"] = "none"
          /\ hold' \subseteq {<<"main", "log", 0>>, <<"main", "log", 1>>}
      BY <1>0, <2>0, <2>2 DEF CreateFails, Goto, TypeOK, Proc, Kid
    <3> QED
      BY <3>1 DEF EndsInv
  <2> QED
    BY <1>1, <2>1, <2>2 DEF ForkLog
<1>2. CASE ForkBiz
  <2>0. pc["main"] = "forkbiz" /\ pc["biz"] = "none"
    BY <1>0, <1>2 DEF ForkBiz, PlaceInv
  <2>1. CASE CreateSubProcess("biz", "listen", "setup")
    <3>1. /\ pc'["main"] = "listen" /\ pc'["biz"] = "setup"
          /\ pc'["log"] = pc["log"] /\ hold' = ForkHold("biz")
      BY <1>0, <2>1 DEF CreateSubProcess, TypeOK, Proc, Kid
    <3>2. ASSUME NEW h \in hold' PROVE pc'[h[1]] \notin {"none", "ended"}
      <4>1. PICK p \in Proc, j \in Kid, i \in {0, 1} : h = <<p, j, i>>
        BY <1>0, <3>1, ForkHoldIn DEF Kid
      <4>2. p \in {"main", "biz"} \/ h \in hold
        BY <1>0, <3>1, <4>1, ForkHoldHas DEF Kid
      <4>3. p = "log" => pc["log"] \notin {"none", "ended"}
        BY <4>1, <4>2 DEF EndsInv
      <4> QED
        BY <3>1, <4>1, <4>3 DEF Proc, Kid
    <3>3. pc["log"] \in {"start", "recv"} => <<"log", "log", 1>> \in hold'
      BY <1>0, <3>1, ForkHoldKeeps DEF EndsInv, Kid
    <3>4. <<"log", "log", 0>> \notin hold' /\ <<"biz", "biz", 0>> \notin hold'
      BY <1>0, <2>0, <3>1, ForkHoldHas DEF EndsInv, Proc, Kid
    <3> QED
      BY <3>1, <3>2, <3>3, <3>4 DEF EndsInv
  <2>2. CASE CreateFails("biz", "dtorserver")
    <3>1. /\ pc'["main"] = "dtorserver" /\ pc'["biz"] = pc["biz"]
          /\ pc'["log"] = pc["log"]
          /\ hold' \in {hold, hold \union {<<"main", "biz", 0>>,
                                           <<"main", "biz", 1>>}}
      BY <1>0, <2>2 DEF CreateFails, Goto, TypeOK, Proc, Kid
    <3>2. ASSUME NEW h \in hold' PROVE pc'[h[1]] \notin {"none", "ended"}
      <4>1. h[1] = "main" \/ h \in hold
        BY <3>1
      <4>2. h \in hold => h[1] \in Proc
        BY <1>0 DEF TypeOK
      <4> QED
        BY <3>1, <4>1, <4>2 DEF EndsInv, Proc, Kid
    <3> QED
      BY <3>1, <3>2 DEF EndsInv
  <2> QED
    BY <1>2, <2>1, <2>2 DEF ForkBiz
\* Every other step goes on, and closes ends or none; the process that ends
\* closes its own, and the log process no sooner.
<1>3. ASSUME NEW p \in Proc, NEW l \in {"link", "dtorserver", "dtorbiz",
                                        "dtorlog", "recv", "exit", "ended"},
             pc' = [pc EXCEPT ![p] = l], hold' \subseteq hold,
             l = "ended" => hold' = hold \ Ends(p),
             \A h \in hold \ hold' : h[1] = p,
             p = "log" /\ l = "recv" => pc["log"] = "start" /\ hold' = hold
      PROVE  EndsInv'
  <2>1. pc'[p] = l /\ \A q \in Proc \ {p} : pc'[q] = pc[q]
    BY <1>0, <1>3 DEF TypeOK
  <2>2. ASSUME NEW h \in hold' PROVE pc'[h[1]] \notin {"none", "ended"}
    <3>1. h \in hold /\ h[1] \in Proc
      BY <1>0, <1>3 DEF TypeOK
    <3>2. CASE h[1] = p
      BY <1>3, <2>1, <3>1, <3>2 DEF Ends
    <3>3. CASE h[1] # p
      BY <2>1, <3>1, <3>3 DEF EndsInv
    <3> QED
      BY <3>2, <3>3
  <2>3. pc'["log"] \in {"start", "recv"} => <<"log", "log", 1>> \in hold'
    <3>1. CASE p = "log"
      BY <1>3, <2>1, <3>1 DEF EndsInv
    <3>2. CASE p # "log"
      <4>1. pc'["log"] = pc["log"]
        BY <2>1, <3>2 DEF Proc, Kid
      <4> QED
        BY <1>3, <3>2, <4>1 DEF EndsInv
    <3> QED
      BY <3>1, <3>2
  <2>4. pc'["main"] = "forkbiz" => pc["main"] = "forkbiz"
    BY <2>1 DEF Proc
  <2> QED
    BY <1>3, <2>2, <2>3, <2>4 DEF EndsInv
<1>4. CASE Listen \/ Link \/ DestroyServer \/ DestroyBusiness \/ DestroyLog
           \/ MainExit
  <2>1. \E l \in {"link", "dtorserver", "dtorbiz", "dtorlog", "exit", "ended"} :
          /\ pc' = [pc EXCEPT !["main"] = l]
          /\ l = "ended" => hold' = hold \ Ends("main")
          /\ hold' \subseteq hold
          /\ \A h \in hold \ hold' : h[1] = "main"
    BY <1>4 DEF Listen, Link, LinkResult, DestroyServer, DestroyBusiness,
       DestroyLog, MainExit, Destroy, Exit, Goto, Ends
  <2> QED
    BY <2>1, <1>3 DEF Proc
<1>5. CASE LogStep
  <2>1. \E l \in {"recv", "exit", "ended"} :
          /\ pc' = [pc EXCEPT !["log"] = l]
          /\ l = "ended" => hold' = hold \ Ends("log")
          /\ l # "ended" => hold' = hold
          /\ l = "recv" => pc["log"] = "start"
    BY <1>5 DEF LogStep, LogStart, LogRecv, LogExit, Exit, Goto
  <2> QED
    BY <2>1, <1>3 DEF Proc, Kid, Ends
<1>6. CASE BizStep
  <2>1. \E l \in {"recv", "exit", "ended"} :
          /\ pc' = [pc EXCEPT !["biz"] = l]
          /\ l = "ended" => hold' = hold \ Ends("biz")
          /\ l # "ended" => hold' = hold
    BY <1>6 DEF BizStep, BizSetup, BizRecv, BizExit, Exit, Goto
  <2> QED
    BY <2>1, <1>3 DEF Proc, Kid, Ends
<1>7. CASE UNCHANGED vars
  BY <1>7 DEF vars, EndsInv
<1> QED
  BY <1>1, <1>2, <1>4, <1>5, <1>6, <1>7 DEF Next, MainStep

LEMMA ServerEnds == Spec => []EndsInv
BY InitEnds, NextEnds, ServerInvariant, PTL DEF Spec

\* No process waits for another that waits for it, however many calls fail: as
\* long as a process that was forked has not ended, some process has its next
\* step, but for a log process whose recvmsg never succeeds (main.cpp:163-178,
\* Process.h:92-118, CServer.cpp:9-65).
THEOREM ServerNeverStuck == Spec => []NeverStuck
<1>1. IInv /\ EndsInv => NeverStuck
  <2> SUFFICES ASSUME IInv, EndsInv, pc["main"] = "ended", ~ LogReady,
                      ~ BizReady, ~ (junk /\ pc["log"] = "recv"),
                      NEW p \in Proc
               PROVE  pc[p] \in {"none", "ended"}
    BY DEF NeverStuck, MainReady
  <2>1. pc["biz"] \in {"none", "ended"}
    BY DEF IInv, PlaceInv, EndsInv, BizReady
  <2>2. \A q \in Proc : <<q, "log", 0>> \notin hold
    BY <2>1 DEF EndsInv, Proc, Kid
  <2>3. pc["log"] \in {"none", "ended"}
    BY <2>2 DEF IInv, TypeOK, PlaceInv, EndsInv, LogReady
  <2> QED
    BY <2>1, <2>3 DEF Proc, Kid
<1> QED
  BY <1>1, ServerInvariant, ServerEnds, PTL

\* The whole program takes 16 steps at most, forks, failures and destructors
\* included: each one brings its process nearer to its end, and no step of one
\* process takes another back (main.cpp:163-178, CServer.cpp:9-65,
\* Process.h:14-63).
THEOREM StepsRunOut == Spec => /\ StepsLeft <= 16
                               /\ [](StepsLeft \in Nat)
                               /\ [][StepsLeft' < StepsLeft]_vars
<1>1. Init => StepsLeft <= 16
  BY DEF Init, StepsLeft, Left, Proc, Kid
<1>2. IInv /\ [Next]_vars => [StepsLeft' < StepsLeft]_vars
  <2> SUFFICES ASSUME IInv, Next PROVE StepsLeft' < StepsLeft
    OBVIOUS
  <2>0. TypeOK /\ PlaceInv
    BY DEF IInv
  <2>1. \A p \in Proc : Left(p) \in Nat
    BY DEF Left
  <2>2. \A p \in Proc : Left(p)' \in Nat
    BY DEF Left
  <2>3. ASSUME NEW p \in Proc, Left(p)' < Left(p),
               \A q \in Proc \ {p} : Left(q)' <= Left(q)
        PROVE  StepsLeft' < StepsLeft
    BY <2>1, <2>2, <2>3 DEF StepsLeft, Proc, Kid
  <2>4. CASE MainStep
    <3>0. /\ pc["main"] = "forklog" => pc["log"] = "none"
          /\ pc["main"] = "forkbiz" => pc["biz"] = "none"
      BY <2>0 DEF PlaceInv
    <3>1. /\ \/ pc["main"] = "forklog" /\ pc'["main"] \in {"forkbiz", "dtorlog"}
             \/ pc["main"] = "forkbiz" /\ pc'["main"] \in {"listen", "dtorserver"}
             \/ pc["main"] = "listen" /\ pc'["main"] \in {"link", "dtorserver"}
             \/ pc["main"] = "link" /\ pc'["main"] = "dtorserver"
             \/ pc["main"] = "dtorserver" /\ pc'["main"] = "dtorbiz"
             \/ pc["main"] = "dtorbiz" /\ pc'["main"] \in {"dtorlog", "ended"}
             \/ pc["main"] = "dtorlog" /\ pc'["main"] = "exit"
             \/ pc["main"] = "exit" /\ pc'["main"] = "ended"
          /\ \/ pc'["log"] = pc["log"]
             \/ pc["log"] = "none" /\ pc'["log"] = "start"
          /\ \/ pc'["biz"] = pc["biz"]
             \/ pc["biz"] = "none" /\ pc'["biz"] = "setup"
      <4>1. CASE ForkLog
        <5>1. /\ pc["main"] = "forklog"
              /\ \/ pc' = [pc EXCEPT !["main"] = "forkbiz", !["log"] = "start"]
                 \/ pc' = [pc EXCEPT !["main"] = "dtorlog"]
          BY <4>1 DEF ForkLog, CreateSubProcess, CreateFails, Goto
        <5> QED
          BY <2>0, <3>0, <5>1 DEF TypeOK, Proc, Kid
      <4>2. CASE ForkBiz
        <5>1. /\ pc["main"] = "forkbiz"
              /\ \/ pc' = [pc EXCEPT !["main"] = "listen", !["biz"] = "setup"]
                 \/ pc' = [pc EXCEPT !["main"] = "dtorserver"]
          BY <4>2 DEF ForkBiz, CreateSubProcess, CreateFails, Goto
        <5> QED
          BY <2>0, <3>0, <5>1 DEF TypeOK, Proc, Kid
      <4>3. CASE Listen \/ Link
        <5>1. \/ /\ pc["main"] = "listen"
                 /\ \/ pc' = [pc EXCEPT !["main"] = "link"]
                    \/ pc' = [pc EXCEPT !["main"] = "dtorserver"]
              \/ /\ pc["main"] = "link"
                 /\ pc' = [pc EXCEPT !["main"] = "dtorserver"]
          BY <4>3 DEF Listen, Link, LinkResult, Goto
        <5> QED
          BY <2>0, <5>1 DEF TypeOK, Proc, Kid
      <4>4. CASE DestroyServer \/ DestroyBusiness \/ DestroyLog \/ MainExit
        <5>1. \/ /\ pc["main"] = "dtorserver"
                 /\ pc' = [pc EXCEPT !["main"] = "dtorbiz"]
              \/ /\ pc["main"] = "dtorbiz"
                 /\ \/ pc' = [pc EXCEPT !["main"] = "dtorlog"]
                    \/ pc' = [pc EXCEPT !["main"] = "ended"]
              \/ pc["main"] = "dtorlog" /\ pc' = [pc EXCEPT !["main"] = "exit"]
              \/ pc["main"] = "exit" /\ pc' = [pc EXCEPT !["main"] = "ended"]
          BY <4>4 DEF DestroyServer, DestroyBusiness, DestroyLog, MainExit,
             Destroy, Exit, Goto
        <5> QED
          BY <2>0, <5>1 DEF TypeOK, Proc, Kid
      <4> QED
        BY <2>4, <4>1, <4>2, <4>3, <4>4 DEF MainStep
    <3>2. Left("log")' <= Left("log") /\ Left("biz")' <= Left("biz")
      BY <3>1 DEF Left
    <3>3. Left("main")' < Left("main")
      BY <3>1 DEF Left
    <3> QED
      BY <3>2, <3>3, <2>3 DEF Proc, Kid
  <2>5. CASE LogStep
    <3>1. /\ Left("log")' < Left("log")
          /\ pc'["main"] = pc["main"] /\ pc'["biz"] = pc["biz"]
      BY <2>0, <2>5 DEF LogStep, LogStart, LogRecv, LogExit, Exit, Goto, Left,
         TypeOK, Proc, Kid
    <3>2. Left("main")' <= Left("main") /\ Left("biz")' <= Left("biz")
      BY <3>1 DEF Left
    <3> QED
      BY <3>1, <3>2, <2>3 DEF Proc, Kid
  <2>6. CASE BizStep
    <3>1. /\ Left("biz")' < Left("biz")
          /\ pc'["main"] = pc["main"] /\ pc'["log"] = pc["log"]
      BY <2>0, <2>6 DEF BizStep, BizSetup, BizRecv, BizExit, Exit, Goto, Left,
         TypeOK, Proc, Kid
    <3>2. Left("main")' <= Left("main") /\ Left("log")' <= Left("log")
      BY <3>1 DEF Left
    <3> QED
      BY <3>1, <3>2, <2>3 DEF Proc, Kid
  <2> QED
    BY <2>4, <2>5, <2>6 DEF Next
<1>3. StepsLeft \in Nat
  <2>1. \A p \in Proc : Left(p) \in Nat
    BY DEF Left
  <2> QED
    BY <2>1 DEF StepsLeft, Proc, Kid
<1> QED
  BY <1>1, <1>2, <1>3, ServerInvariant, PTL DEF Spec
=============================================================================
