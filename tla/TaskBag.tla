------------------------------ MODULE TaskBag ------------------------------
(***************************************************************************)
(* What a caller of ThreadPool::AddTask is promised, with no socket, no    *)
(* epoll and no event: a task handed in may be picked up by one idle       *)
(* worker, once; the worker runs it to its end before it takes another.    *)
(* ThreadPool.tla is shown to implement this specification.                *)
(***************************************************************************)
CONSTANTS Workers,    (* the worker threads                                *)
          Tasks,      (* every task that can be handed in                  *)
          NoTask      (* "this worker runs nothing"                        *)

VARIABLES submitted,  (* tasks for which AddTask has written the pointer   *)
          started,    (* tasks some worker has begun                       *)
          running,    (* the task each worker runs                         *)
          finished    (* tasks whose function has returned                 *)

vars == <<submitted, started, running, finished>>

Init == /\ submitted = {}
        /\ started = {}
        /\ running = [w \in Workers |-> NoTask]
        /\ finished = {}

Submit(t) == /\ t \notin submitted
             /\ submitted' = submitted \union {t}
             /\ UNCHANGED <<started, running, finished>>

Start(w, t) == /\ running[w] = NoTask
               /\ t \in submitted \ started
               /\ started' = started \union {t}
               /\ running' = [running EXCEPT ![w] = t]
               /\ UNCHANGED <<submitted, finished>>

Finish(w) == /\ running[w] # NoTask
             /\ running[w] \notin finished
             /\ finished' = finished \union {running[w]}
             /\ running' = [running EXCEPT ![w] = NoTask]
             /\ UNCHANGED <<submitted, started>>

Next == \/ \E t \in Tasks : Submit(t)
        \/ \E w \in Workers : Finish(w) \/ \E t \in Tasks : Start(w, t)

Spec == Init /\ [][Next]_vars
=============================================================================
