----------------------------- MODULE RecordLog ------------------------------
(***************************************************************************)
(* What the log promises a thread that traces: one queue to the file, as   *)
(* long as the thread is connected.  The thread is connected once, before  *)
(* its first record or never; the connection may be lost at any moment and *)
(* what is queued with it, and it does not come back.  A write may leave   *)
(* out records of what it takes, and nobody is told.                       *)
(***************************************************************************)
EXTENDS Integers, Sequences

CONSTANT Writers

VARIABLES link,   (* of each writer: "fresh", "open", "lost"               *)
          queue,  (* its records on their way                              *)
          traced, (* its calls of Trace                                    *)
          written, (* its records given to the file, in that order         *)
          failed   (* those of them that did not get there                 *)

vars == <<link, queue, traced, written, failed>>

Init == /\ link = [c \in Writers |-> "fresh"]
        /\ queue = [c \in Writers |-> <<>>]
        /\ traced = [c \in Writers |-> 0]
        /\ written = [c \in Writers |-> <<>>]
        /\ failed = [c \in Writers |-> {}]

Connect(c) == /\ link[c] = "fresh"
              /\ link' = [link EXCEPT ![c] = "open"]
              /\ UNCHANGED <<queue, traced, written, failed>>

\* A connected thread queues the record; for any other it is lost, and one that
\* has not been connected by then never is.
Trace(c) ==
  /\ traced' = [traced EXCEPT ![c] = @ + 1]
  /\ \/ /\ link[c] = "open"
        /\ queue' = [queue EXCEPT ![c] = Append(@, traced[c] + 1)]
        /\ UNCHANGED link
     \/ /\ link[c] # "open"
        /\ link' = [link EXCEPT ![c] = "lost"]
        /\ UNCHANGED queue
  /\ UNCHANGED written

\* The oldest records of a queue go to the file, one or many; the last of them,
\* or all, may fail to.
Write(c) ==
  /\ \E n \in 1..Len(queue[c]) :
       /\ written' = [written EXCEPT ![c] = @ \o SubSeq(queue[c], 1, n)]
       /\ queue' = [queue EXCEPT ![c] = SubSeq(@, n + 1, Len(@))]
       /\ \E m \in 1..(n + 1) :
            failed' = [failed EXCEPT ![c] =
                         @ \union {queue[c][i] : i \in m..n}]
  /\ UNCHANGED <<link, traced>>

\* The log process ends, or a connection does.
Lose(S) ==
  /\ link' = [c \in Writers |-> IF c \in S THEN "lost" ELSE link[c]]
  /\ queue' = [c \in Writers |-> IF c \in S THEN <<>> ELSE queue[c]]
  /\ UNCHANGED <<traced, written, failed>>

Next == \/ \E c \in Writers : Connect(c) \/ Trace(c) \/ Write(c)
        \/ \E S \in SUBSET Writers : Lose(S)

Spec == Init /\ [][Next]_vars
=============================================================================
