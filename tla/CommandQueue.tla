---------------------------- MODULE CommandQueue ----------------------------
(***************************************************************************)
(* What the nodes are promised about the commands an administrator queues  *)
(* for them: they reach a node in the order of its queue and none of them  *)
(* twice.  Of the commands that wait for a node the first or the last may  *)
(* be lost, never one in the middle.                                       *)
(***************************************************************************)
EXTENDS Integers, Sequences

CONSTANTS Node, Command

VARIABLES
  queued,   \* commands ever queued for a node
  waiting,  \* those that may still arrive
  received  \* those that have arrived

vars == <<queued, waiting, received>>

Init ==
  /\ queued = [n \in Node |-> {}]
  /\ waiting = [n \in Node |-> <<>>]
  /\ received = [n \in Node |-> <<>>]

Queue(n, c) ==
  /\ c \notin queued[n]
  /\ queued' = [queued EXCEPT ![n] = @ \cup {c}]
  /\ waiting' = [waiting EXCEPT ![n] = Append(@, c)]
  /\ UNCHANGED received

Receive(n) ==
  /\ waiting[n] # <<>>
  /\ received' = [received EXCEPT ![n] = Append(@, Head(waiting[n]))]
  /\ waiting' = [waiting EXCEPT ![n] = Tail(@)]
  /\ UNCHANGED queued

\* Any number of nodes lose commands at once.
Lose ==
  /\ waiting' = [n \in Node |-> waiting'[n]]
  /\ \A n \in Node : \E i \in 1 .. Len(waiting[n]) + 1, j \in 0 .. Len(waiting[n]) :
       waiting'[n] = SubSeq(waiting[n], i, j)
  /\ UNCHANGED <<queued, received>>

Next ==
  \/ \E n \in Node, c \in Command : Queue(n, c)
  \/ \E n \in Node : Receive(n)
  \/ Lose

Spec == Init /\ [][Next]_vars
=============================================================================
