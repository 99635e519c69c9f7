----------------------------- MODULE OsTaskFifo -----------------------------
(***************************************************************************)
(* What the OpenOS scheduler promises its clients: one first-in first-out  *)
(* queue of tasks per priority, of bounded length.  A task is executed     *)
(* once, run to completion, in the order of its acceptance among the tasks *)
(* of its priority, and keeps its place in the queue until it returns.     *)
(***************************************************************************)
EXTENDS Naturals, Sequences

CONSTANTS
  Prio,      \* the priorities
  Tasks,     \* the tasks: a callback with its argument
  Capacity   \* how many tasks one priority holds, the running one included

VARIABLES
  queue,     \* queue[p]: the accepted tasks of priority p, oldest first
  running    \* <<p, t>> while task t of priority p executes, else <<>>

vars == <<queue, running>>

Init == /\ queue = [p \in Prio |-> <<>>]
        /\ running = <<>>

(* A task is accepted while its priority has room. *)
Accept(p, t) == /\ Len(queue[p]) < Capacity
                /\ queue' = [queue EXCEPT ![p] = Append(@, t)]
                /\ UNCHANGED running

(* The oldest task of a priority starts, when no other task is running. *)
Begin(p) == /\ running = <<>>
            /\ queue[p] # <<>>
            /\ running' = <<p, Head(queue[p])>>
            /\ UNCHANGED queue

(* The running task returns and gives up its place. *)
Finish(p) == /\ running # <<>>
             /\ running[1] = p
             /\ queue' = [queue EXCEPT ![p] = Tail(@)]
             /\ running' = <<>>

Next == \E p \in Prio : \/ \E t \in Tasks : Accept(p, t)
                        \/ Begin(p)
                        \/ Finish(p)

Spec == Init /\ [][Next]_vars
=============================================================================
