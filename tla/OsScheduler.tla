---------------------------- MODULE OsScheduler ----------------------------
(***************************************************************************)
(* The OpenOS run-to-completion scheduler, core/sys/openos/scheduler.c.    *)
(*                                                                         *)
(* The main program calls os_scheduler_schedule over and over; interrupt   *)
(* handlers and the running task itself call os_scheduler_push_task.  A    *)
(* push is one step, its body is a critical section (DISABLE_INTERRUPTS).  *)
(* The scheduling loop is not: an interrupt may come between any two of    *)
(* its accesses, so it is cut there, taskq_count-- into a load and a store.*)
(***************************************************************************)
EXTENDS Integers, Sequences, FiniteSets

CONSTANTS
  NumPrio,    \* CFG_OS_NUM_PRIORITIES
  MaxTasks,   \* CFG_OS_MAX_TASKS, the slots of one ring; a power of two
  Tasks,      \* what a slot holds: a callback and its argument
  NoTask,     \* not a task: an empty slot, no task running
  MaxPushes   \* bound: calls of os_scheduler_push_task in one behaviour

ASSUME NumPrioAssumption == NumPrio \in Nat \ {0}
ASSUME MaxTasksAssumption == MaxTasks \in Nat \ {0, 1}
ASSUME NoTaskAssumption == NoTask \notin Tasks
ASSUME MaxPushesAssumption == MaxPushes \in Nat

Prio == 0 .. NumPrio - 1
Slot == 0 .. MaxTasks - 1

VARIABLES
  head, tail,   \* taskq[p].head, taskq[p].tail
  taskbuf,      \* taskq[p].taskbuf
  taskq_count, taskq_max,
  pc,           \* where the main program is, see PC
  tq,           \* the priority os_scheduler_schedule is draining
  cur,          \* the task whose callback executes
  reg,          \* the register of taskq_count--
  pushes        \* calls of os_scheduler_push_task so far

ring == <<head, tail, taskbuf>>
main == <<pc, tq, cur, reg>>
vars == <<head, tail, taskbuf, taskq_count, taskq_max, pc, tq, cur, reg, pushes>>

(* "idle": outside os_scheduler_schedule; "while": about to compare tail   *)
(* with head; "call": about to read the slot; "cb": in the callback;       *)
(* "dec", "store": about to load, to store taskq_count.                    *)
PC == {"idle", "while", "call", "cb", "dec", "store"}

(* Mutant of Mask: the index is not masked. *)
NoMask(i) == i

Mask(i) == i % MaxTasks      \* i & (CFG_OS_MAX_TASKS-1)
-----------------------------------------------------------------------------
Init ==
  /\ head = [p \in Prio |-> 0]
  /\ tail = [p \in Prio |-> 0]
  /\ taskbuf = [p \in Prio |-> [i \in Slot |-> NoTask]]
  /\ taskq_count = 0 /\ taskq_max = 0
  /\ pc = "idle" /\ tq = 0 /\ cur = NoTask /\ reg = 0
  /\ pushes = 0

(* Mutant of Full: the overflow test is missing. *)
NeverFull(p) == FALSE

(* The slot after head is the oldest task's: the ring is full. *)
Full(p) == Mask(head[p] + 1) = tail[p]

(* os_scheduler_push_task returns 0. *)
PushTask(p, t) ==
  /\ pushes < MaxPushes
  /\ ~Full(p)
  /\ taskbuf' = [taskbuf EXCEPT ![p][head[p]] = t]
  /\ taskq_count' = taskq_count + 1
  /\ taskq_max' = IF taskq_count' > taskq_max THEN taskq_count' ELSE taskq_max
  /\ head' = [head EXCEPT ![p] = Mask(head[p] + 1)]
  /\ pushes' = pushes + 1
  /\ UNCHANGED <<tail, main>>

(* Mutant of PushOverflow: a refused task is counted. *)
PushOverflowCounted(p) ==
  /\ pushes < MaxPushes
  /\ Full(p)
  /\ pushes' = pushes + 1
  /\ taskq_count' = taskq_count + 1
  /\ UNCHANGED <<ring, taskq_max, main>>

(* os_scheduler_push_task returns -1: the task is dropped. *)
PushOverflow(p) ==
  /\ pushes < MaxPushes
  /\ Full(p)
  /\ pushes' = pushes + 1
  /\ UNCHANGED <<ring, taskq_count, taskq_max, main>>

(* The main program enters os_scheduler_schedule. *)
Schedule ==
  /\ pc = "idle"
  /\ pc' = "while" /\ tq' = 0
  /\ UNCHANGED <<ring, taskq_count, taskq_max, cur, reg, pushes>>

(* Mutant of TakeTask: the slot is freed before its task is called. *)
TakeAndFreeTask ==
  /\ pc = "while"
  /\ tail[tq] # head[tq]
  /\ tail' = [tail EXCEPT ![tq] = Mask(tail[tq] + 1)]
  /\ pc' = "call"
  /\ UNCHANGED <<head, taskbuf, taskq_count, taskq_max, tq, cur, reg, pushes>>

(* The while condition holds: take the address of the oldest slot. *)
TakeTask ==
  /\ pc = "while"
  /\ tail[tq] # head[tq]
  /\ pc' = "call"
  /\ UNCHANGED <<ring, taskq_count, taskq_max, tq, cur, reg, pushes>>

(* Mutant of NextQueue: the last priority is left out. *)
NextQueueButLast ==
  /\ pc = "while"
  /\ tail[tq] = head[tq]
  /\ IF tq < NumPrio - 2 THEN tq' = tq + 1 /\ UNCHANGED pc
                         ELSE pc' = "idle" /\ UNCHANGED tq
  /\ UNCHANGED <<ring, taskq_count, taskq_max, cur, reg, pushes>>

(* The queue is drained: go on with the next priority, or return. *)
NextQueue ==
  /\ pc = "while"
  /\ tail[tq] = head[tq]
  /\ IF tq < NumPrio - 1 THEN tq' = tq + 1 /\ UNCHANGED pc
                         ELSE pc' = "idle" /\ UNCHANGED tq
  /\ UNCHANGED <<ring, taskq_count, taskq_max, cur, reg, pushes>>

(* task->cb(task->arg): the callback starts. *)
CallTask ==
  /\ pc = "call"
  /\ cur' = taskbuf[tq][tail[tq]]
  /\ pc' = "cb"
  /\ UNCHANGED <<ring, taskq_count, taskq_max, tq, reg, pushes>>

(* The callback returns and its slot is freed. *)
FreeTask ==
  /\ pc = "cb"
  /\ tail' = [tail EXCEPT ![tq] = Mask(tail[tq] + 1)]
  /\ cur' = NoTask
  /\ pc' = "dec"
  /\ UNCHANGED <<head, taskbuf, taskq_count, taskq_max, tq, reg, pushes>>

(* taskq_count--, outside any critical section. *)
LoadCount ==
  /\ pc = "dec"
  /\ reg' = taskq_count
  /\ pc' = "store"
  /\ UNCHANGED <<ring, taskq_count, taskq_max, tq, cur, pushes>>

StoreCount ==
  /\ pc = "store"
  /\ taskq_count' = reg - 1
  /\ pc' = "while"
  /\ UNCHANGED <<ring, taskq_max, tq, cur, reg, pushes>>

Main == \/ Schedule \/ TakeTask \/ NextQueue \/ CallTask \/ FreeTask
        \/ LoadCount \/ StoreCount

Push == \E p \in Prio : (\E t \in Tasks : PushTask(p, t)) \/ PushOverflow(p)

Next == Main \/ Push

Spec == Init /\ [][Next]_vars

(* The main program never stops, and every callback returns. *)
FairSpec == Spec /\ WF_vars(Main)
-----------------------------------------------------------------------------
(* The tasks a ring holds, oldest first. *)
Occupancy(p) == IF tail[p] <= head[p] THEN head[p] - tail[p]
                                      ELSE head[p] - tail[p] + MaxTasks

Nth(p, i) == IF tail[p] + i <= MaxTasks THEN tail[p] + i - 1
                                        ELSE tail[p] + i - 1 - MaxTasks

Queued(p) == [i \in 1 .. Occupancy(p) |-> taskbuf[p][Nth(p, i)]]

Fifo == INSTANCE OsTaskFifo WITH
          Capacity <- MaxTasks - 1,
          queue <- [p \in Prio |-> Queued(p)],
          running <- IF pc = "cb" THEN <<tq, cur>> ELSE <<>>

(* The variables hold values of the types scheduler.h and scheduler.c give *)
(* them; a slot index never leaves the ring.                               *)
TypeOK ==
  /\ head \in [Prio -> Slot]
  /\ tail \in [Prio -> Slot]
  /\ taskbuf \in [Prio -> [Slot -> Tasks \cup {NoTask}]]
  /\ taskq_count \in Int /\ taskq_max \in Int /\ reg \in Int
  /\ pc \in PC
  /\ tq \in Prio
  /\ cur \in Tasks \cup {NoTask}
  /\ pushes \in 0 .. MaxPushes

(* Refinement: the rings, their overflow test and the order "run, then     *)
(* free the slot" implement bounded FIFO queues whose tasks run once, to   *)
(* completion, whatever pushes interrupts slip in.                         *)
FifoSpec == Fifo!Spec

(* While a task waits to be called or runs, its slot is part of the queue: *)
(* no push can reach it, and the task executing is the one in its slot.    *)
RunningSlotHeld ==
  pc \in {"call", "cb"} =>
    /\ tail[tq] # head[tq]
    /\ taskbuf[tq][tail[tq]] \in Tasks
    /\ pc = "cb" => cur = taskbuf[tq][tail[tq]]

(* The occupied slots of all rings. *)
Occupied == {s \in Prio \X Slot :
               LET p == s[1]
                   i == s[2]
               IN IF tail[p] <= head[p] THEN tail[p] <= i /\ i < head[p]
                                        ELSE tail[p] <= i \/ i < head[p]}

(* taskq_count-- races with the increment of an interrupted push, so the   *)
(* count may drift, but only downwards: it never claims more tasks than    *)
(* the rings hold, the one that has just been freed included.              *)
CountNeverOverstates ==
  taskq_count <= Cardinality(Occupied) + (IF pc \in {"dec", "store"} THEN 1 ELSE 0)

(* Every accepted task runs: with finitely many pushes, a queue that holds *)
(* a task is drained.                                                      *)
QueuesDrain == \A p \in Prio : (Occupancy(p) > 0) ~> (Occupancy(p) = 0)
=============================================================================
