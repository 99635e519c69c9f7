------------------------- MODULE OsSchedulerProofs -------------------------
(***************************************************************************)
(* Proofs about OsScheduler, for every number of priorities, ring size,    *)
(* set of tasks and number of pushes.                                      *)
(***************************************************************************)
EXTENDS OsScheduler, FiniteSetTheorems, TLAPS

USE NumPrioAssumption, MaxTasksAssumption, NoTaskAssumption, MaxPushesAssumption

(* Advancing an index steps to the next slot and wraps after the last.     *)
LEMMA MaskStep ==
  ASSUME NEW i \in Slot
  PROVE  Mask(i + 1) = IF i = MaxTasks - 1 THEN 0 ELSE i + 1
BY DEF Mask, Slot

LEMMA MaskInSlot == ASSUME NEW i \in Slot PROVE Mask(i + 1) \in Slot
BY MaskStep DEF Slot

(* Every step keeps the types.                                             *)
LEMMA TypeStep ==
  ASSUME TypeOK, [Next]_vars
  PROVE  TypeOK'
<1> USE DEF Prio, PC
<1>1. ASSUME NEW p \in Prio, NEW t \in Tasks, PushTask(p, t) PROVE TypeOK'
  <2>1. Mask(head[p] + 1) \in Slot
    BY MaskInSlot DEF TypeOK
  <2> QED BY <1>1, <2>1 DEF TypeOK, PushTask, main
<1>2. ASSUME NEW p \in Prio, PushOverflow(p) PROVE TypeOK'
  BY <1>2 DEF TypeOK, PushOverflow, ring, main
<1>3. CASE Schedule
  BY <1>3 DEF TypeOK, Schedule, ring
<1>4. CASE TakeTask
  BY <1>4 DEF TypeOK, TakeTask, ring
<1>5. CASE NextQueue
  BY <1>5 DEF TypeOK, NextQueue, ring
<1>6. CASE CallTask
  BY <1>6 DEF TypeOK, CallTask, ring
<1>7. CASE FreeTask
  <2>1. Mask(tail[tq] + 1) \in Slot
    BY MaskInSlot DEF TypeOK
  <2> QED BY <1>7, <2>1 DEF TypeOK, FreeTask
<1>8. CASE LoadCount
  BY <1>8 DEF TypeOK, LoadCount, ring
<1>9. CASE StoreCount
  BY <1>9 DEF TypeOK, StoreCount, ring
<1>10. CASE UNCHANGED vars
  BY <1>10 DEF TypeOK, vars
<1> QED BY <1>1, <1>2, <1>3, <1>4, <1>5, <1>6, <1>7, <1>8, <1>9, <1>10
        DEF Next, Main, Push

(* Type correctness of the scheduler.                                      *)
THEOREM TypeCorrect == Spec => []TypeOK
<1>1. Init => TypeOK
  BY DEF Init, TypeOK, Slot, Prio, PC
<1> QED BY <1>1, TypeStep, PTL DEF Spec

-----------------------------------------------------------------------------
(* The inductive invariant: the occupied slots hold accepted tasks, and    *)
(* RunningSlotHeld.                                                        *)
QueuesOfTasks == \A p \in Prio : Queued(p) \in Seq(Tasks)

IInv == TypeOK /\ QueuesOfTasks /\ RunningSlotHeld

(* The indices of a ring: how many slots are occupied and which one comes  *)
(* i-th; these hold in every type-correct state.                           *)
LEMMA RingIndices ==
  ASSUME TypeOK, NEW p \in Prio
  PROVE  /\ Occupancy(p) \in 0 .. MaxTasks - 1
         /\ (Occupancy(p) = 0) <=> (tail[p] = head[p])
         /\ Full(p) <=> Occupancy(p) = MaxTasks - 1
         /\ \A i \in 1 .. MaxTasks - 1 : Nth(p, i) \in Slot
         /\ Nth(p, 1) = tail[p]
         /\ Occupancy(p) < MaxTasks - 1 => Nth(p, Occupancy(p) + 1) = head[p]
         /\ \A i \in 1 .. Occupancy(p) : Nth(p, i) # head[p]
<1>1. head[p] \in Slot /\ tail[p] \in Slot
  BY DEF TypeOK
<1>2. Mask(head[p] + 1) = IF head[p] = MaxTasks - 1 THEN 0 ELSE head[p] + 1
  BY <1>1, MaskStep
<1> QED BY <1>1, <1>2 DEF Occupancy, Nth, Full, Slot

(* Pushing appends to the queue of the ring.                               *)
LEMMA PushAppends ==
  ASSUME TypeOK, NEW p \in Prio, NEW t \in Tasks, PushTask(p, t), NEW q \in Prio
  PROVE  Queued(q)' = IF q = p THEN Append(Queued(q), t) ELSE Queued(q)
<1>1. head[p] \in Slot /\ tail[p] \in Slot
  BY DEF TypeOK
<1>2. Mask(head[p] + 1) = IF head[p] = MaxTasks - 1 THEN 0 ELSE head[p] + 1
  BY <1>1, MaskStep
<1>3. CASE q # p
  BY <1>3 DEF PushTask, Queued, Occupancy, Nth, TypeOK
<1>4. CASE q = p
  <2>1. Occupancy(p) < MaxTasks - 1 /\ Occupancy(p) \in 0 .. MaxTasks - 1
    BY RingIndices DEF PushTask
  <2>2. Occupancy(p)' = Occupancy(p) + 1
    BY <1>1, <1>2, <2>1 DEF PushTask, Occupancy, TypeOK, Slot, Full
  <2>3. ASSUME NEW i \in 1 .. Occupancy(p) + 1 PROVE Nth(p, i)' = Nth(p, i)
    BY DEF PushTask, Nth
  <2>4. taskbuf'[p] = [taskbuf[p] EXCEPT ![head[p]] = t]
    BY DEF PushTask, TypeOK
  <2>5. ASSUME NEW i \in 1 .. Occupancy(p)
        PROVE  taskbuf'[p][Nth(p, i)] = taskbuf[p][Nth(p, i)]
    <3>1. Nth(p, i) # head[p] /\ Nth(p, i) \in Slot
      BY <2>1, RingIndices
    <3> QED BY <3>1, <2>4 DEF TypeOK
  <2>6. taskbuf'[p][Nth(p, Occupancy(p) + 1)] = t
    <3>1. Nth(p, Occupancy(p) + 1) = head[p]
      BY <2>1, RingIndices
    <3> QED BY <3>1, <2>4, <1>1 DEF TypeOK
  <2>7. Queued(p)' = [i \in 1 .. Occupancy(p) + 1 |-> taskbuf'[p][Nth(p, i)]]
    BY <2>1, <2>2, <2>3 DEF Queued
  <2>8. Append(Queued(p), t)
          = [i \in 1 .. Occupancy(p) + 1 |->
               IF i = Occupancy(p) + 1 THEN t ELSE taskbuf[p][Nth(p, i)]]
    BY <2>1 DEF Queued
  <2> QED BY <1>4, <2>1, <2>5, <2>6, <2>7, <2>8
<1> QED BY <1>3, <1>4

(* Freeing the oldest slot takes the head off the queue of the ring.       *)
LEMMA FreeTakesHead ==
  ASSUME TypeOK, FreeTask, Occupancy(tq) > 0, NEW q \in Prio
  PROVE  Queued(q)' = IF q = tq THEN Tail(Queued(q)) ELSE Queued(q)
<1>1. tq \in Prio /\ head[tq] \in Slot /\ tail[tq] \in Slot
  BY DEF TypeOK
<1>2. Mask(tail[tq] + 1) = IF tail[tq] = MaxTasks - 1 THEN 0 ELSE tail[tq] + 1
  BY <1>1, MaskStep
<1>3. CASE q # tq
  BY <1>3 DEF FreeTask, Queued, Occupancy, Nth, TypeOK
<1>4. CASE q = tq
  <2> DEFINE n == Occupancy(tq)
  <2>1. n \in 1 .. MaxTasks - 1
    BY <1>1, RingIndices
  <2>2. tail'[tq] = Mask(tail[tq] + 1) /\ head' = head /\ taskbuf' = taskbuf
    BY DEF FreeTask, TypeOK
  <2>3. ( IF tail'[tq] <= head[tq] THEN head[tq] - tail'[tq]
                                   ELSE head[tq] - tail'[tq] + MaxTasks ) = n - 1
    BY <1>1, <1>2, <2>1, <2>2 DEF Occupancy, Slot
  <2>4. ASSUME NEW i \in 1 .. n - 1
        PROVE  ( IF tail'[tq] + i <= MaxTasks THEN tail'[tq] + i - 1
                                    ELSE tail'[tq] + i - 1 - MaxTasks ) = Nth(tq, i + 1)
    BY <1>1, <1>2, <2>1, <2>2 DEF Nth, Slot
  <2>5. Queued(q)' = [i \in 1 .. n - 1 |-> taskbuf[tq][Nth(tq, i + 1)]]
    BY <1>4, <2>2, <2>3, <2>4 DEF Queued, Occupancy, Nth, FreeTask
  <2>6. Queued(q) = [i \in 1 .. n |-> taskbuf[tq][Nth(tq, i)]]
    BY <1>4 DEF Queued
  <2>7. Tail(Queued(q)) = [i \in 1 .. n - 1 |-> taskbuf[tq][Nth(tq, i + 1)]]
    BY <2>1, <2>6
  <2> QED BY <1>4, <2>5, <2>7
<1> QED BY <1>3, <1>4

-----------------------------------------------------------------------------
(* The head of the queue of a ring is the content of its oldest slot.      *)
LEMMA HeadIsOldest ==
  ASSUME TypeOK, NEW p \in Prio, tail[p] # head[p]
  PROVE  /\ Queued(p) # <<>>
         /\ Head(Queued(p)) = taskbuf[p][tail[p]]
<1>1. Occupancy(p) \in 1 .. MaxTasks - 1 /\ Nth(p, 1) = tail[p]
  BY RingIndices
<1> QED BY <1>1 DEF Queued

(* A step that leaves the rings alone leaves their queues alone.           *)
LEMMA SameRings ==
  ASSUME UNCHANGED ring, NEW p \in Prio
  PROVE  Queued(p)' = Queued(p)
BY DEF ring, Queued, Occupancy, Nth

(* Every step keeps the invariant.                                         *)
LEMMA InvariantStep ==
  ASSUME IInv, [Next]_vars
  PROVE  IInv'
<1> USE DEF IInv
<1>1. TypeOK'
  BY TypeStep
<1>2. ASSUME NEW p \in Prio, NEW t \in Tasks, PushTask(p, t) PROVE IInv'
  <2>1. QueuesOfTasks'
    BY <1>2, PushAppends DEF QueuesOfTasks
  <2>2. ASSUME pc \in {"call", "cb"} PROVE RunningSlotHeld'
    <3>1. tail[tq] # head[tq] /\ taskbuf[tq][tail[tq]] \in Tasks
             /\ (pc = "cb" => cur = taskbuf[tq][tail[tq]])
      BY <2>2 DEF RunningSlotHeld
    <3>2. tail' = tail /\ tq' = tq /\ pc' = pc /\ cur' = cur
      BY <1>2 DEF PushTask, main
    <3>3. tail[tq] # head'[tq]
      BY <1>2, <3>1 DEF PushTask, Full, TypeOK
    <3>4. taskbuf'[tq][tail[tq]] = taskbuf[tq][tail[tq]]
      BY <1>2, <3>1 DEF PushTask, TypeOK
    <3> QED BY <3>1, <3>2, <3>3, <3>4 DEF RunningSlotHeld
  <2>3. pc \notin {"call", "cb"} => RunningSlotHeld'
    BY <1>2 DEF PushTask, main, RunningSlotHeld
  <2> QED BY <1>1, <2>1, <2>2, <2>3
<1>3. ASSUME NEW p \in Prio, PushOverflow(p) PROVE IInv'
  BY <1>1, <1>3, SameRings
     DEF PushOverflow, QueuesOfTasks, RunningSlotHeld, ring, main
<1>4. CASE Schedule
  BY <1>1, <1>4, SameRings DEF Schedule, QueuesOfTasks, RunningSlotHeld
<1>5. CASE TakeTask
  <2>1. Head(Queued(tq)) = taskbuf[tq][tail[tq]] /\ Queued(tq) # <<>>
    BY <1>5, HeadIsOldest DEF TakeTask, TypeOK
  <2>2. taskbuf[tq][tail[tq]] \in Tasks
    BY <2>1 DEF QueuesOfTasks, TypeOK
  <2> QED BY <1>1, <1>5, <2>2, SameRings
          DEF TakeTask, QueuesOfTasks, RunningSlotHeld, ring
<1>6. CASE NextQueue
  BY <1>1, <1>6, SameRings DEF NextQueue, QueuesOfTasks, RunningSlotHeld
<1>7. CASE CallTask
  BY <1>1, <1>7, SameRings DEF CallTask, QueuesOfTasks, RunningSlotHeld, ring
<1>8. CASE FreeTask
  <2>1. Occupancy(tq) > 0
    BY <1>8, RingIndices DEF FreeTask, RunningSlotHeld, TypeOK
  <2>2. QueuesOfTasks'
    <3> SUFFICES ASSUME NEW q \in Prio PROVE Queued(q)' \in Seq(Tasks)
      BY DEF QueuesOfTasks
    <3>1. Queued(q) \in Seq(Tasks)
      BY DEF QueuesOfTasks
    <3>2. q = tq => Queued(q) # <<>>
      BY <1>8, HeadIsOldest DEF FreeTask, RunningSlotHeld
    <3> QED BY <1>8, <2>1, <3>1, <3>2, FreeTakesHead
  <2> QED BY <1>1, <1>8, <2>2 DEF FreeTask, RunningSlotHeld
<1>9. CASE LoadCount
  BY <1>1, <1>9, SameRings DEF LoadCount, QueuesOfTasks, RunningSlotHeld
<1>10. CASE StoreCount
  BY <1>1, <1>10, SameRings DEF StoreCount, QueuesOfTasks, RunningSlotHeld
<1>11. CASE UNCHANGED vars
  BY <1>1, <1>11, SameRings DEF vars, ring, QueuesOfTasks, RunningSlotHeld
<1> QED BY <1>2, <1>3, <1>4, <1>5, <1>6, <1>7, <1>8, <1>9, <1>10, <1>11
        DEF Next, Main, Push

(* The invariant holds in every reachable state.                           *)
LEMMA InductiveInvariant == Spec => []IInv
<1>1. Init => IInv
  <2> SUFFICES ASSUME Init PROVE IInv
    OBVIOUS
  <2>1. TypeOK
    BY DEF Init, TypeOK, Slot, Prio, PC
  <2>2. QueuesOfTasks
    BY DEF Init, QueuesOfTasks, Queued, Occupancy
  <2> QED BY <2>1, <2>2 DEF Init, IInv, RunningSlotHeld
<1> QED BY <1>1, InvariantStep, PTL DEF Spec

(* The slot of a task being called or run is never given to another task,  *)
(* whatever interrupts push and whatever the size of the ring.             *)
THEOREM SlotHeldWhileRunning == Spec => []RunningSlotHeld
<1>1. IInv => RunningSlotHeld
  BY DEF IInv
<1> QED BY <1>1, InductiveInvariant, PTL
-----------------------------------------------------------------------------
(* The count of tasks against the occupied slots, of all rings together.   *)
(* The task that was freed and is still counted.                           *)
Freed == IF pc \in {"dec", "store"} THEN 1 ELSE 0

CountInv ==
  /\ CountNeverOverstates
  /\ pc = "store" => reg <= Cardinality(Occupied) + 1

(* There are finitely many slots, whatever they hold.                      *)
LEMMA OccupiedFinite ==
  ASSUME TypeOK
  PROVE  IsFiniteSet(Occupied) /\ Cardinality(Occupied) \in Nat
<1>1. IsFiniteSet(Prio) /\ IsFiniteSet(Slot)
  BY FS_Interval DEF Prio, Slot
<1>2. IsFiniteSet(Prio \X Slot)
  BY <1>1, FS_Product
<1> QED BY <1>2, FS_Subset, FS_CardinalityType DEF Occupied

(* A push occupies one more slot.                                          *)
LEMMA PushOccupies ==
  ASSUME TypeOK, NEW p \in Prio, NEW t \in Tasks, PushTask(p, t)
  PROVE  Cardinality(Occupied)' = Cardinality(Occupied) + 1
<1>1. \A q \in Prio : head[q] \in Slot /\ tail[q] \in Slot
  BY DEF TypeOK
<1>2. Mask(head[p] + 1) = IF head[p] = MaxTasks - 1 THEN 0 ELSE head[p] + 1
  BY <1>1, MaskStep
<1>3. /\ tail' = tail /\ Mask(head[p] + 1) # tail[p]
      /\ head'[p] = Mask(head[p] + 1) /\ \A q \in Prio : q # p => head'[q] = head[q]
  BY DEF PushTask, Full, TypeOK
<1>4. <<p, head[p]>> \notin Occupied
  BY <1>1 DEF Occupied, Slot
<1>5. Occupied' = Occupied \cup {<<p, head[p]>>}
  <2>1. ASSUME NEW q \in Prio, NEW i \in Slot
        PROVE  <<q, i>> \in Occupied' <=> <<q, i>> \in Occupied \/ (q = p /\ i = head[p])
    <3>1. CASE q # p
      BY <1>3, <3>1 DEF Occupied
    <3>2. CASE q = p
      BY <1>1, <1>2, <1>3, <3>2 DEF Occupied, Slot
    <3> QED BY <3>1, <3>2
  <2>2. Occupied \subseteq Prio \X Slot /\ Occupied' \subseteq Prio \X Slot
    BY DEF Occupied
  <2> QED BY <1>1, <2>1, <2>2
<1> QED BY <1>4, <1>5, OccupiedFinite, FS_AddElement

(* A task that was run leaves its slot.                                    *)
LEMMA FreeLeaves ==
  ASSUME TypeOK, FreeTask, tail[tq] # head[tq]
  PROVE  Cardinality(Occupied)' + 1 = Cardinality(Occupied)
<1>1. tq \in Prio /\ \A q \in Prio : head[q] \in Slot /\ tail[q] \in Slot
  BY DEF TypeOK
<1>2. Mask(tail[tq] + 1) = IF tail[tq] = MaxTasks - 1 THEN 0 ELSE tail[tq] + 1
  BY <1>1, MaskStep
<1>3. /\ head' = head
      /\ tail'[tq] = Mask(tail[tq] + 1) /\ \A q \in Prio : q # tq => tail'[q] = tail[q]
  BY DEF FreeTask, TypeOK
<1>4. <<tq, tail[tq]>> \in Occupied
  BY <1>1 DEF Occupied, Slot
<1>5. Occupied' = Occupied \ {<<tq, tail[tq]>>}
  <2>1. ASSUME NEW q \in Prio, NEW i \in Slot
        PROVE  <<q, i>> \in Occupied' <=> <<q, i>> \in Occupied /\ ~(q = tq /\ i = tail[tq])
    <3>1. CASE q # tq
      BY <1>3, <3>1 DEF Occupied
    <3>2. CASE q = tq
      BY <1>1, <1>2, <1>3, <3>2 DEF Occupied, Slot
    <3> QED BY <3>1, <3>2
  <2>2. Occupied \subseteq Prio \X Slot /\ Occupied' \subseteq Prio \X Slot
    BY DEF Occupied
  <2> QED BY <1>1, <2>1, <2>2
<1>6. Cardinality(Occupied') = Cardinality(Occupied) - 1
  BY <1>4, <1>5, OccupiedFinite, FS_RemoveElement
<1> QED BY <1>6, OccupiedFinite

(* Every step keeps the count below what the slots hold.                   *)
LEMMA CountStep ==
  ASSUME IInv, CountInv, [Next]_vars
  PROVE  CountInv'
<1> DEFINE n == Cardinality(Occupied)
<1>0. /\ TypeOK /\ n \in Int /\ taskq_count \in Int /\ reg \in Int
      /\ taskq_count <= n + Freed /\ (pc = "store" => reg <= n + 1)
  BY OccupiedFinite DEF IInv, TypeOK, CountInv, CountNeverOverstates, Freed
<1>1. ASSUME taskq_count' <= n' + Freed', pc' = "store" => reg' <= n' + 1
      PROVE  CountInv'
  BY <1>1 DEF CountInv, CountNeverOverstates, Freed
<1>2. UNCHANGED ring => n' = n
  BY DEF ring, Occupied
<1> HIDE DEF n
<1>3. ASSUME NEW p \in Prio, NEW t \in Tasks, PushTask(p, t) PROVE CountInv'
  <2>1. n' = n + 1
    BY <1>0, <1>3, PushOccupies DEF n
  <2>2. taskq_count' = taskq_count + 1 /\ UNCHANGED <<pc, reg>>
    BY <1>3 DEF PushTask, main
  <2> QED BY <1>0, <1>1, <2>1, <2>2 DEF Freed
<1>4. ASSUME NEW p \in Prio, PushOverflow(p) PROVE CountInv'
  BY <1>0, <1>1, <1>2, <1>4 DEF PushOverflow, main, Freed
<1>5. CASE Schedule \/ TakeTask \/ NextQueue \/ CallTask
  <2>1. /\ n' = n /\ taskq_count' = taskq_count
        /\ pc \notin {"dec", "store"} /\ pc' \notin {"dec", "store"}
    BY <1>2, <1>5 DEF Schedule, TakeTask, NextQueue, CallTask
  <2> QED BY <1>0, <1>1, <2>1 DEF Freed
<1>6. CASE FreeTask
  <2>1. n' + 1 = n
    BY <1>0, <1>6, FreeLeaves DEF n, IInv, RunningSlotHeld, FreeTask
  <2>2. pc = "cb" /\ pc' = "dec" /\ taskq_count' = taskq_count
    BY <1>6 DEF FreeTask
  <2>3. Freed = 0 /\ Freed' = 1
    BY <2>2 DEF Freed
  <2>4. n' + 1 >= taskq_count
    BY <1>0, <2>1, <2>3
  <2> QED BY <1>0, <1>1, <2>1, <2>2, <2>3, <2>4
<1>7. CASE LoadCount
  BY <1>0, <1>1, <1>2, <1>7 DEF LoadCount, Freed
<1>8. CASE StoreCount
  BY <1>0, <1>1, <1>2, <1>8 DEF StoreCount, Freed
<1>9. CASE UNCHANGED vars
  BY <1>0, <1>1, <1>2, <1>9 DEF vars, ring, Freed
<1> QED BY <1>3, <1>4, <1>5, <1>6, <1>7, <1>8, <1>9 DEF Next, Main, Push

(* taskq_count never claims more tasks than the rings hold, although its   *)
(* decrement races with the pushes of interrupts: an update that is lost   *)
(* is always an increment.                                                 *)
THEOREM CountIsSafe == Spec => []CountNeverOverstates
<1>1. Init => CountInv
  <2> SUFFICES ASSUME Init PROVE CountInv
    OBVIOUS
  <2>1. TypeOK
    BY DEF Init, TypeOK, Slot, Prio, PC
  <2>2. Cardinality(Occupied) \in Nat /\ taskq_count = 0 /\ pc = "idle"
    BY <2>1, OccupiedFinite DEF Init
  <2> QED BY <2>2 DEF CountInv, CountNeverOverstates
<1>2. CountInv => CountNeverOverstates
  BY DEF CountInv
<1> QED BY <1>1, <1>2, CountStep, InductiveInvariant, PTL DEF Spec
-----------------------------------------------------------------------------
(* The scheduler implements the bounded FIFO queues of OsTaskFifo.         *)
THEOREM RefinesFifo == Spec => FifoSpec
<1> DEFINE queueBar == [p \in Prio |-> Queued(p)]
           runningBar == IF pc = "cb" THEN <<tq, cur>> ELSE <<>>
<1>1. Init => Fifo!Init
  <2> SUFFICES ASSUME Init PROVE Fifo!Init
    OBVIOUS
  <2>1. \A p \in Prio : Queued(p) = <<>>
    BY DEF Init, Queued, Occupancy
  <2> QED BY <2>1 DEF Init, Fifo!Init
<1>2. IInv /\ [Next]_vars => [Fifo!Next]_(Fifo!vars)
  <2> SUFFICES ASSUME IInv, [Next]_vars PROVE [Fifo!Next]_(Fifo!vars)
    OBVIOUS
  <2> USE DEF IInv
  <2>1. ASSUME NEW p \in Prio, NEW t \in Tasks, PushTask(p, t)
        PROVE  Fifo!Accept(p, t)
    <3>1. Len(Queued(p)) < MaxTasks - 1
      BY <2>1, RingIndices DEF PushTask, Queued
    <3>2. queueBar' = [queueBar EXCEPT ![p] = Append(@, t)]
      BY <2>1, PushAppends
    <3>3. runningBar' = runningBar
      BY <2>1 DEF PushTask, main
    <3> QED BY <3>1, <3>2, <3>3 DEF Fifo!Accept
  <2>2. CASE CallTask
    <3>1. tq \in Prio /\ Queued(tq) # <<>>
            /\ Head(Queued(tq)) = taskbuf[tq][tail[tq]]
      BY <2>2, HeadIsOldest DEF CallTask, RunningSlotHeld, TypeOK
    <3>2. queueBar' = queueBar
      BY <2>2, SameRings DEF CallTask
    <3> QED BY <2>2, <3>1, <3>2 DEF CallTask, Fifo!Next, Fifo!Begin
  <2>3. CASE FreeTask
    <3>1. tq \in Prio /\ Occupancy(tq) > 0
      BY <2>3, RingIndices DEF FreeTask, RunningSlotHeld, TypeOK
    <3>2. queueBar' = [queueBar EXCEPT ![tq] = Tail(@)]
      BY <2>3, <3>1, FreeTakesHead
    <3>3. runningBar # <<>>
      BY <2>3 DEF FreeTask
    <3> QED BY <2>3, <3>1, <3>2, <3>3 DEF FreeTask, Fifo!Next, Fifo!Finish
  <2>4. ASSUME UNCHANGED ring, UNCHANGED cur, pc # "cb", pc' # "cb"
        PROVE  UNCHANGED Fifo!vars
    BY <2>4, SameRings DEF Fifo!vars
  <2>5. ASSUME NEW p \in Prio, PushOverflow(p) PROVE UNCHANGED Fifo!vars
    BY <2>5, SameRings DEF PushOverflow, main, Fifo!vars
  <2>6. CASE Schedule \/ TakeTask \/ NextQueue \/ LoadCount \/ StoreCount
    BY <2>4, <2>6 DEF Schedule, TakeTask, NextQueue, LoadCount, StoreCount
  <2>7. CASE UNCHANGED vars
    BY <2>7, SameRings DEF vars, ring, Fifo!vars
  <2> QED BY <2>1, <2>2, <2>3, <2>5, <2>6, <2>7
          DEF Next, Main, Push, Fifo!Next
<1> QED BY <1>1, <1>2, InductiveInvariant, PTL DEF Spec, FifoSpec, Fifo!Spec
=============================================================================
