---------------------------- MODULE ModbusProofs ----------------------------
(***************************************************************************)
(* Proofs about Modbus, for every length of requests and answers, number   *)
(* of tries, capacity of the task queue and number of calls.               *)
(***************************************************************************)
EXTENDS Modbus, SequenceTheorems, TLAPS

USE LengthsAssumption, BoundsAssumption

(* What becomes of the tasks in the queue when one is appended, or the     *)
(* first one removed.                                                      *)
LEMMA RangeAppend ==
  ASSUME NEW q \in Seq(Tasks), NEW t \in Tasks
  PROVE  /\ Append(q, t) \in Seq(Tasks) \ {<<>>}
         /\ t \in Range(Append(q, t))
         /\ \A s \in Range(q) : s \in Range(Append(q, t))
         /\ q # <<>> => Head(Append(q, t)) = Head(q)
<1>1. Append(q, t) \in Seq(Tasks) /\ Append(q, t) # <<>>
  OBVIOUS
<1>2. t \in Range(Append(q, t))
  <2>1. Append(q, t)[Len(q) + 1] = t /\ Len(q) + 1 \in DOMAIN Append(q, t)
    OBVIOUS
  <2> QED BY <2>1 DEF Range
<1>3. ASSUME NEW s \in Range(q) PROVE s \in Range(Append(q, t))
  <2>1. PICK i \in DOMAIN q : s = q[i]
    BY <1>3 DEF Range
  <2>2. i \in DOMAIN Append(q, t) /\ Append(q, t)[i] = s
    BY <2>1
  <2> QED BY <2>2 DEF Range
<1>4. q # <<>> => Head(Append(q, t)) = Head(q)
  OBVIOUS
<1> QED BY <1>1, <1>2, <1>3, <1>4

LEMMA RangeTail ==
  ASSUME NEW q \in Seq(Tasks), q # <<>>
  PROVE  /\ Tail(q) \in Seq(Tasks)
         /\ \A s \in Range(q) : s = Head(q) \/ s \in Range(Tail(q))
<1>1. Tail(q) \in Seq(Tasks)
  OBVIOUS
<1>2. ASSUME NEW s \in Range(q), s # Head(q) PROVE s \in Range(Tail(q))
  <2>1. PICK i \in DOMAIN q : s = q[i]
    BY <1>2 DEF Range
  <2>2. i # 1 /\ i \in 1 .. Len(q)
    BY <1>2, <2>1
  <2>3. i - 1 \in 1 .. Len(Tail(q)) /\ Tail(q)[i - 1] = s
    BY <2>1, <2>2
  <2> QED BY <2>3, <1>1 DEF Range
<1> QED BY <1>1, <1>2

-----------------------------------------------------------------------------
(* The inductive invariant: while the timer has fired but is still in the  *)
(* list its task waits, so that a byte that comes then is guarded by it.   *)
QueueOK ==
  /\ queue \in [{Prio} -> Seq(Tasks)]
  /\ running = <<>> \/ (queue[Prio] # <<>> /\ running = <<Prio, Head(queue[Prio])>>)

FiredPending == timer = "fired" => Pending(TimeoutTask) \/ dropped

GuardInv == dropped \in BOOLEAN /\ QueueOK /\ FiredPending /\ ParserGuarded

(* os_scheduler_push_task forgets no task; it takes the new one or not.    *)
LEMMA PushKeeps ==
  ASSUME QueueOK, NEW t \in Tasks, PushTask(t)
  PROVE  /\ QueueOK'
         /\ Pending(TimeoutTask) => Pending(TimeoutTask)'
         /\ queue' # queue => Pending(t)'
<1>1. CASE UNCHANGED tasks
  BY <1>1 DEF tasks, QueueOK, Pending
<1>2. CASE Fifo!Accept(Prio, t)
  <2>1. /\ queue' \in [{Prio} -> Seq(Tasks)]
        /\ queue'[Prio] = Append(queue[Prio], t) /\ queue'[Prio] # <<>>
        /\ running' = running
    BY <1>2, RangeAppend DEF Fifo!Accept, QueueOK
  <2>2. queue[Prio] # <<>> => Head(queue'[Prio]) = Head(queue[Prio])
    BY <2>1, RangeAppend DEF QueueOK
  <2>3. QueueOK'
    BY <2>1, <2>2 DEF QueueOK
  <2> QED BY <2>1, <2>3, RangeAppend DEF QueueOK, Pending
<1> QED BY <1>1, <1>2 DEF PushTask

(* A task that returns takes itself out of the queue and nothing else.     *)
LEMMA FinishKeeps ==
  ASSUME QueueOK, NEW t \in Tasks, running = <<Prio, t>>, Fifo!Finish(Prio)
  PROVE  /\ QueueOK'
         /\ t # TimeoutTask /\ Pending(TimeoutTask) => Pending(TimeoutTask)'
<1>1. queue[Prio] # <<>> /\ t = Head(queue[Prio]) /\ queue[Prio] \in Seq(Tasks)
  BY DEF QueueOK
<1>2. queue' \in [{Prio} -> Seq(Tasks)] /\ queue'[Prio] = Tail(queue[Prio]) /\ running' = <<>>
  BY <1>1, RangeTail DEF Fifo!Finish, QueueOK
<1> QED BY <1>1, <1>2, RangeTail DEF QueueOK, Pending

LEMMA GuardStep ==
  ASSUME GuardInv, [Next]_vars
  PROVE  GuardInv'
<1> USE DEF GuardInv
<1>1. ASSUME UNCHANGED <<state, timer, dropped, queue, running>> PROVE GuardInv'
  BY <1>1 DEF QueueOK, FiredPending, ParserGuarded, Pending
<1>2. CASE Master
  BY <1>1, <1>2 DEF Master, Call, WriteRequest, ReadResponse, ReadTimeout, parser, tasks
<1>3. CASE LoseByte \/ Hear
  BY <1>1, <1>3 DEF LoseByte, Hear, parser, tasks
<1>4. CASE FirstByte
  <2>1. UNCHANGED <<queue, running>>
    BY <1>4 DEF FirstByte, tasks
  <2>2. CASE timer = "fired"
    BY <1>4, <2>1, <2>2 DEF FirstByte, QueueOK, FiredPending, ParserGuarded, Pending
  <2>3. CASE timer # "fired"
    BY <1>4, <2>1, <2>3 DEF FirstByte, QueueOK, FiredPending, ParserGuarded, Pending
  <2> QED BY <2>2, <2>3
<1>5. CASE MiddleByte
  <2>1. UNCHANGED <<timer, dropped, queue, running>> /\ state # 0
    BY <1>5 DEF MiddleByte, tasks
  <2> QED BY <2>1 DEF QueueOK, FiredPending, ParserGuarded, Pending
<1>6. CASE LastByte
  <2>1. state' = 0 /\ UNCHANGED <<timer, dropped>>
    BY <1>6 DEF LastByte
  <2>2. PushTask(RequestTask) \/ UNCHANGED tasks
    BY <1>6 DEF LastByte
  <2>3. QueueOK' /\ (Pending(TimeoutTask) => Pending(TimeoutTask)')
    BY <2>2, PushKeeps DEF Tasks, tasks, QueueOK, Pending
  <2> QED BY <2>1, <2>3 DEF FiredPending, ParserGuarded
<1>7. CASE Expire
  <2>1. state' = state /\ timer' = "fired" /\ PushTask(TimeoutTask)
    BY <1>7 DEF Expire
  <2>2. dropped' = (dropped \/ queue' = queue)
    BY <1>7 DEF Expire
  <2>3. QueueOK' /\ (queue' # queue => Pending(TimeoutTask)')
    BY <2>1, PushKeeps DEF Tasks
  <2>4. Pending(TimeoutTask)' \/ dropped'
    BY <2>2, <2>3
  <2>5. dropped' \in BOOLEAN
    BY <2>2
  <2> QED BY <2>3, <2>4, <2>5 DEF FiredPending, ParserGuarded
<1>8. CASE Settle
  <2>1. UNCHANGED <<state, dropped, queue, running>> /\ timer = "fired" /\ timer' = "off"
    BY <1>8 DEF Settle, tasks
  <2> QED BY <2>1 DEF QueueOK, FiredPending, ParserGuarded, Pending
<1>9. CASE BeginTask
  <2>1. UNCHANGED <<state, timer, dropped, queue>>
    BY <1>9 DEF BeginTask, parser, Fifo!Begin
  <2>2. queue[Prio] # <<>> /\ running' = <<Prio, Head(queue[Prio])>>
    BY <1>9 DEF BeginTask, Fifo!Begin
  <2> QED BY <2>1, <2>2 DEF QueueOK, FiredPending, ParserGuarded, Pending
<1>10. CASE RunRequest
  <2>1. UNCHANGED <<state, timer, dropped>> /\ timer # "fired"
    BY <1>10 DEF RunRequest
  <2>2. running = <<Prio, RequestTask>> /\ Fifo!Finish(Prio)
    BY <1>10 DEF RunRequest
  <2>3. QueueOK' /\ (Pending(TimeoutTask) => Pending(TimeoutTask)')
    BY <2>2, FinishKeeps DEF Tasks, RequestTask, TimeoutTask
  <2> QED BY <2>1, <2>3 DEF FiredPending, ParserGuarded
<1>11. CASE RunTimeout
  <2>1. UNCHANGED <<timer, dropped>> /\ timer # "fired" /\ state' = 0
    BY <1>11 DEF RunTimeout
  <2>2. running = <<Prio, TimeoutTask>> /\ Fifo!Finish(Prio)
    BY <1>11 DEF RunTimeout
  <2>3. QueueOK'
    BY <2>2, FinishKeeps DEF Tasks
  <2> QED BY <2>1, <2>3 DEF FiredPending, ParserGuarded
<1>12. CASE UNCHANGED vars
  BY <1>1, <1>12 DEF vars, parser, tasks
<1> QED BY <1>2, <1>3, <1>4, <1>5, <1>6, <1>7, <1>8, <1>9, <1>10, <1>11, <1>12
        DEF Next, Slave, RecvByte

(* A request that was begun in the UART interrupt is guarded by the timer, *)
(* or its task is on the way, wherever the interrupts cut into each other: *)
(* modbus.c starts the timer with the first byte and timer.c pushes before *)
(* it removes.                                                             *)
THEOREM RequestGuarded == Spec => []ParserGuarded
<1>1. Init => GuardInv
  <2> SUFFICES ASSUME Init PROVE GuardInv
    OBVIOUS
  <2>1. state = 0 /\ timer = "off" /\ dropped = FALSE
    BY DEF Init
  <2>2. queue = [p \in {Prio} |-> <<>>] /\ running = <<>>
    BY DEF Init, Fifo!Init
  <2>3. QueueOK
    BY <2>2 DEF QueueOK
  <2> QED BY <2>1, <2>3 DEF GuardInv, FiredPending, ParserGuarded
<1>2. GuardInv => ParserGuarded
  BY DEF GuardInv
<1> QED BY <1>1, <1>2, GuardStep, PTL DEF Spec
-----------------------------------------------------------------------------
(* What is on its way is what can be on its way.                           *)
WireBytes == [req : AnyRequest, ix : Places]
AnswerBytes == [req : AnyRequest, ix : Nat, len : Nat]

TypedMaster ==
  /\ mpc \in {"idle", "write", "read"} /\ calls \in 0 .. MaxCalls
  /\ req \in AnyRequest /\ (mpc # "idle" => req \in Requests)
  /\ retry \in 0 .. RetryCnt /\ (mpc # "idle" => retry < RetryCnt)
  /\ result \in {"none", "ok", "failed"} /\ got \in AnyRequest
  /\ early \in BOOLEAN

TypedBus == /\ wire \in Seq(WireBytes) /\ input \in Seq(AnswerBytes)
            /\ noise \in Nat

TypedSlave ==
  /\ state \in 0 .. RequestLen - 1 /\ rx \in [Places -> WireBytes]
  /\ timer \in {"off", "on", "fired"} /\ mixed \in BOOLEAN /\ dropped \in BOOLEAN
  /\ QueueOK /\ Len(queue[Prio]) <= Capacity

TInv == TypedMaster /\ TypedBus /\ TypedSlave

(* The first byte on the wire is the next one of the request, and the last *)
(* one is its end.                                                         *)
WireIsRequest ==
  /\ Len(wire) <= RequestLen
  /\ \A i \in 1 .. Len(wire) : wire[i] = [req |-> req, ix |-> RequestLen - Len(wire) + i - 1]

Once(q) == \A i, j \in 1 .. Len(q) : q[i] = RequestTask /\ q[j] = RequestTask => i = j

(* The request task is in the queue once, on the request of the master.    *)
TaskIsRequest ==
  Pending(RequestTask) =>
    /\ wire = <<>> /\ input = <<>>
    /\ req \in Requests /\ IsRequest(rx, req)
    /\ Once(queue[Prio])

(* What the master may read is of one answer to its request: a good one is *)
(* all there is of it.                                                     *)
InputIsAnswer ==
  input # <<>> =>
    /\ wire = <<>> /\ req \in Requests
    /\ \A i \in 1 .. Len(input) : input[i].req = req
    /\ Len(input) <= Expected
    /\ Len(input) = Expected => input = Answer(req, Expected)

Calm == ~early /\ noise = 0

CalmInv ==
  Calm => /\ ~mixed /\ (result = "ok" => got = req)
          /\ mpc = "write" => ~UnderWay
          /\ WireIsRequest /\ TaskIsRequest /\ InputIsAnswer
-----------------------------------------------------------------------------
LEMMA Constants ==
  /\ Noise.op \in Ops /\ Noise \in AnyRequest /\ Requests \subseteq AnyRequest
  /\ \A r \in AnyRequest : r.op \in Ops /\ AnswerLen[r.op] \in Nat \ {0} /\ AnswerLen[r.op] >= ErrorLen
  /\ 0 \in Places /\ 1 \in Places /\ RequestLen \in Nat \ {0} /\ ErrorLen \in Nat
  /\ Unset \in WireBytes /\ [req |-> Noise, ix |-> 0] \in WireBytes
<1>1. Noise.op \in Ops /\ Noise \in AnyRequest /\ Requests \subseteq AnyRequest
  BY AnswersAssumption DEF Noise, AnyRequest
<1>2. \A r \in AnyRequest : r.op \in Ops
  BY <1>1 DEF AnyRequest, Requests
<1>3. \A op \in Ops : AnswerLen[op] \in Nat \ {0} /\ AnswerLen[op] >= ErrorLen
  BY AnswersAssumption
<1>4. 0 \in Places /\ 1 \in Places /\ RequestLen \in Nat \ {0} /\ ErrorLen \in Nat
  BY DEF Places
<1>5. Unset \in WireBytes /\ [req |-> Noise, ix |-> 0] \in WireBytes
  BY <1>1, <1>4 DEF Unset, WireBytes
<1> QED BY <1>1, <1>2, <1>3, <1>4, <1>5

LEMMA BytesTypes ==
  ASSUME NEW r \in AnyRequest
  PROVE  /\ Bytes(r) \in Seq(WireBytes) /\ Len(Bytes(r)) = RequestLen
         /\ \A i \in 1 .. RequestLen : Bytes(r)[i] = [req |-> r, ix |-> i - 1]
<1>1. \A i \in 1 .. RequestLen : [req |-> r, ix |-> i - 1] \in WireBytes
  BY DEF WireBytes, Places
<1>2. Bytes(r) \in [1 .. RequestLen -> WireBytes] /\ RequestLen \in Nat
  BY <1>1 DEF Bytes
<1>3. Bytes(r) \in Seq(WireBytes) /\ Len(Bytes(r)) = RequestLen
  BY <1>2
<1> QED BY <1>3 DEF Bytes

LEMMA AnswerTypes ==
  ASSUME NEW r \in AnyRequest, NEW n \in Nat
  PROVE  /\ Answer(r, n) \in Seq(AnswerBytes) /\ Len(Answer(r, n)) = n
         /\ \A i \in 1 .. n : Answer(r, n)[i].req = r
<1>1. \A i \in 1 .. n : [req |-> r, ix |-> i, len |-> n] \in AnswerBytes
  BY DEF AnswerBytes
<1>2. Answer(r, n) \in [1 .. n -> AnswerBytes]
  BY <1>1 DEF Answer
<1>3. Answer(r, n) \in Seq(AnswerBytes) /\ Len(Answer(r, n)) = n
  BY <1>2
<1> QED BY <1>3 DEF Answer

(* What is left of a sequence when its first n elements were taken.        *)
LEMMA RestOf ==
  ASSUME NEW S, NEW s \in Seq(S), NEW n \in Nat, n <= Len(s)
  PROVE  /\ SubSeq(s, n + 1, Len(s)) \in Seq(S)
         /\ Len(SubSeq(s, n + 1, Len(s))) = Len(s) - n
         /\ n = Len(s) => SubSeq(s, n + 1, Len(s)) = <<>>
<1>1. Len(s) \in Nat /\ \A i \in n + 1 .. Len(s) : s[i] \in S
  BY LenProperties, ElementOfSeq
<1>2. /\ SubSeq(s, n + 1, Len(s)) \in Seq(S)
      /\ Len(SubSeq(s, n + 1, Len(s))) = IF n + 1 <= Len(s) THEN Len(s) - (n + 1) + 1 ELSE 0
  BY <1>1, SubSeqProperties
<1>3. n = Len(s) => SubSeq(s, n + 1, Len(s)) = <<>>
  BY <1>1, SubSeqEmpty
<1> QED BY <1>1, <1>2, <1>3

LEMMA OnceKept ==
  ASSUME NEW q \in Seq(Tasks)
  PROVE  /\ Once(q) => Once(Append(q, TimeoutTask))
         /\ RequestTask \notin Range(q) => Once(Append(q, RequestTask))
         /\ RequestTask \in Range(Append(q, TimeoutTask)) => RequestTask \in Range(q)
         /\ q # <<>> => /\ RequestTask \in Range(Tail(q)) => RequestTask \in Range(q)
                        /\ Once(q) => Once(Tail(q))
                        /\ Once(q) /\ Head(q) = RequestTask => RequestTask \notin Range(Tail(q))
<1>1. RequestTask # TimeoutTask /\ RequestTask \in Tasks /\ TimeoutTask \in Tasks /\ Len(q) \in Nat
  BY LenProperties DEF RequestTask, TimeoutTask, Tasks
<1>2. Range(q) = {q[i] : i \in 1 .. Len(q)}
  BY RangeEquality
<1>3. ASSUME NEW t \in Tasks
      PROVE  /\ Append(q, t) \in Seq(Tasks) /\ Len(Append(q, t)) = Len(q) + 1
             /\ \A i \in 1 .. Len(q) : Append(q, t)[i] = q[i]
             /\ Append(q, t)[Len(q) + 1] = t
  BY AppendProperties
<1>4. Once(q) => Once(Append(q, TimeoutTask))
  BY <1>1, <1>3 DEF Once
<1>5. ASSUME RequestTask \notin Range(q) PROVE Once(Append(q, RequestTask))
  <2>1. \A i \in 1 .. Len(q) : q[i] # RequestTask
    BY <1>2, <1>5
  <2> QED BY <1>1, <1>3, <2>1 DEF Once
<1>6. ASSUME RequestTask \in Range(Append(q, TimeoutTask)) PROVE RequestTask \in Range(q)
  <2>1. PICK i \in 1 .. Len(Append(q, TimeoutTask)) : Append(q, TimeoutTask)[i] = RequestTask
    <3>1. Append(q, TimeoutTask) \in Seq(Tasks)
      BY <1>1, <1>3
    <3>2. Range(Append(q, TimeoutTask)) = {Append(q, TimeoutTask)[i] : i \in 1 .. Len(Append(q, TimeoutTask))}
      BY <3>1, RangeEquality
    <3> QED BY <1>6, <3>2
  <2>2. i \in 1 .. Len(q) /\ q[i] = RequestTask
    BY <1>1, <1>3, <2>1
  <2> QED BY <1>2, <2>2
<1>7. ASSUME q # <<>>
      PROVE  /\ RequestTask \in Range(Tail(q)) => RequestTask \in Range(q)
             /\ Once(q) => Once(Tail(q))
             /\ Once(q) /\ Head(q) = RequestTask => RequestTask \notin Range(Tail(q))
  <2>1. /\ Tail(q) \in Seq(Tasks) /\ Len(Tail(q)) = Len(q) - 1 /\ Head(q) = q[1] /\ Len(q) # 0
        /\ \A i \in 1 .. Len(Tail(q)) : Tail(q)[i] = q[i + 1]
    BY <1>7, HeadTailProperties, EmptySeq
  <2>2. Range(Tail(q)) = {Tail(q)[i] : i \in 1 .. Len(Tail(q))}
    BY <2>1, RangeEquality
  <2>3. ASSUME RequestTask \in Range(Tail(q))
        PROVE  \E i \in 2 .. Len(q) : q[i] = RequestTask
    <3>1. PICK i \in 1 .. Len(Tail(q)) : Tail(q)[i] = RequestTask
      BY <2>2, <2>3
    <3>2. i + 1 \in 2 .. Len(q) /\ q[i + 1] = RequestTask
      BY <1>1, <2>1, <3>1
    <3> QED BY <3>2
  <2>4. RequestTask \in Range(Tail(q)) => RequestTask \in Range(q)
    BY <1>2, <2>3
  <2>5. Once(q) => Once(Tail(q))
    BY <1>1, <2>1 DEF Once
  <2>6. Once(q) /\ Head(q) = RequestTask => RequestTask \notin Range(Tail(q))
    BY <1>1, <2>1, <2>3 DEF Once
  <2> QED BY <2>4, <2>5, <2>6
<1> QED BY <1>4, <1>5, <1>6, <1>7
-----------------------------------------------------------------------------
(* The queue after os_scheduler_push_task, and after its first task. *)
LEMMA PushTypes ==
  ASSUME QueueOK, Len(queue[Prio]) <= Capacity, NEW t \in Tasks, PushTask(t)
  PROVE  QueueOK' /\ Len(queue'[Prio]) <= Capacity
<1>1. QueueOK'
  BY PushKeeps
<1>2. CASE UNCHANGED tasks
  BY <1>1, <1>2 DEF tasks
<1>3. CASE Fifo!Accept(Prio, t)
  <2>1. queue'[Prio] = Append(queue[Prio], t) /\ Len(queue[Prio]) < Capacity /\ queue[Prio] \in Seq(Tasks)
    BY <1>3 DEF Fifo!Accept, QueueOK
  <2>2. Len(queue'[Prio]) = Len(queue[Prio]) + 1 /\ Len(queue[Prio]) \in Nat
    BY <2>1, AppendProperties, LenProperties
  <2>3. Capacity \in Nat
    OBVIOUS
  <2> QED BY <1>1, <2>1, <2>2, <2>3
<1> QED BY <1>1, <1>2, <1>3 DEF PushTask

LEMMA FinishTypes ==
  ASSUME QueueOK, Len(queue[Prio]) <= Capacity, NEW t \in Tasks, running = <<Prio, t>>, Fifo!Finish(Prio)
  PROVE  /\ QueueOK' /\ Len(queue'[Prio]) <= Capacity
         /\ queue[Prio] \in Seq(Tasks) /\ queue[Prio] # <<>> /\ t = Head(queue[Prio])
         /\ queue'[Prio] = Tail(queue[Prio])
<1>1. QueueOK'
  BY FinishKeeps
<1>2. queue[Prio] # <<>> /\ t = Head(queue[Prio]) /\ queue[Prio] \in Seq(Tasks)
  BY DEF QueueOK
<1>3. queue'[Prio] = Tail(queue[Prio])
  BY <1>2 DEF Fifo!Finish, QueueOK
<1>4. Len(queue'[Prio]) = Len(queue[Prio]) - 1 /\ Len(queue[Prio]) \in Nat
  BY <1>2, <1>3, HeadTailProperties, LenProperties
<1> QED BY <1>1, <1>2, <1>3, <1>4

(* ctx->rx holds bytes, whichever of them the model forgets. *)
LEMMA StoreTypes ==
  ASSUME NEW f \in [Places -> WireBytes], Store(f)
  PROVE  rx' \in [Places -> WireBytes]
BY Constants DEF Store

LEMMA ByteTypes ==
  ASSUME TypedBus, TypedSlave, TakeByte, state' \in 0 .. RequestLen - 1
  PROVE  TypedBus' /\ rx' \in [Places -> WireBytes]
<1>1. Head(wire) \in WireBytes /\ Tail(wire) \in Seq(WireBytes)
  BY HeadTailProperties DEF TypedBus, TakeByte
<1>2. [rx EXCEPT ![state] = Head(wire)] \in [Places -> WireBytes]
  BY <1>1 DEF TypedSlave
<1>3. rx' \in [Places -> WireBytes]
  BY <1>2, StoreTypes DEF TakeByte
<1> QED BY <1>1, <1>3 DEF TakeByte, TypedBus

LEMMA NextTryTypes ==
  ASSUME NextTry, mpc # "idle", TypedMaster
  PROVE  /\ mpc' \in {"idle", "write", "read"} /\ result' \in {"none", "ok", "failed"}
         /\ retry' \in 0 .. RetryCnt /\ (mpc' # "idle" => retry' < RetryCnt)
BY DEF NextTry, Return, TypedMaster

LEMMA MasterTyped ==
  ASSUME TInv, Master
  PROVE  TInv'
<1> USE DEF TInv
<1>1. TypedSlave'
  BY DEF Master, Call, WriteRequest, ReadResponse, ReadTimeout, parser, tasks, TypedSlave, QueueOK
<1>2. CASE Call
  <2>1. PICK op \in Ops : req' = [call |-> calls + 1, op |-> op]
    BY <1>2 DEF Call
  <2>2. calls \in Nat /\ calls + 1 \in 1 .. MaxCalls
    BY <1>2 DEF Call, TypedMaster
  <2>3. req' \in Requests /\ req' \in AnyRequest
    BY <2>1, <2>2 DEF Requests, AnyRequest
  <2>4. TypedMaster'
    BY <1>2, <2>2, <2>3, TriesAssumption DEF Call, TypedMaster, UnderWay
  <2>5. TypedBus'
    BY <1>2 DEF Call, TypedBus
  <2> QED BY <1>1, <2>4, <2>5
<1>3. CASE WriteRequest
  <2>1. wire' \in Seq(WireBytes)
    <3>1. wire' = wire \/ wire' = wire \o Bytes(req)
      BY <1>3 DEF WriteRequest
    <3>2. wire \in Seq(WireBytes) /\ Bytes(req) \in Seq(WireBytes)
      BY BytesTypes DEF TypedBus, TypedMaster
    <3> QED BY <3>1, <3>2, ConcatProperties
  <2>2. TypedMaster'
    BY <1>3 DEF WriteRequest, Return, TypedMaster
  <2>3. TypedBus'
    BY <1>3, <2>1 DEF WriteRequest, TypedBus
  <2> QED BY <1>1, <2>2, <2>3
<1>4. CASE ReadResponse
  <2>1. req \in AnyRequest /\ mpc # "idle" /\ Expected \in Nat \ {0} /\ Expected <= Len(input) /\ input \in Seq(AnswerBytes)
    BY <1>4, Constants DEF ReadResponse, TypedMaster, TypedBus, Expected
  <2>2. input[1].req \in AnyRequest
    <3>1. 1 \in 1 .. Len(input)
      BY <2>1, LenProperties
    <3>2. input[1] \in AnswerBytes
      BY <2>1, <3>1, ElementOfSeq
    <3> QED BY <3>2 DEF AnswerBytes
  <2>3. input' \in Seq(AnswerBytes)
    BY <1>4, <2>1, RestOf DEF ReadResponse
  <2>4. CASE Checked(Expected)
    <3>1. mpc' = "idle" /\ result' = "ok" /\ got' = input[1].req /\ retry' = retry
      BY <1>4, <2>4 DEF ReadResponse, Return
    <3> QED BY <1>1, <1>4, <2>2, <2>3, <3>1 DEF ReadResponse, TypedMaster, TypedBus
  <2>5. CASE ~Checked(Expected)
    <3>1. NextTry /\ got' = got
      BY <1>4, <2>5 DEF ReadResponse
    <3> QED BY <1>1, <1>4, <2>1, <2>3, <3>1, NextTryTypes DEF ReadResponse, TypedMaster, TypedBus
  <2> QED BY <2>4, <2>5
<1>5. CASE ReadTimeout
  <2>1. PICK n \in 0 .. Expected - 1 : n <= Len(input) /\ input' = SubSeq(input, n + 1, Len(input))
    BY <1>5 DEF ReadTimeout
  <2>2. Expected \in Nat
    BY Constants DEF TypedMaster, Expected
  <2>3. n \in Nat /\ input' \in Seq(AnswerBytes)
    BY <2>1, <2>2, RestOf DEF TypedBus
  <2>4. early' \in BOOLEAN
    BY <1>5 DEF ReadTimeout, UnderWay
  <2> QED BY <1>1, <1>5, <2>3, <2>4, NextTryTypes DEF ReadTimeout, TypedMaster, TypedBus
<1> QED BY <1>2, <1>3, <1>4, <1>5 DEF Master

LEMMA SlaveTyped ==
  ASSUME TInv, Slave
  PROVE  TInv'
<1> USE DEF TInv
<1>1. TypedMaster'
  BY DEF Slave, RecvByte, FirstByte, MiddleByte, LastByte, TakeByte, Expire, Settle, BeginTask,
         RunRequest, RunTimeout, master, TypedMaster
<1>2. ASSUME RecvByte \/ Expire, QueueOK', Len(queue'[Prio]) <= Capacity PROVE TInv'
  <2>1. CASE RecvByte
    <3>1. TakeByte /\ state' \in 0 .. RequestLen - 1
      BY <2>1 DEF RecvByte, FirstByte, MiddleByte, LastByte, TypedSlave
    <3>2. timer' \in {"off", "on", "fired"} /\ dropped' \in BOOLEAN
      BY <2>1 DEF RecvByte, FirstByte, MiddleByte, LastByte, TypedSlave
    <3>3. mixed' = mixed
      BY <3>1 DEF TakeByte
    <3> QED BY <1>1, <1>2, <3>1, <3>2, <3>3, ByteTypes DEF TypedSlave
  <2>2. CASE Expire
    <3>1. dropped' \in BOOLEAN
      <4>1. dropped' = (dropped \/ UNCHANGED queue)
        BY <2>2 DEF Expire
      <4> QED BY <4>1
    <3> QED BY <1>1, <1>2, <2>2, <3>1 DEF Expire, TypedSlave, TypedBus
  <2> QED BY <1>2, <2>1, <2>2
<1>3. CASE RecvByte
  <2>1. UNCHANGED tasks \/ PushTask(RequestTask)
    BY <1>3 DEF RecvByte, FirstByte, MiddleByte, LastByte
  <2>2. RequestTask \in Tasks
    BY DEF Tasks
  <2>3. QueueOK' /\ Len(queue'[Prio]) <= Capacity
    BY <2>1, <2>2, PushTypes DEF tasks, TypedSlave, QueueOK
  <2> QED BY <1>2, <1>3, <2>3
<1>4. CASE Expire
  <2>1. PushTask(TimeoutTask) /\ TimeoutTask \in Tasks
    BY <1>4 DEF Expire, Tasks
  <2> QED BY <1>2, <1>4, <2>1, PushTypes DEF TypedSlave
<1>5. CASE Settle
  BY <1>1, <1>5 DEF Settle, TypedSlave, TypedBus, tasks, QueueOK
<1>6. CASE BeginTask
  <2>1. queue' = queue /\ queue[Prio] # <<>> /\ running' = <<Prio, Head(queue[Prio])>>
    BY <1>6 DEF BeginTask, Fifo!Begin
  <2>2. QueueOK'
    BY <2>1 DEF QueueOK, TypedSlave
  <2> QED BY <1>1, <1>6, <2>1, <2>2 DEF BeginTask, TypedSlave, TypedBus, parser
<1>7. CASE RunRequest
  <2>1. QueueOK' /\ Len(queue'[Prio]) <= Capacity
    BY <1>7, FinishTypes DEF RunRequest, Tasks, TypedSlave
  <2>2. rx[1].req \in AnyRequest
    <3>1. rx[1] \in WireBytes
      BY Constants DEF TypedSlave
    <3> QED BY <3>1 DEF WireBytes
  <2>3. PICK n \in {0, ErrorLen, AnswerLen[rx[1].req.op]} :
          LET bytes == input \o Answer(rx[1].req, n)
          IN  input' = IF Len(bytes) <= MaxInput THEN bytes ELSE SubSeq(bytes, 1, MaxInput)
    BY <1>7 DEF RunRequest
  <2>4. n \in Nat
    BY <2>2, <2>3, Constants
  <2> DEFINE bytes == input \o Answer(rx[1].req, n)
  <2>5. bytes \in Seq(AnswerBytes)
    BY <2>2, <2>4, AnswerTypes, ConcatProperties DEF TypedBus
  <2>6. input' = IF Len(bytes) <= MaxInput THEN bytes ELSE SubSeq(bytes, 1, MaxInput)
    BY <2>3
  <2> HIDE DEF bytes
  <2>7. MaxInput \in Nat /\ Len(bytes) \in Nat
    BY <2>5, LenProperties
  <2>8. Len(bytes) > MaxInput => SubSeq(bytes, 1, MaxInput) \in Seq(AnswerBytes)
    <3>1. Len(bytes) > MaxInput => \A i \in 1 .. MaxInput : bytes[i] \in AnswerBytes
      BY <2>5, <2>7, ElementOfSeq
    <3> QED BY <2>7, <3>1, SubSeqProperties
  <2>9. TypedBus'
    <3>1. input' \in Seq(AnswerBytes)
      BY <2>5, <2>6, <2>7, <2>8
    <3> QED BY <1>7, <3>1 DEF RunRequest, TypedBus
  <2>10. rx' \in [Places -> WireBytes] /\ state' = state /\ timer' = timer /\ dropped' = dropped
    BY <1>7, StoreTypes DEF RunRequest, TypedSlave
  <2>11. mixed' \in BOOLEAN
    BY <1>7 DEF RunRequest
  <2> QED BY <1>1, <2>1, <2>9, <2>10, <2>11 DEF TypedSlave
<1>8. CASE RunTimeout
  <2>1. QueueOK' /\ Len(queue'[Prio]) <= Capacity
    BY <1>8, FinishTypes DEF RunTimeout, Tasks, TypedSlave
  <2>2. rx' \in [Places -> WireBytes] /\ state' = 0
    BY <1>8, StoreTypes DEF RunTimeout, TypedSlave
  <2> QED BY <1>1, <1>8, <2>1, <2>2 DEF RunTimeout, TypedSlave, TypedBus
<1> QED BY <1>3, <1>4, <1>5, <1>6, <1>7, <1>8 DEF Slave

LEMMA StepTyped ==
  ASSUME TInv, [Next]_vars
  PROVE  TInv'
<1> USE DEF TInv
<1>1. CASE LoseByte
  <2>1. wire' \in Seq(WireBytes) /\ input' \in Seq(AnswerBytes)
    BY <1>1, HeadTailProperties DEF LoseByte, TypedBus
  <2> QED BY <1>1, <2>1 DEF LoseByte, TypedMaster, TypedBus, TypedSlave, QueueOK, master, parser, tasks
<1>2. CASE Hear
  <2>1. wire' \in Seq(WireBytes)
    BY <1>2, Constants, AppendProperties DEF Hear, TypedBus
  <2> QED BY <1>2, <2>1 DEF Hear, TypedMaster, TypedBus, TypedSlave, QueueOK, master, parser, tasks
<1>3. CASE UNCHANGED vars
  BY <1>3 DEF vars, TypedMaster, TypedBus, TypedSlave, QueueOK, master, parser, tasks
<1> QED BY <1>1, <1>2, <1>3, MasterTyped, SlaveTyped DEF Next

LEMMA InitTyped == Init => TInv
<1> SUFFICES ASSUME Init PROVE TInv
  OBVIOUS
<1>1. TypedMaster
  <2>1. 0 \in 0 .. MaxCalls /\ 0 \in 0 .. RetryCnt
    OBVIOUS
  <2>2. mpc = "idle" /\ calls = 0 /\ retry = 0 /\ result = "none" /\ req = Noise /\ got = Noise /\ early = FALSE
    BY DEF Init
  <2> QED BY <2>1, <2>2, Constants DEF TypedMaster
<1>2. TypedBus
  BY DEF Init, TypedBus
<1>3. queue = [p \in {Prio} |-> <<>>] /\ running = <<>>
  BY DEF Init, Fifo!Init
<1>4. QueueOK /\ Len(queue[Prio]) <= Capacity
  BY <1>3 DEF QueueOK
<1>5. rx \in [Places -> WireBytes]
  BY Constants DEF Init
<1>6. TypedSlave
  <2>1. state = 0 /\ timer = "off" /\ mixed = FALSE /\ dropped = FALSE /\ 0 \in 0 .. RequestLen - 1
    BY DEF Init
  <2> QED BY <1>4, <1>5, <2>1 DEF TypedSlave
<1> QED BY <1>1, <1>2, <1>6 DEF TInv

(* Type correctness: the master counts its tries, its input and the queue  *)
(* stay in their bounds.                                                   *)
THEOREM TypeCorrect == Spec => []TypeOK
<1>1. TInv => TypeOK
  BY DEF TInv, TypedMaster, TypedSlave, QueueOK, TypeOK, WireBytes, Fifo!Init
<1> QED BY <1>1, InitTyped, StepTyped, PTL DEF Spec
-----------------------------------------------------------------------------
(* In a calm step nothing is on the way, ... *)
LEMMA Quiet ==
  ASSUME ~UnderWay', ~mixed', result' = "ok" => got' = req'
  PROVE  CalmInv'
<1>1. wire' = <<>> /\ input' = <<>> /\ ~Pending(RequestTask)'
  BY DEF UnderWay
<1>2. WireIsRequest'
  BY <1>1 DEF WireIsRequest
<1>3. TaskIsRequest' /\ InputIsAnswer'
  BY <1>1 DEF TaskIsRequest, InputIsAnswer
<1> QED BY <1>2, <1>3 DEF CalmInv

(* ... or the same as before, less a task of the queue perhaps, ... *)
LEMMA Kept ==
  ASSUME CalmInv, Calm' => Calm, UNCHANGED <<mpc, req, result, got, wire, input, mixed>>,
         Pending(RequestTask)' =>
           /\ Pending(RequestTask)
           /\ \A i \in Places : rx'[i] = rx[i]
           /\ Once(queue[Prio]) => Once(queue'[Prio])
  PROVE  CalmInv'
<1> SUFFICES ASSUME Calm' PROVE CalmInv'
  BY DEF CalmInv
<1>1. /\ ~mixed /\ (result = "ok" => got = req)
      /\ mpc = "write" => ~UnderWay
      /\ WireIsRequest /\ TaskIsRequest /\ InputIsAnswer
  BY DEF CalmInv
<1>2. WireIsRequest'
  BY <1>1 DEF WireIsRequest
<1>3. TaskIsRequest'
  BY <1>1 DEF TaskIsRequest, IsRequest
<1>4. InputIsAnswer'
  BY <1>1 DEF InputIsAnswer, Expected, Answer
<1>5. mpc' = "write" => ~UnderWay'
  BY <1>1 DEF UnderWay
<1> QED BY <1>1, <1>2, <1>3, <1>4, <1>5 DEF CalmInv

(* ... or the next byte of the request was taken off the wire. *)
LEMMA WireShift ==
  ASSUME TInv, WireIsRequest, wire # <<>>, wire' = Tail(wire), req' = req
  PROVE  WireIsRequest'
<1>1. wire \in Seq(WireBytes) /\ Len(wire) \in Nat /\ Len(wire) # 0
  BY LenProperties, EmptySeq DEF TInv, TypedBus
<1>2. Len(wire') = Len(wire) - 1 /\ \A i \in 1 .. Len(wire') : wire'[i] = wire[i + 1]
  BY <1>1, HeadTailProperties
<1>3. ASSUME NEW i \in 1 .. Len(wire')
      PROVE  wire'[i] = [req |-> req', ix |-> RequestLen - Len(wire') + i - 1]
  <2>1. i + 1 \in 1 .. Len(wire) /\ wire'[i] = wire[i + 1]
    BY <1>1, <1>2
  <2>2. wire[i + 1] = [req |-> req, ix |-> RequestLen - Len(wire) + (i + 1) - 1]
    BY <2>1 DEF WireIsRequest
  <2>3. RequestLen - Len(wire) + (i + 1) - 1 = RequestLen - Len(wire') + i - 1
    BY <1>1, <1>2
  <2> QED BY <2>1, <2>2, <2>3
<1>4. Len(wire') <= RequestLen
  BY <1>1, <1>2 DEF WireIsRequest
<1> QED BY <1>3, <1>4 DEF WireIsRequest

LEMMA ShiftCalm ==
  ASSUME TInv, CalmInv, Calm' => Calm, wire # <<>>, wire' = Tail(wire),
         UNCHANGED <<mpc, req, result, got, input, mixed>>,
         Pending(RequestTask)' => Pending(RequestTask)
  PROVE  CalmInv'
<1> SUFFICES ASSUME Calm' PROVE CalmInv'
  BY DEF CalmInv
<1>1. /\ ~mixed /\ (result = "ok" => got = req)
      /\ mpc = "write" => ~UnderWay
      /\ WireIsRequest /\ TaskIsRequest /\ InputIsAnswer
  BY DEF CalmInv
<1>2. mpc' # "write" /\ ~Pending(RequestTask)' /\ input' = <<>>
  BY <1>1 DEF UnderWay, TaskIsRequest, InputIsAnswer
<1>3. TaskIsRequest' /\ InputIsAnswer'
  BY <1>2 DEF TaskIsRequest, InputIsAnswer
<1> QED BY <1>1, <1>2, <1>3, WireShift DEF CalmInv
-----------------------------------------------------------------------------
LEMMA MasterCalm ==
  ASSUME TInv, CalmInv, Master
  PROVE  CalmInv'
<1> SUFFICES ASSUME Calm' PROVE CalmInv'
  BY DEF CalmInv
<1>1. CASE Call
  <2>1. ~early' /\ early' = UnderWay
    BY <1>1 DEF Call, Calm
  <2>2. ~UnderWay' /\ ~mixed' /\ result' # "ok"
    BY <1>1, <2>1 DEF Call, UnderWay, Pending, tasks
  <2> QED BY <2>2, Quiet
<1>2. ASSUME Calm
      PROVE  /\ ~mixed /\ (result = "ok" => got = req)
             /\ mpc = "write" => ~UnderWay
             /\ WireIsRequest /\ TaskIsRequest /\ InputIsAnswer
  BY <1>2 DEF CalmInv
<1>3. CASE WriteRequest
  <2>1. /\ Calm /\ mpc = "write" /\ ~mixed' /\ queue' = queue
        /\ UNCHANGED <<req, got, input>>
    BY <1>2, <1>3 DEF WriteRequest, Calm, tasks
  <2>2. wire = <<>> /\ input' = <<>> /\ ~Pending(RequestTask)'
    BY <1>2, <2>1 DEF UnderWay, Pending
  <2>3. CASE Return("failed") /\ wire' = wire
    <3>1. ~UnderWay' /\ result' # "ok"
      BY <2>2, <2>3 DEF Return, UnderWay
    <3> QED BY <2>1, <3>1, Quiet
  <2>4. CASE mpc' = "read" /\ wire' = wire \o Bytes(req) /\ result' = result
    <3>1. req \in AnyRequest
      BY DEF TInv, TypedMaster
    <3>2. wire' = Bytes(req)
      BY <2>2, <2>4, <3>1, BytesTypes, ConcatEmptySeq
    <3>3. Len(wire') = RequestLen /\ \A i \in 1 .. RequestLen : wire'[i] = [req |-> req, ix |-> i - 1]
      BY <3>1, <3>2, BytesTypes
    <3>4. \A i \in 1 .. RequestLen : RequestLen - RequestLen + i - 1 = i - 1
      OBVIOUS
    <3>5. WireIsRequest'
      BY <2>1, <3>3, <3>4 DEF WireIsRequest
    <3>6. TaskIsRequest' /\ InputIsAnswer'
      BY <2>2 DEF TaskIsRequest, InputIsAnswer
    <3>7. result' = "ok" => got' = req'
      BY <1>2, <2>1, <2>4
    <3> QED BY <2>1, <2>4, <3>5, <3>6, <3>7 DEF CalmInv
  <2> QED BY <1>3, <2>3, <2>4 DEF WriteRequest
<1>4. CASE ReadResponse
  <2>1. Calm /\ UNCHANGED <<req, wire, queue, mixed>>
    BY <1>4 DEF ReadResponse, Calm, tasks
  <2>2. /\ req \in AnyRequest /\ Expected \in Nat \ {0} /\ Expected <= Len(input)
        /\ input \in Seq(AnswerBytes) /\ Len(input) \in Nat
    BY <1>4, Constants, LenProperties DEF ReadResponse, TInv, TypedMaster, TypedBus, Expected
  <2>3. input # <<>>
    BY <2>2, EmptySeq
  <2>4. /\ req \in Requests /\ wire = <<>> /\ ~Pending(RequestTask)
        /\ Len(input) = Expected /\ input = Answer(req, Expected)
    BY <1>2, <2>1, <2>2, <2>3 DEF InputIsAnswer, TaskIsRequest
  <2>5. SubSeq(input, 1, Expected) = input
    BY <2>2, <2>4, SubSeqFull
  <2>6. Checked(Expected)
    BY <2>4, <2>5 DEF Checked
  <2>7. result' = "ok" /\ got' = input[1].req
    BY <1>4, <2>6 DEF ReadResponse, Return
  <2>8. input[1].req = req
    BY <2>2, <2>4, AnswerTypes
  <2>9. input' = <<>>
    BY <1>4, <2>2, <2>4, RestOf DEF ReadResponse
  <2>10. ~UnderWay'
    BY <2>1, <2>4, <2>9 DEF UnderWay, Pending
  <2> QED BY <1>2, <2>1, <2>7, <2>8, <2>10, Quiet
<1>5. CASE ReadTimeout
  <2>1. Calm /\ ~UnderWay' /\ UNCHANGED <<req, got, mixed>>
    BY <1>5 DEF ReadTimeout, Calm
  <2>2. result' = result \/ result' = "failed"
    BY <1>5 DEF ReadTimeout, NextTry, Return
  <2> QED BY <1>2, <2>1, <2>2, Quiet
<1> QED BY <1>1, <1>3, <1>4, <1>5 DEF Master

LEMMA LoseCalm ==
  ASSUME TInv, CalmInv, LoseByte
  PROVE  CalmInv'
<1>1. Calm' => Calm
  BY DEF LoseByte, Calm
<1>2. UNCHANGED <<mpc, req, result, got, mixed, queue, rx>>
  BY DEF LoseByte, master, parser, tasks
<1>3. CASE wire # <<>> /\ wire' = Tail(wire) /\ input' = input
  BY <1>1, <1>2, <1>3, ShiftCalm DEF Pending
<1>4. CASE input # <<>> /\ input' = Tail(input) /\ wire' = wire
  <2> SUFFICES ASSUME Calm' PROVE CalmInv'
    BY DEF CalmInv
  <2>1. /\ ~mixed /\ (result = "ok" => got = req)
        /\ mpc = "write" => ~UnderWay
        /\ WireIsRequest /\ TaskIsRequest /\ InputIsAnswer
    BY <1>1 DEF CalmInv
  <2>2. mpc' # "write" /\ ~Pending(RequestTask)' /\ wire' = <<>> /\ req \in Requests
    BY <1>2, <1>4, <2>1 DEF UnderWay, TaskIsRequest, InputIsAnswer, Pending
  <2>3. input \in Seq(AnswerBytes) /\ Len(input) \in Nat /\ Len(input) # 0
    BY <1>4, LenProperties, EmptySeq DEF TInv, TypedBus
  <2>4. Len(input') = Len(input) - 1 /\ \A i \in 1 .. Len(input') : input'[i] = input[i + 1]
    BY <1>4, <2>3, HeadTailProperties
  <2>5. (\A i \in 1 .. Len(input) : input[i].req = req) /\ Len(input) <= Expected
    BY <1>4, <2>1 DEF InputIsAnswer
  <2>6. \A i \in 1 .. Len(input') : i + 1 \in 1 .. Len(input)
    BY <2>3, <2>4
  <2>7. Expected \in Nat /\ Expected' = Expected
    BY <1>2, <2>2, Constants DEF Expected
  <2>8. Len(input') < Expected'
    BY <2>3, <2>4, <2>5, <2>7
  <2>9. InputIsAnswer'
    <3>1. \A i \in 1 .. Len(input') : input'[i].req = req'
      BY <1>2, <2>4, <2>5, <2>6
    <3>2. Len(input') <= Expected' /\ Len(input') # Expected'
      BY <2>3, <2>4, <2>7, <2>8
    <3> QED BY <1>2, <2>2, <3>1, <3>2 DEF InputIsAnswer
  <2>10. WireIsRequest' /\ TaskIsRequest'
    BY <1>2, <1>4, <2>1, <2>2 DEF WireIsRequest, TaskIsRequest
  <2> QED BY <1>2, <2>1, <2>2, <2>9, <2>10 DEF CalmInv
<1> QED BY <1>3, <1>4 DEF LoseByte

LEMMA ByteCalm ==
  ASSUME TInv, CalmInv, RecvByte
  PROVE  CalmInv'
<1>1. TakeByte
  BY DEF RecvByte, FirstByte, MiddleByte, LastByte
<1>2. /\ Calm' => Calm
      /\ wire # <<>> /\ wire' = Tail(wire)
      /\ UNCHANGED <<mpc, req, result, got, input, mixed>>
  BY <1>1 DEF TakeByte, Calm, master
<1>3. CASE queue' = queue
  BY <1>2, <1>3, ShiftCalm DEF Pending
<1>4. CASE queue' # queue
  <2> SUFFICES ASSUME Calm' PROVE CalmInv'
    BY DEF CalmInv
  <2>1. /\ ~mixed /\ (result = "ok" => got = req)
        /\ mpc = "write" => ~UnderWay
        /\ WireIsRequest /\ TaskIsRequest /\ InputIsAnswer
    BY <1>2 DEF CalmInv
  <2>2. mpc' # "write" /\ ~Pending(RequestTask) /\ input' = <<>>
    BY <1>2, <2>1 DEF UnderWay, TaskIsRequest, InputIsAnswer
  <2> DEFINE f == [rx EXCEPT ![state] = Head(wire)]
  <2>3. /\ state = RequestLen - 1 /\ PushTask(RequestTask)
        /\ \E r \in Requests : IsRequest(f, r)
    BY <1>4 DEF RecvByte, FirstByte, MiddleByte, LastByte, tasks
  <2>4. PICK r \in Requests : IsRequest(f, r)
    BY <2>3
  <2>5. /\ wire \in Seq(WireBytes) /\ Len(wire) \in Nat /\ Len(wire) # 0
        /\ rx \in [Places -> WireBytes] /\ RequestLen - 1 \in Places
    BY <1>2, LenProperties, EmptySeq DEF TInv, TypedBus, TypedSlave, Places
  <2>6. Head(wire) = wire[1] /\ 1 \in 1 .. Len(wire)
    BY <2>5, <1>2, HeadTailProperties
  <2>7. wire[1] = [req |-> req, ix |-> RequestLen - Len(wire) + 1 - 1]
    BY <2>1, <2>6 DEF WireIsRequest
  <2>8. f[RequestLen - 1] = wire[1]
    BY <2>3, <2>5, <2>6
  <2>9. f[RequestLen - 1] = [req |-> r, ix |-> RequestLen - 1]
    BY <2>4, <2>5 DEF IsRequest
  <2>10. r = req /\ RequestLen - Len(wire) + 1 - 1 = RequestLen - 1
    BY <2>7, <2>8, <2>9
  <2>11. Len(wire) = 1
    <3>1. \A a, b \in Nat : a - b + 1 - 1 = a - 1 => b = 1
      OBVIOUS
    <3>2. RequestLen \in Nat /\ Len(wire) \in Nat
      BY <2>5
    <3> QED BY <2>10, <3>1, <3>2, Zenon
  <2>12. wire' = <<>>
    BY <1>2, <2>5, <2>11, HeadTailProperties, EmptySeq
  <2>13. queue[Prio] \in Seq(Tasks) /\ queue' = [queue EXCEPT ![Prio] = Append(queue[Prio], RequestTask)]
    BY <1>4, <2>3 DEF PushTask, Fifo!Accept, tasks, TInv, TypedSlave, QueueOK
  <2>14. queue'[Prio] = Append(queue[Prio], RequestTask)
    BY <2>13 DEF TInv, TypedSlave, QueueOK
  <2>15. Pending(RequestTask)'
    <3>1. RequestTask \in Tasks
      BY DEF Tasks
    <3> QED BY <2>13, <2>14, <3>1, RangeAppend DEF Pending
  <2>16. Once(queue'[Prio])
    BY <2>2, <2>13, <2>14, OnceKept DEF Pending
  <2>17. Store(f)
    BY <1>1 DEF TakeByte
  <2> HIDE DEF f
  <2>18. \A i \in Places : rx'[i] = f[i]
    BY <2>15, <2>17 DEF Store
  <2>19. IsRequest(rx', req)
    BY <2>4, <2>10, <2>18 DEF IsRequest
  <2>20. TaskIsRequest'
    BY <1>2, <2>2, <2>4, <2>10, <2>12, <2>16, <2>19 DEF TaskIsRequest
  <2>21. WireIsRequest' /\ InputIsAnswer'
    BY <2>2, <2>12 DEF WireIsRequest, InputIsAnswer
  <2> QED BY <1>2, <2>1, <2>2, <2>20, <2>21 DEF CalmInv
<1> QED BY <1>3, <1>4

(* The tasks of the slave, but for the one that answers. *)
LEMMA QueueCalm ==
  ASSUME TInv, CalmInv, Expire \/ Settle \/ BeginTask \/ RunTimeout
  PROVE  CalmInv'
<1>1. /\ Calm' => Calm
      /\ UNCHANGED <<mpc, req, result, got, wire, input, mixed>>
  BY DEF Expire, Settle, BeginTask, RunTimeout, Calm, master
<1>2. queue[Prio] \in Seq(Tasks) /\ queue \in [{Prio} -> Seq(Tasks)]
  BY DEF TInv, TypedSlave, QueueOK
<1>3. CASE Settle \/ BeginTask
  <2>1. queue' = queue /\ rx' = rx
    BY <1>3 DEF Settle, BeginTask, Fifo!Begin, tasks, parser
  <2> QED BY <1>1, <2>1, Kept DEF Pending
<1>4. CASE Expire
  <2>1. rx' = rx /\ PushTask(TimeoutTask)
    BY <1>4 DEF Expire
  <2>2. queue' = queue \/ queue'[Prio] = Append(queue[Prio], TimeoutTask)
    BY <1>2, <2>1 DEF PushTask, Fifo!Accept, tasks
  <2>3. /\ Pending(RequestTask)' => Pending(RequestTask)
        /\ Once(queue[Prio]) => Once(queue'[Prio])
    BY <1>2, <2>2, OnceKept DEF Pending
  <2> QED BY <1>1, <2>1, <2>3, Kept
<1>5. CASE RunTimeout
  <2>1. running = <<Prio, TimeoutTask>> /\ Fifo!Finish(Prio) /\ Store(rx) /\ TimeoutTask \in Tasks
    BY <1>5 DEF RunTimeout, Tasks
  <2>2. queue[Prio] # <<>> /\ queue'[Prio] = Tail(queue[Prio])
    BY <2>1, FinishTypes DEF TInv, TypedSlave
  <2>3. /\ Pending(RequestTask)' => Pending(RequestTask)
        /\ Once(queue[Prio]) => Once(queue'[Prio])
    BY <1>2, <2>2, OnceKept DEF Pending
  <2>4. Pending(RequestTask)' => \A i \in Places : rx'[i] = rx[i]
    BY <2>1 DEF Store
  <2> QED BY <1>1, <2>3, <2>4, Kept
<1> QED BY <1>3, <1>4, <1>5

(* modbus_rtu_request_task answers the one request that there is. *)
LEMMA AnswerCalm ==
  ASSUME TInv, CalmInv, RunRequest
  PROVE  CalmInv'
<1> SUFFICES ASSUME Calm' PROVE CalmInv'
  BY DEF CalmInv
<1>1. Calm /\ UNCHANGED <<mpc, req, result, got, wire>>
  BY DEF RunRequest, Calm, master
<1>2. /\ ~mixed /\ (result = "ok" => got = req)
      /\ mpc = "write" => ~UnderWay
      /\ WireIsRequest /\ TaskIsRequest /\ InputIsAnswer
  BY <1>1 DEF CalmInv
<1>3. /\ queue[Prio] \in Seq(Tasks) /\ queue[Prio] # <<>>
      /\ Head(queue[Prio]) = RequestTask /\ queue'[Prio] = Tail(queue[Prio])
  BY FinishTypes DEF RunRequest, Tasks, TInv, TypedSlave
<1>4. Pending(RequestTask)
  <2>1. Len(queue[Prio]) \in Nat /\ Len(queue[Prio]) # 0 /\ queue[Prio][1] = RequestTask
    BY <1>3, LenProperties, EmptySeq, HeadTailProperties
  <2>2. Range(queue[Prio]) = {queue[Prio][i] : i \in 1 .. Len(queue[Prio])}
    BY <1>3, RangeEquality
  <2>3. 1 \in 1 .. Len(queue[Prio])
    BY <2>1
  <2> QED BY <2>1, <2>2, <2>3 DEF Pending
<1>5. wire = <<>> /\ input = <<>> /\ req \in Requests /\ IsRequest(rx, req) /\ Once(queue[Prio])
  BY <1>2, <1>4 DEF TaskIsRequest
<1>6. ~Pending(RequestTask)'
  BY <1>3, <1>5, OnceKept DEF Pending
<1>7. ~mixed' /\ mpc' # "write" /\ wire' = <<>>
  BY <1>1, <1>2, <1>4, <1>5 DEF RunRequest, UnderWay
<1>8. rx[1].req = req
  <2>1. rx[1] = [req |-> req, ix |-> 1]
    BY <1>5, Constants DEF IsRequest
  <2> QED BY <2>1
<1>9. PICK n \in {0, ErrorLen, Expected} :
        LET bytes == input \o Answer(req, n)
        IN  input' = IF Len(bytes) <= MaxInput THEN bytes ELSE SubSeq(bytes, 1, MaxInput)
  BY <1>8 DEF RunRequest, Expected
<1>10. req \in AnyRequest /\ Expected \in Nat \ {0} /\ n \in Nat /\ n <= Expected /\ MaxInput \in Nat
  BY <1>5, <1>9, Constants DEF Expected
<1>11. /\ Answer(req, n) \in Seq(AnswerBytes) /\ Len(Answer(req, n)) = n
       /\ \A i \in 1 .. n : Answer(req, n)[i].req = req
  BY <1>10, AnswerTypes
<1>12. input \o Answer(req, n) = Answer(req, n)
  BY <1>5, <1>11, ConcatEmptySeq
<1>13. input' = IF n <= MaxInput THEN Answer(req, n) ELSE SubSeq(Answer(req, n), 1, MaxInput)
  BY <1>9, <1>11, <1>12
<1>14. CASE n <= MaxInput
  <2>1. input' = Answer(req, n) /\ Len(input') = n
    BY <1>11, <1>13, <1>14
  <2>2. \A i \in 1 .. Len(input') : input'[i].req = req
    BY <1>11, <2>1
  <2>3. Len(input') <= Expected /\ (Len(input') = Expected => input' = Answer(req, Expected))
    BY <1>10, <2>1
  <2> QED BY <1>1, <1>2, <1>5, <1>6, <1>7, <2>2, <2>3
          DEF CalmInv, WireIsRequest, TaskIsRequest, InputIsAnswer, Expected
<1>15. CASE n > MaxInput
  <2>1. input' = SubSeq(Answer(req, n), 1, MaxInput)
    BY <1>10, <1>13, <1>15
  <2>2. Len(input') = MaxInput /\ \A i \in 1 .. MaxInput : input'[i] = Answer(req, n)[i]
    <3>1. \A i \in 1 .. MaxInput : Answer(req, n)[i] \in AnswerBytes
      BY <1>10, <1>11, <1>15, ElementOfSeq
    <3> QED BY <1>10, <2>1, <3>1, SubSeqProperties
  <2>3. \A i \in 1 .. Len(input') : input'[i].req = req
    BY <1>10, <1>11, <1>15, <2>2
  <2>4. Len(input') < Expected
    BY <1>10, <1>15, <2>2
  <2>5. Len(input') <= Expected /\ Len(input') # Expected
    BY <1>10, <2>2, <2>4
  <2> QED BY <1>1, <1>2, <1>5, <1>6, <1>7, <2>3, <2>5
          DEF CalmInv, WireIsRequest, TaskIsRequest, InputIsAnswer, Expected
<1> QED BY <1>10, <1>14, <1>15

LEMMA CalmStep ==
  ASSUME TInv, TInv', CalmInv, [Next]_vars
  PROVE  CalmInv'
<1>1. CASE Hear
  <2>1. noise' # 0
    BY <1>1 DEF Hear, TInv, TypedBus
  <2> QED BY <2>1 DEF CalmInv, Calm
<1>2. CASE UNCHANGED vars
  <2>1. /\ UNCHANGED <<mpc, req, result, got, wire, input, mixed, rx, queue, early, noise>>
    BY <1>2 DEF vars, master, parser, tasks
  <2> QED BY <2>1, Kept DEF Calm, Pending
<1> QED BY <1>1, <1>2, MasterCalm, LoseCalm, ByteCalm, QueueCalm, AnswerCalm DEF Next, Slave

LEMMA InitCalm == Init => CalmInv
<1> SUFFICES ASSUME Init PROVE CalmInv
  OBVIOUS
<1>1. wire = <<>> /\ input = <<>> /\ result = "none" /\ mpc = "idle" /\ mixed = FALSE
  BY DEF Init
<1>2. queue[Prio] = <<>>
  BY DEF Init, Fifo!Init
<1>3. Range(<<>>) = {}
  BY DEF Range
<1>4. ~Pending(RequestTask)
  BY <1>2, <1>3 DEF Pending
<1> QED BY <1>1, <1>4 DEF CalmInv, WireIsRequest, TaskIsRequest, InputIsAnswer

(* modbus_rtu_request_task works on the request that was pushed, which is  *)
(* still in ctx->rx, unless something of an earlier try was under way when *)
(* the master sent again or another device was heard.                      *)
THEOREM RequestStays == Spec => []FrameKept
<1>1. TInv /\ CalmInv => FrameKept
  BY DEF TInv, TypedBus, CalmInv, Calm, FrameKept
<1> QED BY <1>1, InitTyped, StepTyped, InitCalm, CalmStep, PTL DEF Spec

(* The master, which compares nothing but the checksum, succeeds on the    *)
(* answer to its own request under the same conditions.                    *)
THEOREM AnswerIsToRequest == Spec => []SuccessIsOurs
<1>1. CalmInv => SuccessIsOurs
  BY DEF CalmInv, Calm, SuccessIsOurs
<1> QED BY <1>1, InitTyped, StepTyped, InitCalm, CalmStep, PTL DEF Spec
=============================================================================
