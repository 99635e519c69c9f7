------------------------------- MODULE Modbus -------------------------------
(***************************************************************************)
(* Modbus RTU, core/lib/modbus/modbus.c: a master that repeats a request   *)
(* until it gets an answer, a bus that loses bytes, and a slave that       *)
(* collects a request in its UART interrupt, guards it with a one-shot     *)
(* timer and executes it in a task.  The task queue is OsTaskFifo, what    *)
(* the OpenOS scheduler was shown to implement; the timer interrupt is cut *)
(* into by the UART interrupt where OsTimer says it is.                    *)
(*                                                                         *)
(* A byte is the request it is of and its place in it.  The checksum tells *)
(* the bytes of one request, in order, from everything else.               *)
(***************************************************************************)
EXTENDS Naturals, Sequences, SequencesExt

CONSTANTS
  Ops,         \* the functions of the interface
  RequestLen,  \* bytes of a request (8)
  AnswerLen,   \* AnswerLen[op]: bytes of the answer to op (8, 5 + 2 * count or 5 + count / 8)
  ErrorLen,    \* bytes of an error response (5)
  RetryCnt,    \* CFG_MODBUS_REQUEST_RETRY_CNT
  Capacity,    \* tasks that the queue of OS_TASKPRIO_MAX holds
  MaxCalls,    \* bound: calls of the master
  MaxNoise,    \* bound: bytes that other devices send
  MaxWire,     \* bound: bytes on the way to the slave
  MaxInput     \* bytes that the UART buffer of the master holds

ASSUME LengthsAssumption == RequestLen \in Nat /\ RequestLen >= 3 /\ AnswerLen \in [Ops -> Nat]
\* The shortest answer is an error response; RETRY_CNT is 3 unless configured.
ASSUME AnswersAssumption == Ops # {} /\ \A op \in Ops : AnswerLen[op] >= ErrorLen /\ AnswerLen[op] > 0
ASSUME TriesAssumption == RetryCnt > 0
ASSUME BoundsAssumption == {ErrorLen, RetryCnt, Capacity, MaxCalls, MaxNoise, MaxWire, MaxInput} \subseteq Nat

Noise == [call |-> 0, op |-> CHOOSE op \in Ops : TRUE]
Requests == [call : 1 .. MaxCalls, op : Ops]
Prio == 0                       \* OS_TASKPRIO_MAX, CFG_OS_TIMER_PRIORITY
Places == 0 .. RequestLen - 1
RequestTask == "modbus_rtu_request_task"
TimeoutTask == "modbus_rtu_rx_timeout_cb"
Tasks == {RequestTask, TimeoutTask}

VARIABLES
  mpc,      \* the master is "idle", about to "write" or to "read"
  req,      \* the request of the current or last call
  retry,    \* the tries it has used
  result,   \* of the last call: "none" yet, "ok" or "failed"
  got,      \* history: the request that the answer it took was to
  wire,     \* bytes on the way to the slave
  input,    \* bytes on the way to the master, or in its UART buffer
  state,    \* rx.state
  rx,       \* rx[i]: the byte last received in state i
  timer,    \* the timer is "off", "on", or "fired" but still in the list
  queue, running,
  calls, noise,  \* calls and foreign bytes so far
  early,    \* history: something of an earlier try was under way at a
            \* timeout, or of an earlier call when this one began
  mixed,    \* history: in this call a task worked on something else than a request
  dropped   \* history: the expiry of the timer of this frame was dropped

master == <<mpc, req, retry, result, got, calls>>
parser == <<state, rx, timer>>
tasks == <<queue, running>>
vars == <<master, wire, input, parser, tasks, noise, early, mixed, dropped>>

Fifo == INSTANCE OsTaskFifo WITH Prio <- {Prio}

Pending(t) == t \in Range(queue[Prio])     \* the running task included

(* A request or an answer has not come to its end yet. *)
UnderWay == wire # <<>> \/ input # <<>> \/ Pending(RequestTask)

Unset == [req |-> Noise, ix |-> 0]
Bytes(r) == [i \in 1 .. RequestLen |-> [req |-> r, ix |-> i - 1]]
Answer(r, n) == [i \in 1 .. n |-> [req |-> r, ix |-> i, len |-> n]]
IsRequest(f, r) == \A i \in Places : f[i] = [req |-> r, ix |-> i]

Init ==
  /\ mpc = "idle" /\ retry = 0 /\ calls = 0 /\ result = "none"
  /\ req = Noise /\ got = Noise
  /\ wire = <<>> /\ input = <<>>
  /\ state = 0 /\ timer = "off"
  /\ rx = [i \in Places |-> Unset]
  /\ Fifo!Init
  /\ noise = 0
  /\ early = FALSE /\ mixed = FALSE /\ dropped = FALSE
-----------------------------------------------------------------------------
(* A caller of modbus_rtu_write_coil and the other operations. *)
Call ==
  /\ mpc = "idle" /\ calls < MaxCalls
  /\ \E op \in Ops : req' = [call |-> calls + 1, op |-> op]
  /\ calls' = calls + 1
  /\ mpc' = "write" /\ retry' = 0 /\ result' = "none"
  /\ early' = UnderWay /\ mixed' = FALSE
  /\ UNCHANGED <<got, wire, input, parser, tasks, noise, dropped>>

Return(r) == mpc' = "idle" /\ result' = r

(* for (retry = 0; retry < CFG_MODBUS_REQUEST_RETRY_CNT; retry++) *)
NextTry == /\ retry' = retry + 1
           /\ IF retry + 1 < RetryCnt THEN mpc' = "write" /\ result' = result
                                      ELSE Return("failed")

(* modbus_rtu_write_request, or the UART refuses it. *)
WriteRequest ==
  /\ mpc = "write" /\ Len(wire) + RequestLen <= MaxWire
  /\ \/ mpc' = "read" /\ wire' = wire \o Bytes(req) /\ result' = result
     \/ Return("failed") /\ wire' = wire
  /\ UNCHANGED <<req, retry, got, calls, input, parser, tasks, noise, early, mixed, dropped>>

Expected == AnswerLen[req.op]

(* The first n bytes are an answer with a matching checksum.  Neither its *)
(* address nor its function is looked at.                                 *)
Checked(n) == \E r \in Requests : SubSeq(input, 1, n) = Answer(r, n)

(* modbus_rtu_read_response reads as many bytes as a good answer has ... *)
ReadResponse ==
  /\ mpc = "read" /\ Len(input) >= Expected
  /\ input' = SubSeq(input, Expected + 1, Len(input))
  /\ IF Checked(Expected) THEN Return("ok") /\ got' = input[1].req /\ retry' = retry
                          ELSE NextTry /\ got' = got
  /\ UNCHANGED <<req, calls, wire, parser, tasks, noise, early, mixed, dropped>>

(* ... or fewer, when no more come in time; those are lost. *)
ReadTimeout ==
  /\ mpc = "read"
  /\ \E n \in 0 .. Expected - 1 :
       /\ n <= Len(input)
       /\ input' = SubSeq(input, n + 1, Len(input))
  /\ NextTry
  /\ UNCHANGED <<req, got, calls, wire, parser, tasks, noise, mixed, dropped>>
  /\ early' = (early \/ UnderWay')

Master == Call \/ WriteRequest \/ ReadResponse \/ ReadTimeout
-----------------------------------------------------------------------------
(* The bus: a byte is lost; between requests another device is heard. *)
LoseByte ==
  /\ \/ wire # <<>> /\ wire' = Tail(wire) /\ input' = input
     \/ input # <<>> /\ input' = Tail(input) /\ wire' = wire
  /\ UNCHANGED <<master, parser, tasks, noise, early, mixed, dropped>>

Hear ==
  /\ noise < MaxNoise /\ noise' = noise + 1 /\ wire = <<>>
  /\ wire' = Append(wire, [req |-> Noise, ix |-> 0])
  /\ UNCHANGED <<master, input, parser, tasks, early, mixed, dropped>>
-----------------------------------------------------------------------------
(* The fields of ctx->rx are f from now on; the model forgets those that    *)
(* nobody will read before they are written again.                         *)
Store(f) == rx' = [i \in Places |-> IF i < state' \/ Pending(RequestTask)' THEN f[i] ELSE Unset]

(* os_scheduler_push_task: refused when the queue is full, and nobody looks. *)
PushTask(t) == \/ Fifo!Accept(Prio, t)
               \/ Len(queue[Prio]) >= Capacity /\ UNCHANGED tasks

TakeByte == /\ wire # <<>>
            /\ wire' = Tail(wire)
            /\ Store([rx EXCEPT ![state] = Head(wire)])
            /\ UNCHANGED <<master, input, noise, early, mixed>>

(* Mutant of FirstByte: the timer is reset, which does nothing when it is off. *)
FirstByteResets ==
  /\ state = 0
  /\ state' = 1
  /\ UNCHANGED <<timer, tasks, dropped>>
  /\ TakeByte

(* hal_uart_recv_cb, state 0: os_timer_start.  A timer that has fired is   *)
(* still in the list and will be taken out of it.                          *)
FirstByte ==
  /\ state = 0
  /\ state' = 1
  /\ IF timer = "fired" THEN UNCHANGED <<timer, dropped>>
                        ELSE timer' = "on" /\ dropped' = FALSE
  /\ UNCHANGED tasks
  /\ TakeByte

(* States 1 to 6: os_timer_reset gives the timer more time, if it is on. *)
MiddleByte ==
  /\ state \in 1 .. RequestLen - 2
  /\ state' = state + 1
  /\ UNCHANGED <<timer, tasks, dropped>>
  /\ TakeByte

(* Mutants of LastByte: nothing is checked; the state goes on. *)
LastByteUnchecked ==
  /\ state = RequestLen - 1
  /\ state' = 0
  /\ PushTask(RequestTask)
  /\ UNCHANGED <<timer, dropped>>
  /\ TakeByte

LastByteCounts ==
  /\ state = RequestLen - 1
  /\ state' = state + 1
  /\ UNCHANGED <<timer, tasks, dropped>>
  /\ TakeByte

(* State 7: a request with our address and a good checksum goes to a task. *)
(* The timer runs on.                                                      *)
LastByte ==
  /\ state = RequestLen - 1 /\ wire # <<>>
  /\ state' = 0
  /\ IF \E r \in Requests : IsRequest([rx EXCEPT ![state] = Head(wire)], r)
       THEN PushTask(RequestTask)
       ELSE UNCHANGED tasks
  /\ UNCHANGED <<timer, dropped>>
  /\ TakeByte

RecvByte == FirstByte \/ MiddleByte \/ LastByte
-----------------------------------------------------------------------------
(* The timer interrupt: the expired one-shot is pushed to the queue, which *)
(* lets the UART interrupt in, and then removed from the list.             *)
Expire ==
  /\ timer = "on"
  /\ timer' = "fired"
  /\ PushTask(TimeoutTask)
  /\ dropped' = (dropped \/ UNCHANGED queue)
  /\ UNCHANGED <<master, wire, input, state, rx, noise, early, mixed>>

Settle ==
  /\ timer = "fired"
  /\ timer' = "off"
  /\ UNCHANGED <<master, wire, input, state, rx, tasks, noise, early, mixed, dropped>>

(* os_scheduler_schedule in the main loop, outside of the interrupts. *)
BeginTask ==
  /\ timer # "fired"
  /\ Fifo!Begin(Prio)
  /\ UNCHANGED <<master, wire, input, parser, noise, early, mixed, dropped>>

(* modbus_rtu_request_task: the callback of the program reads the request  *)
(* from ctx->rx; it answers, or fails, which is answered with an error, or *)
(* says nothing.  The answer is to the function and the register found.    *)
RunRequest ==
  /\ timer # "fired"
  /\ running = <<Prio, RequestTask>>
  /\ Fifo!Finish(Prio)
  /\ \E n \in {0, ErrorLen, AnswerLen[rx[1].req.op]} :
       LET bytes == input \o Answer(rx[1].req, n)
       IN  input' = IF Len(bytes) <= MaxInput THEN bytes ELSE SubSeq(bytes, 1, MaxInput)
  /\ mixed' = (mixed \/ ~\E r \in Requests : IsRequest(rx, r))
  /\ state' = state /\ Store(rx)
  /\ UNCHANGED <<master, wire, timer, noise, early, dropped>>

(* Mutant of RunTimeout: only the LED is changed. *)
RunTimeoutKeeps ==
  /\ timer # "fired"
  /\ running = <<Prio, TimeoutTask>>
  /\ Fifo!Finish(Prio)
  /\ UNCHANGED <<master, wire, input, parser, noise, early, mixed, dropped>>

(* modbus_rtu_rx_timeout_cb: whatever was received meanwhile is forgotten. *)
RunTimeout ==
  /\ timer # "fired"
  /\ running = <<Prio, TimeoutTask>>
  /\ Fifo!Finish(Prio)
  /\ state' = 0 /\ Store(rx)
  /\ UNCHANGED <<master, wire, input, timer, noise, early, mixed, dropped>>

Slave == RecvByte \/ Expire \/ Settle \/ BeginTask \/ RunRequest \/ RunTimeout

Next == Master \/ LoseByte \/ Hear \/ Slave

(* Bytes that arrive are handled, timers expire, the main loop goes round. *)
Fairness == /\ WF_vars(RecvByte) /\ WF_vars(Expire) /\ WF_vars(Settle)
            /\ WF_vars(BeginTask \/ RunRequest \/ RunTimeout)

Spec == Init /\ [][Next]_vars /\ Fairness
-----------------------------------------------------------------------------
(* What a byte may belong to, one of another device included. *)
AnyRequest == Requests \cup {Noise}

(* The master counts its tries, the parser stays within a request, and the *)
(* queue holds the tasks of the slave only.                                *)
TypeOK ==
  /\ mpc \in {"idle", "write", "read"}
  /\ req \in AnyRequest
  /\ retry \in 0 .. RetryCnt
  /\ result \in {"none", "ok", "failed"} /\ got \in AnyRequest
  /\ state \in 0 .. RequestLen - 1
  /\ rx \in [Places -> [req : AnyRequest, ix : Places]]
  /\ timer \in {"off", "on", "fired"}
  /\ queue \in [{Prio} -> Seq(Tasks)] /\ Len(queue[Prio]) <= Capacity
  /\ running \in {<<>>} \cup ({Prio} \X Tasks)
  /\ {early, mixed, dropped} \subseteq BOOLEAN

(* A request that was begun never waits for ever for its rest: the timer   *)
(* runs or its task is on the way, also when the first byte cuts into the  *)
(* interrupt that removes the timer.  Only a full task queue undoes this.  *)
ParserGuarded == state # 0 => timer = "on" \/ Pending(TimeoutTask) \/ dropped

(* The task is pushed without the request, which stays in ctx->rx: it is   *)
(* executed on what was pushed for as long as the master waits for an      *)
(* answer and nobody else sends.                                           *)
FrameKept == mixed => early \/ noise > 0

(* The master repeats without emptying its input, and compares nothing but *)
(* the checksum: the answer it takes is to the current call if its timeout *)
(* is longer than the slave takes, for this call and for the ones before.  *)
SuccessIsOurs ==
  result = "ok" /\ ~early /\ noise = 0 => got = req

(* A request of which bytes were lost does not spoil the next ones for     *)
(* ever: the parser comes back to its first state.                         *)
ParserRecovers == state # 0 ~> (state = 0 \/ dropped)
=============================================================================
