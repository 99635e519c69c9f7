------------------------------- MODULE ZwLink -------------------------------
(***************************************************************************)
(* The Z-Wave serial link, core/net/zwapi/zw_serialapi_link.c: a stop-and- *)
(* wait link to the Z-Wave module over a UART.                             *)
(*                                                                         *)
(* Three threads share one zw_serialapi_link_t without a lock: the sender  *)
(* in zw_serialapi_link_send, the receiver zw_serialapi_link_thread, and   *)
(* the timer service, which runs ack_timer_callback and                    *)
(* data_timer_callback.  Any of them may be preempted between two accesses *)
(* to the shared object.  All three may run send_frame and resend_frame,   *)
(* so these are steps of a thread th.                                      *)
(*                                                                         *)
(* The bytes LEN, TYPE, CMD and DATA of a received frame are one parser    *)
(* state "BODY"; whether such a byte is acceptable, the last, or a CRC     *)
(* matches, is left open.  The frame counters, which are only traced, are  *)
(* left out.                                                               *)
(***************************************************************************)
EXTENDS Integers, Sequences

CONSTANTS
  RetryCount,  \* ZW_LINK_TX_RETRY_COUNT
  RxFrames,    \* ZW_LINK_RX_FRAMES_SIZE: the receive buffers, and the queue
  Answers,     \* the control bytes the module answers a frame with
  MaxSends,    \* bound: calls of zw_serialapi_link_send
  MaxFrames,   \* bound: frames that the module sends
  MaxWire      \* bound: bytes of the module that wait in the UART

ASSUME RetryCountAssumption == RetryCount \in Nat \ {0}
ASSUME RxFramesAssumption == RxFrames \in Nat \ {0}
ASSUME AnswersAssumption == Answers \subseteq {"ACK", "NAK", "CAN"}
ASSUME BoundsAssumption == MaxSends \in Nat /\ MaxFrames \in Nat /\ MaxWire \in Nat

Threads == {"sender", "receiver", "timer"}
Slots == 0 .. RxFrames - 1

VARIABLES
  tx_state, retry_cnt,
  txframe_sem,      \* the tokens of the binary semaphore
  ack_timer,        \* the timer runs
  rx_state,         \* "SOF", "BODY" (the states LEN to DATA) or "CRC"
  data_timer,       \* the timer runs
  head,             \* rx_frames.head
  queue,            \* rx_frames.queue_id: pointers to buffers, as indices
  pc,               \* pc[th]: the next step of thread th
  c,                \* the byte the receiver handles in state SOF
  line,             \* frames on the way to the module: the send they are of
  wire,             \* bytes on the way from the module
  sends, frames,    \* calls of link_send and frames of the module so far
  received,         \* history: the module got the frame of the current send
  result,           \* history: the result of the last send that returned
  bogus,            \* history: a bogus byte was met during the current send
  crossed,          \* history: a frame arrived while an ACK was awaited
  late              \* history: an ACK timeout and an answer of the module crossed

tx == <<tx_state, retry_cnt, txframe_sem, ack_timer>>
rx == <<rx_state, data_timer, head, queue>>
channels == <<line, wire>>
history == <<received, result, bogus, crossed, late>>
vars == <<tx, rx, pc, c, channels, sends, frames, history>>

Goto(th, l) == pc' = [pc EXCEPT ![th] = l]

(* The steps of send_frame and resend_frame. *)
Steps == {"resend", "write", "start", "mark", "error", "stop", "release"}

(* Where a thread continues after send_frame or resend_frame. *)
Return(th) == CASE th = "sender"   -> "wait"
                [] th = "receiver" -> "getchar"
                [] th = "timer"    -> "off"
-----------------------------------------------------------------------------
(* Mutant of Init: the token the semaphore is created with is not taken. *)
InitKeepsToken ==
  /\ tx_state = "IDLE" /\ retry_cnt = 0 /\ txframe_sem = 1 /\ ack_timer = FALSE
  /\ rx_state = "SOF" /\ data_timer = FALSE /\ head = 0 /\ queue = <<>>
  /\ pc = [sender |-> "idle", receiver |-> "getchar", timer |-> "off"]
  /\ c = "ACK"
  /\ line = <<>> /\ wire = <<>>
  /\ sends = 0 /\ frames = 0
  /\ received = FALSE /\ result = "none"
  /\ bogus = FALSE /\ crossed = FALSE /\ late = FALSE

(* zw_serialapi_link_open leaves the semaphore without a token. *)
Init ==
  /\ tx_state = "IDLE" /\ retry_cnt = 0 /\ txframe_sem = 0 /\ ack_timer = FALSE
  /\ rx_state = "SOF" /\ data_timer = FALSE /\ head = 0 /\ queue = <<>>
  /\ pc = [sender |-> "idle", receiver |-> "getchar", timer |-> "off"]
  /\ c = "ACK"
  /\ line = <<>> /\ wire = <<>>
  /\ sends = 0 /\ frames = 0
  /\ received = FALSE /\ result = "none"
  /\ bogus = FALSE /\ crossed = FALSE /\ late = FALSE

-----------------------------------------------------------------------------
(* zw_serialapi_link_resend_frame: one more try, unless there were enough. *)
Resend(th) ==
  /\ pc[th] = "resend"
  /\ retry_cnt' = retry_cnt + 1
  /\ Goto(th, IF retry_cnt' < RetryCount THEN "write" ELSE "error")
  /\ UNCHANGED <<tx_state, txframe_sem, ack_timer, rx, c, channels, sends, frames, history>>

(* zw_serialapi_link_send_frame: the bytes, then the timer, then the state. *)
WriteFrame(th) ==
  /\ pc[th] = "write"
  /\ line' = Append(line, sends)
  /\ Goto(th, "start")
  /\ UNCHANGED <<tx, rx, c, wire, sends, frames, history>>

(* Mutant of StartAckTimer: only the first try starts the timer. *)
StartOnFirstTry(th) ==
  /\ pc[th] = "start"
  /\ ack_timer' = (retry_cnt = 0)
  /\ Goto(th, "mark")
  /\ UNCHANGED <<tx_state, retry_cnt, txframe_sem, rx, c, channels, sends, frames, history>>

StartAckTimer(th) ==
  /\ pc[th] = "start"
  /\ ack_timer' = TRUE
  /\ Goto(th, "mark")
  /\ UNCHANGED <<tx_state, retry_cnt, txframe_sem, rx, c, channels, sends, frames, history>>

AwaitAck(th) ==
  /\ pc[th] = "mark"
  /\ tx_state' = "ACK"
  /\ Goto(th, Return(th))
  /\ UNCHANGED <<retry_cnt, txframe_sem, ack_timer, rx, c, channels, sends, frames,
                 received, result, bogus, crossed, late>>

(* The tries are used up. *)
GiveUp(th) ==
  /\ pc[th] = "error"
  /\ tx_state' = "ERROR"
  /\ Goto(th, "stop")
  /\ UNCHANGED <<retry_cnt, txframe_sem, ack_timer, rx, c, channels, sends, frames, history>>

(* Mutant of StopAckTimer: no release follows. *)
StopWithoutRelease(th) ==
  /\ pc[th] = "stop"
  /\ ack_timer' = FALSE
  /\ Goto(th, Return(th))
  /\ UNCHANGED <<tx_state, retry_cnt, txframe_sem, rx, c, channels, sends, frames, history>>

StopAckTimer(th) ==
  /\ pc[th] = "stop"
  /\ ack_timer' = FALSE
  /\ Goto(th, "release")
  /\ UNCHANGED <<tx_state, retry_cnt, txframe_sem, rx, c, channels, sends, frames, history>>

(* Mutant of Release: a counting semaphore. *)
ReleaseCounting(th) ==
  /\ pc[th] = "release"
  /\ txframe_sem' = txframe_sem + 1
  /\ Goto(th, Return(th))
  /\ UNCHANGED <<tx_state, retry_cnt, ack_timer, rx, c, channels, sends, frames, history>>

(* osSemaphoreRelease: a binary semaphore never holds a second token. *)
Release(th) ==
  /\ pc[th] = "release"
  /\ txframe_sem' = 1
  /\ Goto(th, Return(th))
  /\ UNCHANGED <<tx_state, retry_cnt, ack_timer, rx, c, channels, sends, frames, history>>

SendFrame(th) == Resend(th) \/ WriteFrame(th) \/ StartAckTimer(th) \/ AwaitAck(th)
                   \/ GiveUp(th) \/ StopAckTimer(th) \/ Release(th)
-----------------------------------------------------------------------------
(* zw_serialapi_link_send: set the frame and send it ... *)
Send ==
  /\ pc["sender"] = "idle"
  /\ sends < MaxSends
  /\ sends' = sends + 1
  /\ retry_cnt' = 0
  /\ received' = FALSE /\ result' = "none" /\ bogus' = FALSE
  /\ Goto("sender", "write")
  /\ UNCHANGED <<tx_state, txframe_sem, ack_timer, rx, c, channels, frames, crossed, late>>

(* ... wait for the token, without a timeout ... *)
WaitTxFrame ==
  /\ pc["sender"] = "wait"
  /\ txframe_sem = 1
  /\ txframe_sem' = 0
  /\ Goto("sender", "check")
  /\ UNCHANGED <<tx_state, retry_cnt, ack_timer, rx, c, channels, sends, frames, history>>

(* Mutant of SendReturn: the state is not looked at. *)
SendReturnOk ==
  /\ pc["sender"] = "check"
  /\ result' = "ok"
  /\ tx_state' = "IDLE"
  /\ Goto("sender", "idle")
  /\ UNCHANGED <<retry_cnt, txframe_sem, ack_timer, rx, c, channels, sends, frames,
                 received, bogus, crossed, late>>

(* ... and return what the state says. *)
SendReturn ==
  /\ pc["sender"] = "check"
  /\ result' = IF tx_state = "DONE" THEN "ok" ELSE "fail"
  /\ tx_state' = "IDLE"
  /\ Goto("sender", "idle")
  /\ UNCHANGED <<retry_cnt, txframe_sem, ack_timer, rx, c, channels, sends, frames,
                 received, bogus, crossed, late>>

Sender == SendFrame("sender") \/ WaitTxFrame \/ SendReturn
-----------------------------------------------------------------------------
(* zw_serialapi_link_thread: read a byte and switch on rx_state. *)
GetChar ==
  /\ pc["receiver"] = "getchar"
  /\ wire # <<>>
  /\ c' = IF rx_state = "SOF" THEN Head(wire) ELSE c
  /\ wire' = Tail(wire)
  /\ Goto("receiver", IF rx_state = "SOF" THEN IF c' = "SOF" THEN "sof" ELSE "control"
                      ELSE IF rx_state = "BODY" THEN "body" ELSE "crc")
  /\ UNCHANGED <<tx, rx, line, sends, frames, history>>

(* A frame begins; its bytes go to the buffer at head. *)
StartOfFrame ==
  /\ pc["receiver"] = "sof"
  /\ rx_state' = "BODY"
  /\ data_timer' = TRUE
  /\ Goto("receiver", "getchar")
  /\ UNCHANGED <<tx, head, queue, c, channels, sends, frames, history>>

(* Any other byte counts only while an ACK is awaited; it stops the timer. *)
IgnoreControl ==
  /\ pc["receiver"] = "control"
  /\ tx_state # "ACK"
  /\ Goto("receiver", "getchar")
  /\ UNCHANGED <<tx, rx, c, channels, sends, frames, history>>

AcceptControl ==
  /\ pc["receiver"] = "control"
  /\ tx_state = "ACK"
  /\ Goto("receiver", "take")
  /\ UNCHANGED <<tx, rx, c, channels, sends, frames, history>>

TakeControl ==
  /\ pc["receiver"] = "take"
  /\ ack_timer' = FALSE
  /\ Goto("receiver", CASE c = "ACK" -> "done"
                        [] c = "NAK" -> "resend"
                        [] OTHER     -> "getchar")
  /\ bogus' = (bogus \/ c \notin {"ACK", "NAK"})
  /\ late' = (late \/ pc["timer"] \in Steps)
  /\ UNCHANGED <<tx_state, retry_cnt, txframe_sem, rx, c, channels, sends, frames,
                 received, result, crossed>>

SendDone ==
  /\ pc["receiver"] = "done"
  /\ tx_state' = "DONE"
  /\ Goto("receiver", "release")
  /\ UNCHANGED <<retry_cnt, txframe_sem, ack_timer, rx, c, channels, sends, frames, history>>

(* A byte of the frame: a bad length or type abandons the frame, the last  *)
(* byte leads to the CRC.  rx_state++ takes the state as the data timeout  *)
(* may have left it: after SOF comes LEN.                                  *)
BodyByte ==
  /\ pc["receiver"] = "body"
  /\ \/ rx_state' = "SOF"
     \/ rx_state' = "BODY"
     \/ rx_state' = IF rx_state = "SOF" THEN "BODY" ELSE "CRC"
  /\ Goto("receiver", "getchar")
  /\ UNCHANGED <<tx, data_timer, head, queue, c, channels, sends, frames, history>>

(* The frame is complete.  While an ACK is awaited it is dropped, with a   *)
(* NAK, and the frame being sent is sent again, its retries reset.         *)
CrcWhileAck ==
  /\ pc["receiver"] = "crc"
  /\ tx_state = "ACK"
  /\ data_timer' = FALSE
  /\ retry_cnt' = 0
  /\ rx_state' = "SOF"
  /\ crossed' = TRUE
  /\ Goto("receiver", "resend")
  /\ UNCHANGED <<tx_state, txframe_sem, ack_timer, head, queue, c, channels, sends, frames,
                 received, result, bogus, late>>

(* Mutant of CrcReceive: head moves on although the frame was refused. *)
CrcReceiveAlwaysAdvances ==
  /\ pc["receiver"] = "crc"
  /\ tx_state # "ACK"
  /\ data_timer' = FALSE
  /\ rx_state' = "SOF"
  /\ head' = (head + 1) % RxFrames
  /\ \/ Len(queue) < RxFrames /\ queue' = Append(queue, head)
     \/ UNCHANGED queue
  /\ Goto("receiver", "getchar")
  /\ UNCHANGED <<tx, c, channels, sends, frames, history>>

(* Otherwise a good frame is queued and acknowledged, when the queue has   *)
(* room; a bad one, or one too many, is answered with a NAK.               *)
CrcReceive ==
  /\ pc["receiver"] = "crc"
  /\ tx_state # "ACK"
  /\ data_timer' = FALSE
  /\ rx_state' = "SOF"
  /\ \/ /\ Len(queue) < RxFrames
        /\ queue' = Append(queue, head)
        /\ head' = (head + 1) % RxFrames
     \/ UNCHANGED <<queue, head>>
  /\ Goto("receiver", "getchar")
  /\ UNCHANGED <<tx, c, channels, sends, frames, history>>

Receiver == SendFrame("receiver") \/ GetChar \/ StartOfFrame \/ IgnoreControl
              \/ AcceptControl \/ TakeControl \/ SendDone \/ BodyByte \/ CrcWhileAck \/ CrcReceive

(* zw_serialapi_link_recv. *)
Recv ==
  /\ queue # <<>>
  /\ queue' = Tail(queue)
  /\ UNCHANGED <<tx, rx_state, data_timer, head, pc, c, channels, sends, frames, history>>
-----------------------------------------------------------------------------
(* The answers the module gave that the receiver has not handled. *)
AnswerOnTheWay ==
  \/ line # <<>>
  \/ \E i \in DOMAIN wire : wire[i] \in {"ACK", "NAK"}
  \/ pc["receiver"] \notin {"getchar", "body", "crc", "sof"}

(* ack_timer_callback. *)
AckTimeout ==
  /\ ack_timer /\ pc["timer"] = "off"
  /\ ack_timer' = FALSE
  /\ late' = (late \/ AnswerOnTheWay)
  /\ Goto("timer", "resend")
  /\ UNCHANGED <<tx_state, retry_cnt, txframe_sem, rx, c, channels, sends, frames,
                 received, result, bogus, crossed>>

(* data_timer_callback; the receiver may go on before it takes effect. *)
DataTimeout ==
  /\ data_timer /\ pc["timer"] = "off"
  /\ data_timer' = FALSE
  /\ Goto("timer", "data")
  /\ UNCHANGED <<tx, rx_state, head, queue, c, channels, sends, frames, history>>

HuntForSof ==
  /\ pc["timer"] = "data"
  /\ rx_state' = "SOF"
  /\ Goto("timer", "off")
  /\ UNCHANGED <<tx, data_timer, head, queue, c, channels, sends, frames, history>>

Timer == SendFrame("timer") \/ AckTimeout \/ DataTimeout \/ HuntForSof
-----------------------------------------------------------------------------
(* The Z-Wave module: it takes a frame or misses it, and its answer, if it *)
(* gives one, may get lost.                                                *)
ModuleTakes ==
  /\ line # <<>>
  /\ line' = Tail(line)
  /\ \/ UNCHANGED <<wire, received>>
     \/ /\ received' = (received \/ Head(line) = sends)
        /\ UNCHANGED wire
     \/ \E a \in Answers :
          /\ Len(wire) < MaxWire
          /\ wire' = Append(wire, a)
          /\ received' = (received \/ (a = "ACK" /\ Head(line) = sends))
  /\ UNCHANGED <<tx, rx, pc, c, sends, frames, result, bogus, crossed, late>>

(* It sends a frame of its own. *)
ModuleSends ==
  /\ frames < MaxFrames
  /\ Len(wire) + 3 <= MaxWire
  /\ frames' = frames + 1
  /\ wire' = wire \o <<"SOF", "BYTE", "BYTE">>
  /\ UNCHANGED <<tx, rx, pc, c, line, sends, history>>

(* A byte gets lost on the way. *)
LoseByte ==
  /\ wire # <<>>
  /\ wire' = Tail(wire)
  /\ UNCHANGED <<tx, rx, pc, c, line, sends, frames, history>>

Next == Send \/ Sender \/ Receiver \/ Recv \/ Timer
          \/ ModuleTakes \/ ModuleSends \/ LoseByte

Spec == Init /\ [][Next]_vars

(* The threads run, and a timer that is not stopped expires.  Nothing is   *)
(* assumed of the module.                                                  *)
FairSpec ==
  /\ Spec
  /\ WF_vars(Sender) /\ WF_vars(Receiver)
  /\ WF_vars(SendFrame("timer")) /\ WF_vars(AckTimeout) /\ WF_vars(DataTimeout \/ HuntForSof)
-----------------------------------------------------------------------------
(* The steps each thread can be at. *)
SenderSteps == Steps \cup {"idle", "wait", "check"}
ReceiverSteps == Steps \cup {"getchar", "sof", "control", "take", "done", "body", "crc"}
TimerSteps == Steps \cup {"off", "data"}

(* Every field keeps to the values its declaration names, the semaphore    *)
(* holds one token at most and the queue one pointer per buffer, whatever  *)
(* steps of the three threads interleave.                                  *)
TypeOK ==
  /\ tx_state \in {"IDLE", "ACK", "DONE", "ERROR"}
  /\ retry_cnt \in Nat
  /\ txframe_sem \in {0, 1} /\ ack_timer \in BOOLEAN
  /\ rx_state \in {"SOF", "BODY", "CRC"} /\ data_timer \in BOOLEAN
  /\ head \in Slots /\ queue \in Seq(Slots) /\ Len(queue) <= RxFrames
  /\ pc \in [Threads -> SenderSteps \cup ReceiverSteps \cup TimerSteps]
  /\ pc["sender"] \in SenderSteps /\ pc["receiver"] \in ReceiverSteps
  /\ pc["timer"] \in TimerSteps

(* The steps of a thread that lead to a release or start ack_timer. *)
WillWake == {"resend", "write", "start", "error", "stop", "release", "done"}

(* The token is there, or ack_timer runs, or another thread is on its way  *)
(* to one of them.                                                         *)
WakeComes ==
  \/ txframe_sem = 1
  \/ ack_timer
  \/ \E th \in {"receiver", "timer"} : pc[th] \in WillWake
  \/ pc["receiver"] = "take" /\ c \in {"ACK", "NAK"}

(* A sender that waits for its token, without a timeout, is never left     *)
(* alone, whatever the other two threads do in between.  The exception is  *)
(* a send that met a bogus byte, which stops ack_timer and does nothing    *)
(* else.                                                                   *)
WaitingIsGuarded == pc["sender"] = "wait" /\ ~bogus => WakeComes

(* Answers and timeouts are matched to sends by nothing but their order.   *)
(* It holds as long as no frame has arrived while an ACK was awaited and   *)
(* no ACK timeout has crossed an answer.                                   *)
InStep == ~(crossed \/ late)

(* In step, no send leaves a token behind that would end the next one      *)
(* before its answer.                                                      *)
NoStaleToken == InStep /\ txframe_sem = 1 => pc["sender"] \notin {"idle", "check"}

(* In step, zw_serialapi_link_send returns 0 only for a frame that the     *)
(* module took.                                                            *)
SuccessMeansReceived == InStep /\ result = "ok" => received

(* The queue points to the buffers just before head, oldest first: the     *)
(* buffer the next frame is written to is not one that waits in the queue, *)
(* unless the queue is full.                                               *)
RxRing ==
  \A i \in DOMAIN queue : queue[i] = (head + RxFrames - Len(queue) + i - 1) % RxFrames

(* "Wait until ACK is not received or timeout": zw_serialapi_link_send     *)
(* returns, whatever the module does, unless it meets a bogus byte.        *)
SendReturns == pc["sender"] = "wait" ~> pc["sender"] # "wait" \/ bogus

(* The same without the exception. *)
SendAlwaysReturns == pc["sender"] = "wait" ~> pc["sender"] # "wait"
=============================================================================
