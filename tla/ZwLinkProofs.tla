---------------------------- MODULE ZwLinkProofs ----------------------------
(***************************************************************************)
(* Proofs about ZwLink, for every number of tries, receive buffers and     *)
(* sends, and every set of answers of the module.                          *)
(***************************************************************************)
EXTENDS ZwLink, SequenceTheorems, TLAPS

USE RetryCountAssumption, RxFramesAssumption, AnswersAssumption, BoundsAssumption

(* The steps of send_frame and resend_frame keep the types, whichever      *)
(* thread takes them.                                                      *)
LEMMA SendFrameTypes ==
  ASSUME TypeOK, NEW th \in Threads, SendFrame(th)
  PROVE  TypeOK'
<1> USE DEF Threads, SenderSteps, ReceiverSteps, TimerSteps, Steps, Goto, Return, rx, tx
<1>1. CASE Resend(th)
  BY <1>1 DEF TypeOK, Resend
<1>2. CASE WriteFrame(th)
  BY <1>2 DEF TypeOK, WriteFrame
<1>3. CASE StartAckTimer(th)
  BY <1>3 DEF TypeOK, StartAckTimer
<1>4. CASE AwaitAck(th)
  BY <1>4 DEF TypeOK, AwaitAck
<1>5. CASE GiveUp(th)
  BY <1>5 DEF TypeOK, GiveUp
<1>6. CASE StopAckTimer(th)
  BY <1>6 DEF TypeOK, StopAckTimer
<1>7. CASE Release(th)
  BY <1>7 DEF TypeOK, Release
<1> QED BY <1>1, <1>2, <1>3, <1>4, <1>5, <1>6, <1>7 DEF SendFrame

(* Every step keeps the types.                                             *)
LEMMA TypeStep ==
  ASSUME TypeOK, [Next]_vars
  PROVE  TypeOK'
<1> USE DEF Threads, SenderSteps, ReceiverSteps, TimerSteps, Steps, Goto, rx, tx
<1>1. CASE Send
  BY <1>1 DEF TypeOK, Send
<1>2. CASE Sender
  <2>1. CASE SendFrame("sender")
    BY <2>1, SendFrameTypes
  <2>2. CASE WaitTxFrame
    BY <2>2 DEF TypeOK, WaitTxFrame
  <2>3. CASE SendReturn
    BY <2>3 DEF TypeOK, SendReturn
  <2> QED BY <1>2, <2>1, <2>2, <2>3 DEF Sender
<1>3. CASE Receiver
  <2>1. CASE SendFrame("receiver")
    BY <2>1, SendFrameTypes
  <2>2. CASE GetChar
    BY <2>2 DEF TypeOK, GetChar
  <2>3. CASE StartOfFrame
    BY <2>3 DEF TypeOK, StartOfFrame
  <2>4. CASE IgnoreControl \/ AcceptControl
    BY <2>4 DEF TypeOK, IgnoreControl, AcceptControl
  <2>5. CASE SendDone
    BY <2>5 DEF TypeOK, SendDone
  <2>6. CASE TakeControl
    BY <2>6 DEF TypeOK, TakeControl
  <2>7. CASE BodyByte
    BY <2>7 DEF TypeOK, BodyByte
  <2>8. CASE CrcWhileAck
    BY <2>8 DEF TypeOK, CrcWhileAck
  <2>9. CASE CrcReceive
    <3>1. (head + 1) % RxFrames \in Slots
      BY DEF TypeOK, Slots
    <3>2. ASSUME Len(queue) < RxFrames
          PROVE  Append(queue, head) \in Seq(Slots) /\ Len(Append(queue, head)) <= RxFrames
      BY <3>2 DEF TypeOK, Slots
    <3> QED BY <2>9, <3>1, <3>2 DEF TypeOK, CrcReceive
  <2> QED BY <1>3, <2>1, <2>2, <2>3, <2>4, <2>5, <2>6, <2>7, <2>8, <2>9
         DEF Receiver
<1>4. CASE Recv
  <2>1. Tail(queue) \in Seq(Slots) /\ Len(Tail(queue)) <= RxFrames
    BY <1>4 DEF TypeOK, Recv, Slots
  <2> QED BY <1>4, <2>1 DEF TypeOK, Recv
<1>5. CASE Timer
  <2>1. CASE SendFrame("timer")
    BY <2>1, SendFrameTypes
  <2>2. CASE AckTimeout
    BY <2>2 DEF TypeOK, AckTimeout
  <2>3. CASE DataTimeout
    BY <2>3 DEF TypeOK, DataTimeout
  <2>4. CASE HuntForSof
    BY <2>4 DEF TypeOK, HuntForSof
  <2> QED BY <1>5, <2>1, <2>2, <2>3, <2>4 DEF Timer
<1>6. CASE ModuleTakes \/ ModuleSends \/ LoseByte
  BY <1>6 DEF TypeOK, ModuleTakes, ModuleSends, LoseByte
<1>7. CASE UNCHANGED vars
  BY <1>7 DEF TypeOK, vars
<1> QED BY <1>1, <1>2, <1>3, <1>4, <1>5, <1>6, <1>7 DEF Next

LEMMA InitTypes == Init => TypeOK
<1> SUFFICES ASSUME Init PROVE TypeOK
  OBVIOUS
<1>1. head \in Slots /\ queue \in Seq(Slots) /\ Len(queue) <= RxFrames
  BY DEF Init, Slots
<1>2. /\ pc \in [Threads -> SenderSteps \cup ReceiverSteps \cup TimerSteps]
      /\ pc["sender"] \in SenderSteps /\ pc["receiver"] \in ReceiverSteps
      /\ pc["timer"] \in TimerSteps
  BY DEF Init, Threads, SenderSteps, ReceiverSteps, TimerSteps
<1> QED BY <1>1, <1>2 DEF Init, TypeOK

(* Type correctness of the link.                                           *)
THEOREM TypeCorrect == Spec => []TypeOK
BY InitTypes, TypeStep, PTL DEF Spec

-----------------------------------------------------------------------------
(* The inductive invariant of the sender's wait: the wake-up is on its way *)
(* from the moment the sender has started ack_timer, one step before it    *)
(* waits.                                                                  *)
Guarded == pc["sender"] \in {"mark", "wait"} /\ ~bogus => WakeComes

(* The steps of send_frame and resend_frame keep Guarded, whichever thread *)
(* takes them: a thread leaves the steps of WillWake only by starting      *)
(* ack_timer or by releasing the semaphore, and stops ack_timer only on    *)
(* its way to a release.                                                   *)
LEMMA SendFrameGuarded ==
  ASSUME TypeOK, Guarded, NEW th \in Threads, SendFrame(th)
  PROVE  Guarded'
<1> USE DEF Threads, Steps, Goto, Return, history, WillWake
<1>1. CASE Resend(th)
  BY <1>1 DEF TypeOK, Guarded, WakeComes, Resend
<1>2. CASE WriteFrame(th)
  BY <1>2 DEF TypeOK, Guarded, WakeComes, WriteFrame, tx
<1>3. CASE StartAckTimer(th)
  BY <1>3 DEF TypeOK, Guarded, WakeComes, StartAckTimer
<1>4. CASE AwaitAck(th)
  BY <1>4 DEF TypeOK, Guarded, WakeComes, AwaitAck
<1>5. CASE GiveUp(th)
  BY <1>5 DEF TypeOK, Guarded, WakeComes, GiveUp
<1>6. CASE StopAckTimer(th)
  BY <1>6 DEF TypeOK, Guarded, WakeComes, StopAckTimer
<1>7. CASE Release(th)
  BY <1>7 DEF TypeOK, Guarded, WakeComes, Release
<1> QED BY <1>1, <1>2, <1>3, <1>4, <1>5, <1>6, <1>7 DEF SendFrame

LEMMA GuardedStep ==
  ASSUME TypeOK, Guarded, [Next]_vars
  PROVE  Guarded'
<1> USE DEF Threads, Goto, WillWake
<1>1. CASE Send
  BY <1>1 DEF TypeOK, Guarded, Send
<1>2. CASE Sender
  <2>1. CASE SendFrame("sender")
    BY <2>1, SendFrameGuarded
  <2>2. CASE WaitTxFrame
    BY <2>2 DEF TypeOK, Guarded, WaitTxFrame
  <2>3. CASE SendReturn
    BY <2>3 DEF TypeOK, Guarded, SendReturn
  <2> QED BY <1>2, <2>1, <2>2, <2>3 DEF Sender
<1>3. CASE Receiver
  <2> USE DEF tx, history, Guarded, WakeComes
  <2>1. CASE SendFrame("receiver")
    BY <2>1, SendFrameGuarded
  <2>2. CASE GetChar
    BY <2>2 DEF TypeOK, GetChar
  <2>3. CASE StartOfFrame
    BY <2>3 DEF TypeOK, StartOfFrame
  <2>4. CASE IgnoreControl
    BY <2>4 DEF TypeOK, IgnoreControl
  <2>5. CASE AcceptControl
    BY <2>5 DEF TypeOK, AcceptControl
  <2>6. CASE TakeControl
    BY <2>6 DEF TypeOK, TakeControl
  <2>7. CASE SendDone
    BY <2>7 DEF TypeOK, SendDone
  <2>8. CASE BodyByte
    BY <2>8 DEF TypeOK, BodyByte
  <2>9. CASE CrcWhileAck
    BY <2>9 DEF TypeOK, CrcWhileAck
  <2>10. CASE CrcReceive
    BY <2>10 DEF TypeOK, CrcReceive
  <2> QED BY <1>3, <2>1, <2>2, <2>3, <2>4, <2>5, <2>6, <2>7, <2>8, <2>9, <2>10
          DEF Receiver
<1>4. CASE Recv
  BY <1>4 DEF Guarded, WakeComes, Recv, tx, history
<1>5. CASE Timer
  <2>1. CASE SendFrame("timer")
    BY <2>1, SendFrameGuarded
  <2>2. CASE AckTimeout
    BY <2>2 DEF TypeOK, Guarded, WakeComes, AckTimeout
  <2>3. CASE DataTimeout
    BY <2>3 DEF TypeOK, Guarded, WakeComes, DataTimeout, tx, history
  <2>4. CASE HuntForSof
    BY <2>4 DEF TypeOK, Guarded, WakeComes, HuntForSof, tx, history
  <2> QED BY <1>5, <2>1, <2>2, <2>3, <2>4 DEF Timer
<1>6. CASE ModuleTakes \/ ModuleSends \/ LoseByte
  BY <1>6 DEF Guarded, WakeComes, ModuleTakes, ModuleSends, LoseByte, tx, history
<1>7. CASE UNCHANGED vars
  BY <1>7 DEF Guarded, WakeComes, vars, tx, history
<1> QED BY <1>1, <1>2, <1>3, <1>4, <1>5, <1>6, <1>7 DEF Next

(* A waiting sender is never left alone, unless a bogus byte was met.      *)
THEOREM SenderIsWoken == Spec => []WaitingIsGuarded
<1>1. Init => Guarded
  BY DEF Init, Guarded
<1>2. Guarded => WaitingIsGuarded
  BY DEF Guarded, WaitingIsGuarded
<1> QED BY <1>1, <1>2, TypeCorrect, GuardedStep, PTL DEF Spec

-----------------------------------------------------------------------------
(* An index stays within two rounds of the ring before it is wrapped.      *)
Wrap(x) == x % RxFrames

LEMMA WrapOnce ==
  ASSUME NEW x \in 0 .. 2 * RxFrames - 1
  PROVE  Wrap(x) = IF x < RxFrames THEN x ELSE x - RxFrames
BY DEF Wrap

(* A frame received is queued behind the others, at the end of the ring.   *)
LEMMA QueuedAtHead ==
  ASSUME TypeOK, RxRing, Len(queue) < RxFrames,
         queue' = Append(queue, head), head' = Wrap(head + 1)
  PROVE  RxRing'
<1>1. head \in 0 .. RxFrames - 1 /\ queue \in Seq(Slots)
  BY DEF TypeOK, Slots
<1>2. head' = IF head = RxFrames - 1 THEN 0 ELSE head + 1
  BY <1>1, WrapOnce
<1>3. Len(queue') = Len(queue) + 1 /\ DOMAIN queue' = 1 .. Len(queue) + 1
  BY <1>1
<1> SUFFICES ASSUME NEW i \in 1 .. Len(queue) + 1
             PROVE  queue'[i] = Wrap(head' + RxFrames - (Len(queue) + 1) + i - 1)
  BY <1>3 DEF RxRing, Wrap
<1>4. CASE i = Len(queue) + 1
  <2>1. queue'[i] = head
    BY <1>1, <1>4
  <2>2. Wrap(head' + RxFrames - 1) = head
    BY <1>1, <1>2, WrapOnce
  <2>3. head' + RxFrames - (Len(queue) + 1) + i - 1 = head' + RxFrames - 1
    BY <1>1, <1>2, <1>4
  <2> QED BY <2>1, <2>2, <2>3
<1>5. CASE i \in 1 .. Len(queue)
  <2>1. queue'[i] = Wrap(head + RxFrames - Len(queue) + i - 1)
    <3>1. queue'[i] = queue[i] /\ i \in DOMAIN queue
      BY <1>1, <1>5
    <3> QED BY <3>1 DEF RxRing, Wrap
  <2>2. CASE head # RxFrames - 1
    <3>1. head' + RxFrames - (Len(queue) + 1) + i - 1 = head + RxFrames - Len(queue) + i - 1
      <4>1. head' = head + 1 /\ head \in Int /\ Len(queue) \in Int /\ i \in Int
        BY <1>1, <1>2, <2>2
      <4>2. ASSUME NEW h \in Int, NEW n \in Int, NEW j \in Int
            PROVE  (h + 1) + RxFrames - (n + 1) + j - 1 = h + RxFrames - n + j - 1
        OBVIOUS
      <4> QED BY <4>1, <4>2
    <3> QED BY <2>1, <3>1
  <2>3. CASE head = RxFrames - 1
    <3>1. Wrap(head + RxFrames - Len(queue) + i - 1) = RxFrames - 1 - Len(queue) + i - 1
      BY <1>1, <1>5, <2>3, WrapOnce
    <3>2. Wrap(head' + RxFrames - (Len(queue) + 1) + i - 1) = RxFrames - (Len(queue) + 1) + i - 1
      BY <1>1, <1>2, <1>5, <2>3, WrapOnce
    <3> QED BY <1>1, <1>5, <2>1, <3>1, <3>2
  <2> QED BY <2>2, <2>3
<1> QED BY <1>1, <1>4, <1>5

(* Taking the oldest frame leaves the others in their place.               *)
LEMMA TakenFromTail ==
  ASSUME TypeOK, RxRing, queue # <<>>, queue' = Tail(queue), head' = head
  PROVE  RxRing'
<1>1. head \in Slots /\ queue \in Seq(Slots)
  BY DEF TypeOK
<1>2. /\ Len(queue') = Len(queue) - 1 /\ DOMAIN queue' = 1 .. Len(queue) - 1
      /\ \A i \in 1 .. Len(queue) - 1 : queue'[i] = queue[i + 1]
  BY <1>1
<1> SUFFICES ASSUME NEW i \in 1 .. Len(queue) - 1
             PROVE  queue[i + 1] = (head + RxFrames - (Len(queue) - 1) + i - 1) % RxFrames
  BY <1>2 DEF RxRing
<1>3. queue[i + 1] = (head + RxFrames - Len(queue) + (i + 1) - 1) % RxFrames
  BY <1>1 DEF RxRing
<1> QED BY <1>1, <1>3 DEF Slots

LEMMA RxRingStep ==
  ASSUME TypeOK, RxRing, [Next]_vars
  PROVE  RxRing'
<1>1. CASE CrcReceive /\ UNCHANGED <<queue, head>>
  BY <1>1 DEF RxRing
<1>2. CASE CrcReceive /\ ~UNCHANGED <<queue, head>>
  BY <1>2, QueuedAtHead DEF CrcReceive, Wrap
<1>3. CASE Recv
  BY <1>3, TakenFromTail DEF Recv
<1>4. CASE UNCHANGED <<queue, head>>
  BY <1>4 DEF RxRing
<1>5. ASSUME NEW th \in Threads, SendFrame(th) PROVE UNCHANGED <<queue, head>>
  BY <1>5 DEF SendFrame, Resend, WriteFrame, StartAckTimer, AwaitAck, GiveUp, StopAckTimer,
              Release, rx
<1>6. CASE Send \/ Sender
  BY <1>4, <1>5, <1>6 DEF Send, Sender, WaitTxFrame, SendReturn, rx, Threads
<1>7. CASE Receiver /\ ~CrcReceive
  BY <1>4, <1>5, <1>7 DEF Receiver, GetChar, StartOfFrame, IgnoreControl, AcceptControl,
     TakeControl, SendDone, BodyByte, CrcWhileAck, rx, Threads
<1>8. CASE Timer
  BY <1>4, <1>5, <1>8 DEF Timer, AckTimeout, DataTimeout, HuntForSof, rx, Threads
<1>9. CASE ModuleTakes \/ ModuleSends \/ LoseByte \/ UNCHANGED vars
  BY <1>4, <1>9 DEF ModuleTakes, ModuleSends, LoseByte, vars, rx
<1> QED BY <1>1, <1>2, <1>3, <1>6, <1>7, <1>8, <1>9 DEF Next, Receiver

(* The receive queue and the buffer ring stay in step.                     *)
THEOREM RingInStep == Spec => []RxRing
<1>1. Init => RxRing
  BY DEF Init, RxRing
<1> QED BY <1>1, TypeCorrect, RxRingStep, PTL DEF Spec
-----------------------------------------------------------------------------
(* What is under way between the two ends. *)
Chars == {"ACK", "NAK", "CAN", "SOF", "BYTE"}
Channels == wire \in Seq(Chars) /\ line \in Seq(Nat) /\ sends \in Nat

(* In step, the two ends take turns.  A frame makes its way from the thread *)
(* that writes it to the module, its answer back to the receiver, and the   *)
(* token of the receiver or the timer back to the sender.  Only a thread    *)
(* that has written its frame may lag behind, at "start" or "mark".         *)
Answered == {"ACK", "NAK"}
Active == {"resend", "write", "error", "stop", "release", "done"}

HasTurn(p) ==
  \/ p = "line" /\ line # <<>>
  \/ p = "wire" /\ \E i \in DOMAIN wire : wire[i] \in Answered
  \/ p = "heard" /\ pc["receiver"] \in {"control", "take"} /\ c \in Answered
  \/ p = "receiver" /\ pc["receiver"] \in Active
  \/ p = "timer" /\ pc["timer"] \in Active
  \/ p = "token" /\ txframe_sem = 1
  \/ p = "sender" /\ pc["sender"] \in {"idle", "write", "check"}

Turns == {"line", "wire", "heard", "receiver", "timer", "token", "sender"}

OneTurn ==
  /\ \A p, q \in Turns : HasTurn(p) /\ HasTurn(q) => p = q
  /\ Len(line) <= 1
  /\ \A i, j \in DOMAIN wire : wire[i] \in Answered /\ wire[j] \in Answered => i = j

(* Neither the receiver nor the timer works on the frame, or will.         *)
AtRest == /\ ~ack_timer /\ pc["timer"] \notin Steps
          /\ pc["receiver"] \notin Steps \cup {"done"}

(* Who lags behind is not in the way of the others.                        *)
InOrder ==
  /\ pc["sender"] \in {"idle", "write", "start", "mark", "wait", "check"}
  /\ txframe_sem = 1 \/ pc["sender"] \in {"idle", "write", "start", "check"} => AtRest
  /\ pc["receiver"] \in Steps \cup {"done"} => pc["timer"] \notin Steps
  /\ ack_timer => pc["receiver"] \notin Active /\ pc["timer"] \notin Active
  /\ pc["sender"] = "start" =>
       txframe_sem = 0 /\ ~(pc["receiver"] = "take" /\ c \in Answered)
  /\ pc["sender"] \in {"idle", "write", "start"} => tx_state = "IDLE"

(* The frame on the line is of this send, and so is its ACK.               *)
Received ==
  /\ \A i \in DOMAIN line : line[i] = sends
  /\ (\E i \in DOMAIN wire : wire[i] = "ACK") => received
  /\ pc["receiver"] \in {"control", "take"} /\ c = "ACK" => received
  /\ pc["receiver"] = "done" => received
  /\ tx_state = "DONE" \/ result = "ok" => received

StepInv == InStep => OneTurn /\ InOrder /\ Received

TurnInv == OneTurn /\ InOrder /\ Received

LEMMA Passed ==
  ASSUME NEW n, \A p \in Turns : HasTurn(p)' => p = n,
         Len(line') <= 1,
         \A i, j \in DOMAIN wire' : wire'[i] \in Answered /\ wire'[j] \in Answered => i = j
  PROVE  OneTurn'
BY DEF OneTurn

LEMMA Kept ==
  ASSUME OneTurn, \A p \in Turns : HasTurn(p)' => HasTurn(p), UNCHANGED channels
  PROVE  OneTurn'
BY DEF OneTurn, channels

LEMMA Turn ==
  ASSUME OneTurn, NEW p \in Turns, HasTurn(p)
  PROVE  \A q \in Turns : HasTurn(q) => q = p
BY DEF OneTurn

LEMMA TurnSendFrame ==
  ASSUME TypeOK, TurnInv, NEW th \in Threads, SendFrame(th)
  PROVE  TurnInv'
<1> USE DEF Threads, Steps, Goto, Return, Turns, Active, TurnInv
<1>1. CASE Resend(th)
  <2>1. th # "sender"
    BY <1>1 DEF InOrder, Resend
  <2>2. \A p \in Turns : HasTurn(p)' => HasTurn(p)
    BY <1>1, <2>1 DEF TypeOK, HasTurn, Resend, channels
  <2>3. OneTurn'
    BY <1>1, <2>2, Kept DEF Resend
  <2>4. InOrder'
    BY <1>1, <2>1 DEF TypeOK, InOrder, AtRest, Resend
  <2>5. Received'
    BY <1>1, <2>1 DEF TypeOK, Received, Resend, channels, history
  <2> QED BY <2>3, <2>4, <2>5
<1>2. CASE WriteFrame(th)
  <2>1. HasTurn(th)
    BY <1>2 DEF HasTurn, WriteFrame
  <2>2. \A q \in Turns : HasTurn(q) => q = th
    BY <2>1, Turn
  <2>3. line = <<>> /\ ~(\E i \in DOMAIN wire : wire[i] \in Answered)
    BY <2>2 DEF HasTurn
  <2>4. line' = <<sends>> /\ wire' = wire
    BY <1>2, <2>3 DEF WriteFrame
  <2>5. \A q \in Turns : HasTurn(q)' => q = "line"
    BY <1>2, <2>2, <2>4 DEF TypeOK, HasTurn, WriteFrame, tx
  <2>6. OneTurn'
    BY <2>3, <2>4, <2>5, Passed
  <2>7. txframe_sem = 0 /\ ~(pc["receiver"] = "take" /\ c \in Answered)
    BY <2>2 DEF TypeOK, HasTurn
  <2>8. InOrder'
    BY <1>2, <2>7 DEF TypeOK, InOrder, AtRest, WriteFrame, tx
  <2>9. Received'
    BY <1>2, <2>4 DEF TypeOK, Received, WriteFrame, tx, history
  <2> QED BY <2>6, <2>8, <2>9
<1>3. CASE StartAckTimer(th)
  <2>1. \A p \in Turns : HasTurn(p)' => HasTurn(p)
    BY <1>3 DEF TypeOK, HasTurn, StartAckTimer, channels
  <2>2. OneTurn'
    BY <1>3, <2>1, Kept DEF StartAckTimer
  <2>3. /\ pc[th] = "start" /\ pc' = [pc EXCEPT ![th] = "mark"] /\ ack_timer'
        /\ UNCHANGED <<tx_state, txframe_sem, c>>
    BY <1>3 DEF StartAckTimer
  <2>4. txframe_sem # 1 /\ pc'["sender"] \in {"mark", "wait"}
    BY <2>3 DEF TypeOK, InOrder, AtRest
  <2>5. pc'["receiver"] \notin Active /\ pc'["timer"] \notin Active
    BY <2>3 DEF TypeOK, InOrder, AtRest, TimerSteps
  <2>6. pc'["receiver"] \in Steps \cup {"done"} => pc'["timer"] \notin Steps
    BY <2>3 DEF TypeOK, InOrder, AtRest
  <2>7. InOrder'
    BY <2>3, <2>4, <2>5, <2>6 DEF InOrder
  <2>8. Received'
    BY <1>3 DEF TypeOK, Received, StartAckTimer, channels, history
  <2> QED BY <2>2, <2>7, <2>8
<1>4. CASE AwaitAck(th)
  <2>1. \A p \in Turns : HasTurn(p)' => HasTurn(p)
    BY <1>4 DEF TypeOK, HasTurn, AwaitAck, channels
  <2>2. OneTurn'
    BY <1>4, <2>1, Kept DEF AwaitAck
  <2>3. InOrder'
    BY <1>4 DEF TypeOK, InOrder, AtRest, AwaitAck
  <2>4. Received'
    BY <1>4 DEF TypeOK, Received, AwaitAck, channels
  <2> QED BY <2>2, <2>3, <2>4
<1>5. CASE GiveUp(th)
  <2>1. \A p \in Turns : HasTurn(p)' => HasTurn(p)
    BY <1>5 DEF TypeOK, HasTurn, GiveUp, InOrder, channels
  <2>2. OneTurn'
    BY <1>5, <2>1, Kept DEF GiveUp
  <2>3. InOrder'
    BY <1>5 DEF TypeOK, InOrder, AtRest, GiveUp
  <2>4. Received'
    BY <1>5 DEF TypeOK, Received, GiveUp, channels, history
  <2> QED BY <2>2, <2>3, <2>4
<1>6. CASE StopAckTimer(th)
  <2>1. \A p \in Turns : HasTurn(p)' => HasTurn(p)
    BY <1>6 DEF TypeOK, HasTurn, StopAckTimer, InOrder, channels
  <2>2. OneTurn'
    BY <1>6, <2>1, Kept DEF StopAckTimer
  <2>3. InOrder'
    BY <1>6 DEF TypeOK, InOrder, AtRest, StopAckTimer
  <2>4. Received'
    BY <1>6 DEF TypeOK, Received, StopAckTimer, channels, history
  <2> QED BY <2>2, <2>3, <2>4
<1>7. CASE Release(th)
  <2>1. th # "sender" /\ HasTurn(th)
    BY <1>7 DEF HasTurn, InOrder, Release
  <2>2. \A q \in Turns : HasTurn(q) => q = th
    BY <2>1, Turn
  <2>3. \A q \in Turns : HasTurn(q)' => q = "token"
    BY <1>7, <2>1, <2>2 DEF TypeOK, HasTurn, Release, channels
  <2>4. OneTurn'
    BY <1>7, <2>3, Passed DEF Release, OneTurn, channels
  <2>5. pc["sender"] # "start"
    BY <1>7, <2>1 DEF InOrder, AtRest, Release
  <2>6. InOrder'
    BY <1>7, <2>1, <2>5 DEF TypeOK, InOrder, AtRest, Release
  <2>7. Received'
    BY <1>7, <2>1 DEF TypeOK, Received, Release, channels, history
  <2> QED BY <2>4, <2>6, <2>7
<1> QED BY <1>1, <1>2, <1>3, <1>4, <1>5, <1>6, <1>7 DEF SendFrame

LEMMA TurnSender ==
  ASSUME TypeOK, TurnInv, Send \/ WaitTxFrame \/ SendReturn
  PROVE  TurnInv'
<1> USE DEF Threads, Steps, Goto, Turns, Active, TurnInv
<1>1. CASE Send
  <2>1. HasTurn("sender")
    BY <1>1 DEF HasTurn, Send
  <2>2. \A q \in Turns : HasTurn(q) => q = "sender"
    BY <2>1, Turn
  <2>3. line = <<>> /\ ~(\E i \in DOMAIN wire : wire[i] \in Answered)
    BY <2>2 DEF HasTurn
  <2>4. \A p \in Turns : HasTurn(p)' => HasTurn(p)
    BY <1>1 DEF TypeOK, HasTurn, Send, channels
  <2>5. OneTurn'
    BY <1>1, <2>4, Kept DEF Send
  <2>6. InOrder'
    BY <1>1 DEF TypeOK, InOrder, AtRest, Send
  <2>7. ~(pc["receiver"] \in {"control", "take"} /\ c \in Answered) /\ pc["receiver"] # "done"
    BY <2>2 DEF HasTurn
  <2>8. tx_state' # "DONE" /\ result' # "ok" /\ pc'["receiver"] = pc["receiver"] /\ c' = c
    BY <1>1 DEF TypeOK, InOrder, Send
  <2>9. wire' = wire /\ line' = line
    BY <1>1 DEF Send, channels
  <2>10. Received'
    BY <2>3, <2>7, <2>8, <2>9 DEF Received, Answered
  <2> QED BY <2>5, <2>6, <2>10
<1>2. CASE WaitTxFrame
  <2>1. HasTurn("token")
    BY <1>2 DEF HasTurn, WaitTxFrame
  <2>2. \A q \in Turns : HasTurn(q) => q = "token"
    BY <2>1, Turn
  <2>3. \A q \in Turns : HasTurn(q)' => q = "sender"
    BY <1>2, <2>2 DEF TypeOK, HasTurn, WaitTxFrame, channels
  <2>4. OneTurn'
    BY <1>2, <2>3, Passed DEF WaitTxFrame, OneTurn, channels
  <2>5. InOrder'
    BY <1>2 DEF TypeOK, InOrder, AtRest, WaitTxFrame
  <2>6. Received'
    BY <1>2 DEF TypeOK, Received, WaitTxFrame, channels, history
  <2> QED BY <2>4, <2>5, <2>6
<1>3. CASE SendReturn
  <2>1. \A p \in Turns : HasTurn(p)' => HasTurn(p)
    BY <1>3 DEF TypeOK, HasTurn, SendReturn, channels
  <2>2. OneTurn'
    BY <1>3, <2>1, Kept DEF SendReturn
  <2>3. InOrder'
    BY <1>3 DEF TypeOK, InOrder, AtRest, SendReturn
  <2>4. Received'
    BY <1>3 DEF TypeOK, Received, SendReturn, channels
  <2> QED BY <2>2, <2>3, <2>4
<1> QED BY <1>1, <1>2, <1>3

(* What is left when the first byte was taken from the wire, or lost. *)
LEMMA WireTail ==
  ASSUME NEW w \in Seq(Chars), w # <<>>,
         \A i, j \in DOMAIN w : w[i] \in Answered /\ w[j] \in Answered => i = j
  PROVE  /\ \A i, j \in DOMAIN Tail(w) : Tail(w)[i] \in Answered /\ Tail(w)[j] \in Answered => i = j
         /\ \A i \in DOMAIN Tail(w) : \E j \in DOMAIN w : w[j] = Tail(w)[i]
         /\ Head(w) \in Answered => ~\E i \in DOMAIN Tail(w) : Tail(w)[i] \in Answered
         /\ \E i \in DOMAIN w : w[i] = Head(w)
<1>1. /\ Tail(w) \in Seq(Chars)
      /\ Len(w) \in Nat \ {0} /\ Len(Tail(w)) = Len(w) - 1 /\ Head(w) = w[1]
      /\ \A i \in 1 .. Len(Tail(w)) : Tail(w)[i] = w[i + 1]
  BY HeadTailProperties, LenProperties, EmptySeq
<1>2. DOMAIN w = 1 .. Len(w) /\ DOMAIN Tail(w) = 1 .. Len(w) - 1
  BY <1>1, LenProperties
<1>3. ASSUME NEW i \in DOMAIN Tail(w) PROVE i + 1 \in DOMAIN w /\ Tail(w)[i] = w[i + 1] /\ i + 1 # 1 /\ i \in Int
  BY <1>1, <1>2
<1>4. 1 \in DOMAIN w
  BY <1>1, <1>2
<1>5. ASSUME NEW i \in DOMAIN Tail(w), NEW j \in DOMAIN Tail(w),
             Tail(w)[i] \in Answered, Tail(w)[j] \in Answered
      PROVE  i = j
  <2>1. i + 1 = j + 1
    BY <1>3, <1>5
  <2> QED BY <1>3, <2>1
<1>6. ASSUME Head(w) \in Answered, NEW i \in DOMAIN Tail(w), Tail(w)[i] \in Answered PROVE FALSE
  BY <1>1, <1>3, <1>4, <1>6
<1> QED BY <1>1, <1>3, <1>4, <1>5, <1>6

LEMMA TurnReceiver ==
  ASSUME TypeOK, Channels, TurnInv, Receiver, InStep'
  PROVE  TurnInv'
<1> USE DEF Threads, Steps, Goto, Turns, Active, TurnInv
<1>1. CASE GetChar
  <2>1. /\ wire \in Seq(Chars) /\ wire # <<>> /\ wire' = Tail(wire) /\ line' = line
        /\ pc["receiver"] = "getchar"
        /\ UNCHANGED <<tx_state, txframe_sem, ack_timer, sends, received, result>>
        /\ pc'["sender"] = pc["sender"] /\ pc'["timer"] = pc["timer"]
    BY <1>1 DEF GetChar, Channels, TypeOK, tx, history
  <2>2. /\ \A i, j \in DOMAIN wire' : wire'[i] \in Answered /\ wire'[j] \in Answered => i = j
        /\ \A i \in DOMAIN wire' : \E j \in DOMAIN wire : wire[j] = wire'[i]
        /\ Head(wire) \in Answered => ~\E i \in DOMAIN wire' : wire'[i] \in Answered
        /\ \E i \in DOMAIN wire : wire[i] = Head(wire)
    BY <2>1, WireTail DEF OneTurn
  <2>3. \/ pc'["receiver"] = "control" /\ c' = Head(wire)
        \/ pc'["receiver"] \in {"sof", "body", "crc"}
    BY <1>1 DEF GetChar, TypeOK
  <2>4. Received'
    BY <2>1, <2>2, <2>3 DEF Received, Answered
  <2>5. InOrder'
    BY <2>1, <2>3 DEF InOrder, AtRest
  <2>6. CASE pc'["receiver"] = "control" /\ Head(wire) \in Answered
    <3>1. HasTurn("wire")
      BY <2>2, <2>6 DEF HasTurn
    <3>2. \A q \in Turns : HasTurn(q) => q = "wire"
      BY <3>1, Turn
    <3>3. \A q \in Turns : HasTurn(q)' => q = "heard"
      BY <2>1, <2>2, <2>6, <3>2 DEF HasTurn
    <3> QED BY <2>1, <2>2, <2>4, <2>5, <3>3, Passed DEF OneTurn
  <2>7. CASE ~(pc'["receiver"] = "control" /\ Head(wire) \in Answered)
    <3>1. \A q \in Turns : HasTurn(q)' => HasTurn(q)
      BY <2>1, <2>2, <2>3, <2>7 DEF HasTurn
    <3> QED BY <2>1, <2>2, <2>4, <2>5, <3>1 DEF OneTurn
  <2> QED BY <2>6, <2>7
<1>2. CASE StartOfFrame \/ IgnoreControl \/ BodyByte \/ CrcReceive
  <2>1. /\ pc["receiver"] \in {"sof", "control", "body", "crc"} /\ pc'["receiver"] = "getchar"
        /\ UNCHANGED <<tx_state, txframe_sem, ack_timer, wire, line, sends, received, result>>
        /\ pc'["sender"] = pc["sender"] /\ pc'["timer"] = pc["timer"]
    BY <1>2 DEF StartOfFrame, IgnoreControl, BodyByte, CrcReceive, TypeOK, tx, channels, history
  <2>2. \A p \in Turns : HasTurn(p)' => HasTurn(p)
    BY <2>1 DEF HasTurn
  <2>3. OneTurn'
    BY <2>1, <2>2, Kept DEF channels
  <2>4. InOrder' /\ Received'
    BY <2>1 DEF InOrder, AtRest, Received
  <2> QED BY <2>3, <2>4
<1>3. CASE AcceptControl
  <2>1. /\ pc["receiver"] = "control" /\ pc'["receiver"] = "take" /\ tx_state = "ACK"
        /\ UNCHANGED <<tx_state, txframe_sem, ack_timer, c, wire, line, sends, received, result>>
        /\ pc'["sender"] = pc["sender"] /\ pc'["timer"] = pc["timer"]
    BY <1>3 DEF AcceptControl, TypeOK, tx, channels, history
  <2>2. \A p \in Turns : HasTurn(p)' => HasTurn(p)
    BY <2>1 DEF HasTurn
  <2>3. OneTurn'
    BY <2>1, <2>2, Kept DEF channels
  <2>4. InOrder' /\ Received'
    BY <2>1 DEF InOrder, AtRest, Received
  <2> QED BY <2>3, <2>4
<1>4. CASE TakeControl
  <2>1. /\ pc["receiver"] = "take" /\ ack_timer' = FALSE
        /\ pc'["receiver"] = CASE c = "ACK" -> "done" [] c = "NAK" -> "resend" [] OTHER -> "getchar"
        /\ UNCHANGED <<tx_state, txframe_sem, c, wire, line, sends, received, result>>
        /\ pc'["sender"] = pc["sender"] /\ pc'["timer"] = pc["timer"]
    BY <1>4 DEF TakeControl, TypeOK, channels
  <2>2. pc["timer"] \notin Steps
    BY <1>4 DEF TakeControl, InStep
  <2>3. CASE c \in Answered
    <3>1. HasTurn("heard")
      BY <2>1, <2>3 DEF HasTurn
    <3>2. \A q \in Turns : HasTurn(q) => q = "heard"
      BY <3>1, Turn
    <3>3. pc'["receiver"] \in {"done", "resend"} /\ (pc'["receiver"] = "done" => c = "ACK")
      BY <2>1, <2>3 DEF Answered
    <3>4. \A q \in Turns : HasTurn(q)' => q = "receiver"
      BY <2>1, <3>2, <3>3 DEF HasTurn
    <3>5. OneTurn'
      BY <2>1, <3>4, Passed DEF OneTurn
    <3>6. txframe_sem # 1 /\ pc["sender"] \in {"mark", "wait"}
      BY <2>1, <2>3, <3>2 DEF HasTurn, InOrder
    <3>7. InOrder'
      BY <2>1, <2>2, <3>3, <3>6 DEF InOrder
    <3>8. Received'
      BY <2>1, <3>3 DEF Received
    <3> QED BY <3>5, <3>7, <3>8
  <2>4. CASE c \notin Answered
    <3>1. pc'["receiver"] = "getchar"
      BY <2>1, <2>4 DEF Answered
    <3>2. \A p \in Turns : HasTurn(p)' => HasTurn(p)
      BY <2>1, <3>1 DEF HasTurn
    <3>3. OneTurn'
      BY <2>1, <3>2, Kept DEF channels
    <3>4. InOrder' /\ Received'
      BY <2>1, <3>1 DEF InOrder, AtRest, Received
    <3> QED BY <3>3, <3>4
  <2> QED BY <2>3, <2>4
<1>5. CASE SendDone
  <2>1. /\ pc["receiver"] = "done" /\ pc'["receiver"] = "release" /\ tx_state' = "DONE"
        /\ UNCHANGED <<txframe_sem, ack_timer, c, wire, line, sends, received, result>>
        /\ pc'["sender"] = pc["sender"] /\ pc'["timer"] = pc["timer"]
    BY <1>5 DEF SendDone, TypeOK, channels, history
  <2>2. \A p \in Turns : HasTurn(p)' => HasTurn(p)
    BY <2>1 DEF HasTurn
  <2>3. OneTurn'
    BY <2>1, <2>2, Kept DEF channels
  <2>4. InOrder' /\ Received'
    BY <2>1 DEF InOrder, AtRest, Received
  <2> QED BY <2>3, <2>4
<1>6. CASE CrcWhileAck
  BY <1>6 DEF CrcWhileAck, InStep
<1>7. CASE SendFrame("receiver")
  BY <1>7, TurnSendFrame
<1> QED BY <1>1, <1>2, <1>3, <1>4, <1>5, <1>6, <1>7 DEF Receiver

LEMMA TurnTimer ==
  ASSUME TypeOK, TurnInv, Timer, InStep'
  PROVE  TurnInv'
<1> USE DEF Threads, Steps, Goto, Turns, Active, TurnInv
<1>1. CASE AckTimeout
  <2>1. /\ ack_timer /\ ack_timer' = FALSE /\ pc["timer"] = "off" /\ pc'["timer"] = "resend"
        /\ UNCHANGED <<tx_state, txframe_sem, c, wire, line, sends, received, result>>
        /\ pc'["sender"] = pc["sender"] /\ pc'["receiver"] = pc["receiver"]
    BY <1>1 DEF AckTimeout, TypeOK, channels
  <2>2. ~AnswerOnTheWay
    BY <1>1 DEF AckTimeout, InStep
  <2>3. txframe_sem # 1 /\ pc["sender"] \in {"mark", "wait"}
    BY <2>1 DEF InOrder, AtRest
  <2>4. \A p \in Turns : HasTurn(p)' => p = "timer"
    BY <2>1, <2>2, <2>3 DEF HasTurn, AnswerOnTheWay, Answered
  <2>5. OneTurn'
    BY <2>1, <2>4, Passed DEF OneTurn
  <2>6. InOrder' /\ Received'
    BY <2>1, <2>2, <2>3 DEF InOrder, AtRest, Received, AnswerOnTheWay
  <2> QED BY <2>5, <2>6
<1>2. CASE DataTimeout \/ HuntForSof
  <2>1. /\ pc["timer"] \notin Steps /\ pc'["timer"] \notin Steps
        /\ UNCHANGED <<tx_state, txframe_sem, ack_timer, c, wire, line, sends, received, result>>
        /\ pc'["sender"] = pc["sender"] /\ pc'["receiver"] = pc["receiver"]
        /\ pc'["timer"] # "done"
    BY <1>2 DEF DataTimeout, HuntForSof, TypeOK, tx, channels, history
  <2>2. \A p \in Turns : HasTurn(p)' => HasTurn(p)
    BY <2>1 DEF HasTurn
  <2>3. OneTurn'
    BY <2>1, <2>2, Kept DEF channels
  <2>4. InOrder' /\ Received'
    BY <2>1 DEF InOrder, AtRest, Received
  <2> QED BY <2>3, <2>4
<1>3. CASE SendFrame("timer")
  BY <1>3, TurnSendFrame
<1> QED BY <1>1, <1>2, <1>3 DEF Timer

LEMMA WireAppend ==
  ASSUME NEW w \in Seq(Chars), NEW a \in Chars
  PROVE  /\ Append(w, a) \in Seq(Chars)
         /\ \A i \in DOMAIN Append(w, a) : \/ i \in DOMAIN w /\ Append(w, a)[i] = w[i]
                                           \/ i = Len(w) + 1 /\ Append(w, a)[i] = a
<1>1. /\ Append(w, a) \in Seq(Chars) /\ Len(Append(w, a)) = Len(w) + 1
      /\ \A i \in 1 .. Len(w) : Append(w, a)[i] = w[i]
      /\ Append(w, a)[Len(w) + 1] = a
  BY AppendProperties
<1>2. Len(w) \in Nat /\ DOMAIN w = 1 .. Len(w) /\ DOMAIN Append(w, a) = 1 .. Len(w) + 1
  BY <1>1, LenProperties
<1> QED BY <1>1, <1>2

LEMMA WireConcat ==
  ASSUME NEW w \in Seq(Chars)
  PROVE  LET v == w \o <<"SOF", "BYTE", "BYTE">>
         IN  /\ v \in Seq(Chars)
             /\ \A i \in DOMAIN v : (i \in DOMAIN w /\ v[i] = w[i]) \/ v[i] \notin Answered
<1> DEFINE t == <<"SOF", "BYTE", "BYTE">>
           v == w \o t
<1>1. t \in Seq(Chars) /\ Len(t) = 3 /\ \A i \in 1 .. 3 : t[i] \notin Answered
  BY DEF Chars, Answered
<1> HIDE DEF t
<1>2. /\ v \in Seq(Chars) /\ Len(v) = Len(w) + 3
      /\ \A i \in 1 .. Len(v) : v[i] = IF i <= Len(w) THEN w[i] ELSE t[i - Len(w)]
  <2>1. /\ w \o t \in Seq(Chars) /\ Len(w \o t) = Len(w) + Len(t)
        /\ \A i \in 1 .. Len(w) + Len(t) : (w \o t)[i] = IF i <= Len(w) THEN w[i] ELSE t[i - Len(w)]
    BY <1>1, ConcatProperties
  <2> QED BY <1>1, <2>1
<1>3. Len(w) \in Nat /\ DOMAIN w = 1 .. Len(w) /\ DOMAIN v = 1 .. Len(w) + 3
  BY <1>2, LenProperties
<1> HIDE DEF v
<1>4. ASSUME NEW i \in DOMAIN v PROVE (i \in DOMAIN w /\ v[i] = w[i]) \/ v[i] \notin Answered
  <2>1. CASE i <= Len(w)
    BY <1>2, <1>3, <2>1
  <2>2. CASE i > Len(w)
    <3>1. v[i] = t[i - Len(w)] /\ i - Len(w) \in 1 .. 3
      BY <1>2, <1>3, <2>2
    <3> QED BY <1>1, <3>1
  <2> QED BY <1>3, <2>1, <2>2
<1> QED BY <1>2, <1>4 DEF v, t

LEMMA TurnModule ==
  ASSUME TypeOK, Channels, TurnInv, Recv \/ ModuleTakes \/ ModuleSends \/ LoseByte
  PROVE  TurnInv'
<1> USE DEF Turns, TurnInv
<1>1. UNCHANGED <<tx_state, txframe_sem, ack_timer, pc, c, sends, result>>
  BY DEF Recv, ModuleTakes, ModuleSends, LoseByte, tx, history
<1>2. InOrder'
  BY <1>1 DEF InOrder, AtRest
<1>3. wire \in Seq(Chars) /\ line \in Seq(Nat)
  BY DEF Channels
<1>4. CASE Recv
  <2>1. UNCHANGED <<line, wire, received>>
    BY <1>4 DEF Recv, channels, history
  <2>2. \A p \in Turns : HasTurn(p)' => HasTurn(p)
    BY <1>1, <2>1 DEF HasTurn
  <2>3. OneTurn' /\ Received'
    BY <1>1, <2>1, <2>2, Kept DEF channels, Received
  <2> QED BY <1>2, <2>3
<1>5. CASE ModuleTakes
  <2>1. line # <<>> /\ line' = Tail(line)
    BY <1>5 DEF ModuleTakes
  <2>2. HasTurn("line")
    BY <2>1 DEF HasTurn
  <2>3. \A q \in Turns : HasTurn(q) => q = "line"
    BY <2>2, Turn
  <2>4. Len(line) \in Nat /\ Len(line) <= 1 /\ Len(line) # 0
    BY <1>3, <2>1, LenProperties, EmptySeq DEF OneTurn
  <2>5. Len(line') = 0 /\ line' = <<>> /\ Head(line) = line[1] /\ 1 \in DOMAIN line
    <3>1. /\ line' \in Seq(Nat) /\ Len(line') = Len(line) - 1 /\ Head(line) = line[1]
          /\ DOMAIN line = 1 .. Len(line)
      BY <1>3, <2>1, HeadTailProperties, LenProperties
    <3>2. Len(line') = 0 /\ 1 \in DOMAIN line
      BY <2>4, <3>1
    <3> QED BY <3>1, <3>2, EmptySeq
  <2>6. Head(line) = sends
    BY <2>5 DEF Received
  <2>7. ~\E i \in DOMAIN wire : wire[i] \in Answered
    BY <2>3 DEF HasTurn
  <2>8. CASE wire' = wire
    <3>1. received => received'
      BY <1>5 DEF ModuleTakes
    <3>2. \A p \in Turns : HasTurn(p)' => HasTurn(p)
      BY <1>1, <2>5, <2>8 DEF HasTurn
    <3>3. OneTurn'
      BY <2>5, <2>8, <3>2 DEF OneTurn
    <3>4. Received'
      BY <1>1, <2>5, <2>8, <3>1 DEF Received
    <3> QED BY <1>2, <3>3, <3>4
  <2>9. CASE \E a \in Answers : /\ wire' = Append(wire, a)
                                /\ received' = (received \/ (a = "ACK" /\ Head(line) = sends))
    <3>1. PICK a \in Answers : /\ wire' = Append(wire, a)
                               /\ received' = (received \/ (a = "ACK" /\ Head(line) = sends))
      BY <2>9
    <3>2. a \in Chars
      BY DEF Chars
    <3>3. \A i \in DOMAIN wire' : \/ i \in DOMAIN wire /\ wire'[i] = wire[i]
                                  \/ i = Len(wire) + 1 /\ wire'[i] = a
      BY <1>3, <3>1, <3>2, WireAppend
    <3>4. \A i \in DOMAIN wire' : wire'[i] \in Answered => i = Len(wire) + 1 /\ wire'[i] = a
      BY <2>7, <3>3
    <3>5. \A q \in Turns : HasTurn(q)' => q = "wire"
      BY <1>1, <2>3, <2>5 DEF HasTurn
    <3>6. OneTurn'
      BY <2>5, <3>4, <3>5, Passed
    <3>7. (received => received') /\ (a = "ACK" => received')
      BY <2>6, <3>1
    <3>8. \A i \in DOMAIN wire' : wire'[i] = "ACK" => received'
      BY <3>4, <3>7 DEF Answered
    <3>9. Received'
      BY <1>1, <2>5, <3>7, <3>8 DEF Received
    <3> QED BY <1>2, <3>6, <3>9
  <2> QED BY <1>5, <2>8, <2>9 DEF ModuleTakes
<1>6. CASE ModuleSends \/ LoseByte
  <2>1. line' = line /\ received' = received
    BY <1>6 DEF ModuleSends, LoseByte, history
  <2>2. \A i \in DOMAIN wire' : wire'[i] \in Answered => \E j \in DOMAIN wire : wire[j] = wire'[i]
    <3>1. CASE ModuleSends
      BY <1>3, <3>1, WireConcat DEF ModuleSends
    <3>2. CASE LoseByte
      BY <1>3, <3>2, WireTail DEF LoseByte, OneTurn
    <3> QED BY <1>6, <3>1, <3>2
  <2>3. \A i, j \in DOMAIN wire' : wire'[i] \in Answered /\ wire'[j] \in Answered => i = j
    <3>1. CASE ModuleSends
      BY <1>3, <3>1, WireConcat DEF ModuleSends, OneTurn
    <3>2. CASE LoseByte
      BY <1>3, <3>2, WireTail DEF LoseByte, OneTurn
    <3> QED BY <1>6, <3>1, <3>2
  <2>4. \A p \in Turns : HasTurn(p)' => HasTurn(p)
    BY <1>1, <2>1, <2>2 DEF HasTurn
  <2>5. OneTurn'
    BY <2>1, <2>3, <2>4 DEF OneTurn
  <2>6. Received'
    BY <1>1, <2>1, <2>2 DEF Received, Answered
  <2> QED BY <1>2, <2>5, <2>6
<1> QED BY <1>4, <1>5, <1>6

LEMMA ChannelsStep ==
  ASSUME TypeOK, Channels, [Next]_vars
  PROVE  Channels'
<1> USE DEF Channels
<1>1. CASE UNCHANGED <<wire, line, sends>>
  BY <1>1
<1>2. ASSUME NEW th \in Threads, SendFrame(th) PROVE Channels'
  <2>1. CASE WriteFrame(th)
    BY <2>1, AppendProperties DEF WriteFrame
  <2>2. CASE ~WriteFrame(th)
    BY <1>1, <1>2, <2>2
       DEF SendFrame, Resend, StartAckTimer, AwaitAck, GiveUp, StopAckTimer, Release, channels
  <2> QED BY <2>1, <2>2
<1>3. CASE Send \/ Sender
  BY <1>1, <1>2, <1>3 DEF Send, Sender, WaitTxFrame, SendReturn, channels, Threads
<1>4. CASE Receiver
  <2>1. wire # <<>> => Tail(wire) \in Seq(Chars)
    BY HeadTailProperties
  <2> QED BY <1>1, <1>2, <1>4, <2>1 DEF Receiver, GetChar, StartOfFrame, IgnoreControl, AcceptControl,
     TakeControl, SendDone, BodyByte, CrcWhileAck, CrcReceive, channels, Threads
<1>5. CASE Timer
  BY <1>1, <1>2, <1>5 DEF Timer, AckTimeout, DataTimeout, HuntForSof, channels, Threads
<1>6. CASE ModuleTakes
  <2>1. line' \in Seq(Nat) /\ sends' = sends
    BY <1>6, HeadTailProperties DEF ModuleTakes
  <2>2. Answers \subseteq Chars
    BY DEF Chars
  <2>3. wire' \in Seq(Chars)
    <3>1. \A a \in Answers : Append(wire, a) \in Seq(Chars)
      BY <2>2, AppendProperties
    <3>2. wire' = wire \/ \E a \in Answers : wire' = Append(wire, a)
      BY <1>6 DEF ModuleTakes
    <3> QED BY <3>1, <3>2
  <2> QED BY <2>1, <2>3
<1>7. CASE ModuleSends
  BY <1>7, WireConcat DEF ModuleSends
<1>8. CASE LoseByte
  BY <1>8, HeadTailProperties DEF LoseByte
<1>9. CASE Recv \/ UNCHANGED vars
  BY <1>1, <1>9 DEF Recv, vars, channels
<1> QED BY <1>3, <1>4, <1>5, <1>6, <1>7, <1>8, <1>9 DEF Next

(* What was out of step stays so. *)
LEMMA OutOfStep ==
  ASSUME [Next]_vars, InStep'
  PROVE  InStep
<1>1. CASE UNCHANGED <<crossed, late>>
  BY <1>1 DEF InStep
<1>2. ASSUME NEW th \in Threads, SendFrame(th) PROVE UNCHANGED <<crossed, late>>
  BY <1>2 DEF SendFrame, Resend, WriteFrame, StartAckTimer, AwaitAck, GiveUp, StopAckTimer, Release, history
<1>3. CASE Send \/ Sender
  BY <1>1, <1>2, <1>3 DEF Send, Sender, WaitTxFrame, SendReturn, history, Threads
<1>4. CASE TakeControl \/ AckTimeout
  BY <1>4 DEF TakeControl, AckTimeout, InStep
<1>5. CASE CrcWhileAck
  BY <1>5 DEF CrcWhileAck, InStep
<1>6. CASE (Receiver \/ Timer) /\ ~(TakeControl \/ AckTimeout \/ CrcWhileAck)
  BY <1>1, <1>2, <1>6 DEF Receiver, GetChar, StartOfFrame, IgnoreControl, AcceptControl,
     SendDone, BodyByte, CrcReceive, Timer, DataTimeout, HuntForSof, history, Threads
<1>7. CASE Recv \/ ModuleTakes \/ ModuleSends \/ LoseByte \/ UNCHANGED vars
  BY <1>1, <1>7 DEF Recv, ModuleTakes, ModuleSends, LoseByte, vars, history
<1> QED BY <1>3, <1>4, <1>5, <1>6, <1>7 DEF Next

TurnsKept == TypeOK /\ Channels /\ StepInv

LEMMA TurnStep ==
  ASSUME TurnsKept, [Next]_vars
  PROVE  TurnsKept'
<1>1. TypeOK' /\ Channels'
  BY TypeStep, ChannelsStep DEF TurnsKept
<1>2. InStep' => InStep
  BY OutOfStep
<1>3. ASSUME InStep' PROVE TurnInv'
  <2>1. TypeOK /\ Channels /\ TurnInv
    BY <1>2, <1>3 DEF TurnsKept, StepInv, TurnInv
  <2>2. CASE UNCHANGED vars
    <3>1. UNCHANGED <<tx_state, txframe_sem, ack_timer, pc, c, wire, line, sends, received, result>>
      BY <2>2 DEF vars, tx, channels, history
    <3>2. \A p \in Turns : HasTurn(p)' => HasTurn(p)
      BY <3>1 DEF HasTurn
    <3> QED BY <2>1, <3>1, <3>2, Kept DEF TurnInv, channels, InOrder, AtRest, Received
  <2>3. CASE Sender
    <3>1. "sender" \in Threads
      BY DEF Threads
    <3> QED BY <2>1, <2>3, <3>1, TurnSendFrame, TurnSender DEF Sender
  <2> QED BY <1>3, <2>1, <2>2, <2>3, TurnSender, TurnReceiver, TurnTimer, TurnModule DEF Next
<1> QED BY <1>1, <1>3 DEF TurnsKept, StepInv, TurnInv

LEMMA InitTurns == Init => TurnsKept
<1> SUFFICES ASSUME Init PROVE TurnsKept
  OBVIOUS
<1>1. Channels
  BY DEF Init, Channels
<1>2. /\ wire = <<>> /\ line = <<>> /\ txframe_sem = 0 /\ ~ack_timer /\ tx_state = "IDLE" /\ result = "none"
      /\ pc["sender"] = "idle" /\ pc["receiver"] = "getchar" /\ pc["timer"] = "off"
  BY DEF Init
<1>3. \A p \in Turns : HasTurn(p) => p = "sender"
  BY <1>2 DEF HasTurn, Active
<1>4. OneTurn
  BY <1>2, <1>3 DEF OneTurn
<1>5. InOrder /\ Received
  BY <1>2 DEF InOrder, AtRest, Received, Steps, Active
<1> QED BY <1>1, <1>4, <1>5, InitTypes DEF TurnsKept, StepInv

(* In step, zw_serialapi_link_send leaves no token behind: the next send   *)
(* is not ended by the answer to this one.                                 *)
THEOREM NoTokenLeft == Spec => []NoStaleToken
<1>1. TurnsKept => NoStaleToken
  <2> SUFFICES ASSUME TurnsKept, InStep, txframe_sem = 1 PROVE pc["sender"] \notin {"idle", "check"}
    BY DEF NoStaleToken
  <2>1. HasTurn("token")
    BY DEF HasTurn
  <2>2. HasTurn("sender") => FALSE
    BY <2>1, Turn DEF TurnsKept, StepInv, Turns
  <2> QED BY <2>2 DEF HasTurn
<1> QED BY <1>1, InitTurns, TurnStep, PTL DEF Spec

(* In step, zw_serialapi_link_send returns 0 only for a frame that the     *)
(* module took.                                                            *)
THEOREM SuccessIsDelivery == Spec => []SuccessMeansReceived
<1>1. TurnsKept => SuccessMeansReceived
  BY DEF TurnsKept, StepInv, Received, SuccessMeansReceived
<1> QED BY <1>1, InitTurns, TurnStep, PTL DEF Spec
=============================================================================
