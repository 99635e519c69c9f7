---------------------------- MODULE ZwSerialApi ----------------------------
(***************************************************************************)
(* The Z-Wave serial API, core/net/zwapi/zw_serialapi.c, above the serial  *)
(* link: threads that call it under api_mutex, and the API thread that     *)
(* tells the answers to a call from the commands of the network.  What it  *)
(* expects, response.cmd and response.seqno, is shared without the mutex.  *)
(*                                                                         *)
(* The link (ZwLink) is what its users see of it: it sends a request or    *)
(* says that it could not, which the module may have taken all the same,   *)
(* and hands over the frames of the module or loses them.  A frame in its  *)
(* ring is taken to be read before the ring comes round to it again.       *)
(***************************************************************************)
EXTENDS Naturals, Sequences, SequencesExt

CONSTANTS
  Callers,     \* threads that call the API
  NoCaller,
  KindsOf,     \* KindsOf[c]: the kinds of calls that c makes
  RxFrames,    \* ZW_LINK_RX_FRAMES_SIZE: places of the queues
  SeqNos,      \* 2^8
  MaxCalls,    \* bound: calls
  MaxCommands  \* bound: commands that nodes send of themselves

(* get: the calls that end with their response; add: those that also hand  *)
(* over a sequence number; the others send data to one node, to all nodes, *)
(* and to one node whose answer they wait for.                             *)
Kinds == {"get", "add", "send", "broadcast", "sendrecv"}

ASSUME KindsAssumption == KindsOf \in [Callers -> SUBSET Kinds]
ASSUME RxFramesAssumption == RxFrames \in Nat \ {0}
ASSUME SeqNosAssumption == SeqNos \in Nat \ {0, 1}
ASSUME BoundsAssumption == MaxCalls \in Nat /\ MaxCommands \in Nat /\ NoCaller \notin Callers

CmdOf(kind) == IF kind \in {"get", "add"} THEN kind ELSE "data"
Cmds == {"get", "add", "data", "app"}   \* "app": APPLICATION_COMMAND_HANDLER

VARIABLES
  pc, kind, num, tmp, seq, prev,  \* of each caller: where it is, its call and its locals
  mutex,           \* owner of api_mutex
  cmd, seqno,      \* response.cmd ("none": 0) and response.seqno
  last,            \* sapi->seqno
  apc, hand,       \* the API thread, and <<the frame>> it works on
  respQ,           \* queue of responses
  cmdQ,            \* frames in the queue of commands
  owed,            \* owed[n]: the frames the module has yet to send for call n
  calls, commands, \* so far
  taken,   \* history: the frames that the owner of the mutex took
  early,   \* history: when its call began something else was under way
  bumped   \* history: another call wrote response.seqno meanwhile

locals == <<kind, num, tmp, seq, prev>>
expected == <<cmd, seqno>>
api == <<apc, hand>>
ghosts == <<early, bumped>>
vars == <<pc, locals, mutex, expected, last, api, respQ, cmdQ, owed,
          calls, commands, taken, ghosts>>

Response(k, n) == [type |-> "response", cmd |-> CmdOf(k), seq |-> 0, call |-> n]
Callback(k, n, s) == [type |-> "request", cmd |-> CmdOf(k), seq |-> s, call |-> n]
Command(n) == [type |-> "request", cmd |-> "app", seq |-> 0, call |-> n]

(* The frames that a call waits for, in this order, and those that its     *)
(* request causes.                                                         *)
Wanted(k, n, s) ==
  CASE k \in {"get", "add", "broadcast"} -> <<Response(k, n)>>
    [] k = "send" -> <<Response(k, n), Callback(k, n, s)>>
    [] k = "sendrecv" -> <<Response(k, n), Callback(k, n, s), Command(n)>>

Caused(k, n, s) ==
  IF k \in {"add", "broadcast"} THEN <<Response(k, n), Callback(k, n, s)>>
                                ELSE Wanted(k, n, s)

Init ==
  /\ pc = [c \in Callers |-> "idle"]
  /\ kind = [c \in Callers |-> "get"]
  /\ num = [c \in Callers |-> 0]
  /\ tmp = [c \in Callers |-> 0]
  /\ seq = [c \in Callers |-> 0]
  /\ prev = [c \in Callers |-> "none"]
  /\ mutex = NoCaller
  /\ cmd = "none" /\ seqno = 0 /\ last = 0
  /\ apc = "recv" /\ hand = <<>>
  /\ respQ = <<>> /\ cmdQ = 0
  /\ owed = [n \in 1 .. MaxCalls |-> <<>>]
  /\ calls = 0 /\ commands = 0
  /\ taken = <<>>
  /\ early = FALSE /\ bumped = FALSE

Goto(c, place) == pc' = [pc EXCEPT ![c] = place]

(* Something of another call may still come to the response queue. *)
UnderWay == \/ \E n \in DOMAIN owed : owed[n] # <<>>
            \/ hand # <<>> \/ respQ # <<>>
-----------------------------------------------------------------------------
(* A call begins.  What takes a sequence number without data to send takes *)
(* it before the mutex (lines 644, 661 and 678).                           *)
Enter(c) ==
  /\ pc[c] = "idle" /\ calls < MaxCalls
  /\ calls' = calls + 1
  /\ num' = [num EXCEPT ![c] = calls + 1]
  /\ \E k \in KindsOf[c] :
       /\ kind' = [kind EXCEPT ![c] = k]
       /\ Goto(c, IF k = "add" THEN "load" ELSE "lock")
  /\ UNCHANGED <<tmp, seq, prev, mutex, expected, last, api, respQ, cmdQ, owed,
                 commands, taken, ghosts>>

(* Mutant of Lock: osMutexWait does not wait. *)
LockNoWait(c) ==
  /\ pc[c] = "lock"
  /\ mutex' = c
  /\ cmd' = IF kind[c] = "sendrecv" THEN "app" ELSE cmd
  /\ Goto(c, IF CmdOf(kind[c]) = "data" THEN "begin" ELSE "request")
  /\ early' = UnderWay
  /\ UNCHANGED <<locals, seqno, last, api, respQ, cmdQ, owed, calls, commands, taken, bumped>>

(* osMutexWait; zw_serialapi_sendrecv_data_ext expects a command then. *)
Lock(c) ==
  /\ pc[c] = "lock" /\ mutex = NoCaller
  /\ mutex' = c
  /\ cmd' = IF kind[c] = "sendrecv" THEN "app" ELSE cmd
  /\ Goto(c, IF CmdOf(kind[c]) = "data" THEN "begin" ELSE "request")
  /\ early' = UnderWay
  /\ UNCHANGED <<locals, seqno, last, api, respQ, cmdQ, owed, calls, commands, taken, bumped>>

(* __zw_serialapi_send_data_ext keeps what was expected. *)
Begin(c) ==
  /\ pc[c] = "begin"
  /\ prev' = [prev EXCEPT ![c] = cmd]
  /\ Goto(c, "load")
  /\ UNCHANGED <<kind, num, tmp, seq, mutex, expected, last, api, respQ, cmdQ, owed,
                 calls, commands, taken, ghosts>>

(* SEQNO: seqno++, once more if that makes it 0, and then it is what the   *)
(* callback is expected to bear.  Nothing makes this one step.             *)
Load(c) ==
  /\ pc[c] \in {"load", "load_again"}
  /\ tmp' = [tmp EXCEPT ![c] = last]
  /\ Goto(c, IF pc[c] = "load" THEN "store" ELSE "store_again")
  /\ UNCHANGED <<kind, num, seq, prev, mutex, expected, last, api, respQ, cmdQ, owed,
                 calls, commands, taken, ghosts>>

Store(c) ==
  /\ pc[c] \in {"store", "store_again"}
  /\ last' = (tmp[c] + 1) % SeqNos
  /\ Goto(c, IF pc[c] = "store" THEN "test" ELSE "take")
  /\ UNCHANGED <<locals, mutex, expected, api, respQ, cmdQ, owed,
                 calls, commands, taken, ghosts>>

Test(c) ==
  /\ pc[c] = "test"
  /\ Goto(c, IF last = 0 THEN "load_again" ELSE "take")
  /\ UNCHANGED <<locals, mutex, expected, last, api, respQ, cmdQ, owed,
                 calls, commands, taken, ghosts>>

Take(c) ==
  /\ pc[c] = "take"
  /\ seqno' = last
  /\ seq' = [seq EXCEPT ![c] = last]
  /\ tmp' = [tmp EXCEPT ![c] = 0]
  /\ bumped' = (bumped \/ mutex \notin {c, NoCaller})
  /\ Goto(c, IF kind[c] = "add" THEN "lock" ELSE "request")
  /\ UNCHANGED <<kind, num, prev, mutex, cmd, last, api, respQ, cmdQ, owed,
                 calls, commands, taken, early>>
-----------------------------------------------------------------------------
(* Mutant of Request: response.cmd is not set. *)
RequestUnexpected(c) ==
  /\ pc[c] = "request"
  /\ Goto(c, "send")
  /\ UNCHANGED <<locals, mutex, expected, last, api, respQ, cmdQ, owed,
                 calls, commands, taken, ghosts>>

(* zw_serialapi_send_request. *)
Request(c) ==
  /\ pc[c] = "request"
  /\ cmd' = CmdOf(kind[c])
  /\ Goto(c, "send")
  /\ UNCHANGED <<locals, mutex, seqno, last, api, respQ, cmdQ, owed,
                 calls, commands, taken, ghosts>>

(* A failure: with data to one node, what was expected before the call is  *)
(* put back first.                                                         *)
Fail(c) == Goto(c, IF kind[c] \in {"send", "sendrecv"} THEN "restore_failed" ELSE "failed")

LinkSend(c) ==
  /\ pc[c] = "send"
  /\ \E reached \in BOOLEAN, sent \in BOOLEAN :
       /\ sent => reached
       /\ owed' = IF reached THEN [owed EXCEPT ![num[c]] = Caused(kind[c], num[c], seq[c])]
                             ELSE owed
       /\ IF sent THEN Goto(c, "response") ELSE Fail(c)
  /\ UNCHANGED <<locals, mutex, expected, last, api, respQ, cmdQ, calls, commands, taken, ghosts>>

(* osMessageGet on the response queue. *)
Get == /\ respQ # <<>>
       /\ respQ' = Tail(respQ)
       /\ taken' = Append(taken, Head(respQ))

(* Mutant of GetResponse: any frame will do. *)
GetResponseUnchecked(c) ==
  /\ pc[c] = "response" /\ Get
  /\ Goto(c, IF kind[c] \in {"send", "sendrecv"} THEN "callback" ELSE "ok")
  /\ UNCHANGED <<locals, mutex, expected, last, api, cmdQ, owed, calls, commands, ghosts>>

(* The response must be to this command; nothing tells it from an older    *)
(* response to the same command.                                           *)
GetResponse(c) ==
  /\ pc[c] = "response" /\ Get
  /\ IF Head(respQ).cmd # CmdOf(kind[c]) THEN Fail(c)
       ELSE Goto(c, IF kind[c] \in {"send", "sendrecv"} THEN "callback" ELSE "ok")
  /\ UNCHANGED <<locals, mutex, expected, last, api, cmdQ, owed, calls, commands, ghosts>>

(* The callback of the transmission, or whatever is in the queue: a status *)
(* is read from it.                                                        *)
GetCallback(c) ==
  /\ pc[c] = "callback" /\ Get
  /\ \/ Goto(c, "restore")
     \/ Goto(c, "restore_failed")
  /\ UNCHANGED <<locals, mutex, expected, last, api, cmdQ, owed, calls, commands, ghosts>>

(* response.cmd = prev_expect_cmd; then, with sendrecv, the answer of the  *)
(* node is waited for.                                                     *)
Restore(c) ==
  /\ pc[c] \in {"restore", "restore_failed"}
  /\ cmd' = prev[c]
  /\ Goto(c, CASE pc[c] = "restore_failed" -> "failed"
               [] pc[c] = "restore" /\ kind[c] = "send" -> "ok"
               [] pc[c] = "restore" /\ kind[c] = "sendrecv" -> "answer")
  /\ UNCHANGED <<locals, mutex, seqno, last, api, respQ, cmdQ, owed, calls, commands, taken, ghosts>>

(* The answer of the node, when it fits the memory of the caller. *)
GetAnswer(c) ==
  /\ pc[c] = "answer" /\ Get
  /\ \E res \in {"ok", "failed"} : Goto(c, res)
  /\ UNCHANGED <<locals, mutex, expected, last, api, cmdQ, owed, calls, commands, ghosts>>

(* Nothing came in time. *)
Timeout(c) ==
  /\ pc[c] \in {"response", "callback", "answer"} /\ respQ = <<>>
  /\ IF pc[c] = "answer" THEN Goto(c, "failed") ELSE Fail(c)
  /\ UNCHANGED <<locals, mutex, expected, last, api, respQ, cmdQ, owed, calls, commands, taken, ghosts>>

Forget(c) ==
  /\ kind' = [kind EXCEPT ![c] = "get"] /\ num' = [num EXCEPT ![c] = 0]
  /\ seq' = [seq EXCEPT ![c] = 0] /\ prev' = [prev EXCEPT ![c] = "none"]
  /\ taken' = <<>> /\ early' = FALSE /\ bumped' = FALSE

(* Mutant of Unlock: a call that fails keeps the mutex. *)
UnlockIfOk(c) ==
  /\ pc[c] \in {"ok", "failed"}
  /\ mutex' = IF pc[c] = "ok" THEN NoCaller ELSE mutex
  /\ Goto(c, "idle")
  /\ Forget(c)
  /\ UNCHANGED <<tmp, expected, last, api, respQ, cmdQ, owed, calls, commands>>

(* osMutexRelease, and the call returns. *)
Unlock(c) ==
  /\ pc[c] \in {"ok", "failed"}
  /\ mutex' = NoCaller
  /\ Goto(c, "idle")
  /\ Forget(c)
  /\ UNCHANGED <<tmp, expected, last, api, respQ, cmdQ, owed, calls, commands>>

Caller(c) ==
  \/ Enter(c) \/ Lock(c) \/ Begin(c) \/ Load(c) \/ Store(c) \/ Test(c) \/ Take(c)
  \/ Request(c) \/ LinkSend(c) \/ GetResponse(c) \/ GetCallback(c) \/ Restore(c)
  \/ GetAnswer(c) \/ Timeout(c) \/ Unlock(c)
-----------------------------------------------------------------------------
(* The module sends what it owes, in order for each call; a frame may be   *)
(* lost, or never come because the node does not answer.                   *)
LoseFrame ==
  /\ \E n \in DOMAIN owed : owed[n] # <<>> /\ owed' = [owed EXCEPT ![n] = Tail(@)]
  /\ UNCHANGED <<pc, locals, mutex, expected, last, api, respQ, cmdQ, calls, commands, taken, ghosts>>

callers == <<pc, locals, mutex, last, calls, taken, ghosts>>

(* zw_serialapi_thread: zw_serialapi_link_recv hands over a frame of the   *)
(* module, for a call or from a node of itself.                            *)
ApiRecv ==
  /\ apc = "recv"
  /\ apc' = "route"
  /\ \/ /\ \E n \in DOMAIN owed : /\ owed[n] # <<>>
                                 /\ hand' = <<Head(owed[n])>>
                                 /\ owed' = [owed EXCEPT ![n] = Tail(@)]
        /\ commands' = commands
     \/ /\ commands < MaxCommands /\ commands' = commands + 1
        /\ hand' = <<Command(0)>>
        /\ owed' = owed
  /\ UNCHANGED <<callers, expected, respQ, cmdQ>>

ApiRoute ==
  /\ apc = "route"
  /\ LET frame == hand[1]
     IN  apc' = CASE frame.type = "response" -> "put_response"
                  [] frame.type = "request" /\ frame.cmd = cmd -> "match"
                  [] frame.type = "request" /\ frame.cmd # cmd -> "put_command"
  /\ UNCHANGED <<callers, expected, hand, respQ, cmdQ, owed, commands>>

(* With another number it is dropped. *)
ApiMatch ==
  /\ apc = "match"
  /\ IF hand[1].seq = seqno THEN apc' = "clear" /\ hand' = hand
                                  ELSE apc' = "recv" /\ hand' = <<>>
  /\ UNCHANGED <<callers, expected, respQ, cmdQ, owed, commands>>

(* Nothing is expected any more: the command, then the number. *)
ApiClear ==
  /\ \/ apc = "clear" /\ cmd' = "none" /\ apc' = "clear_seqno" /\ seqno' = seqno
     \/ apc = "clear_seqno" /\ seqno' = 0 /\ apc' = "put_response" /\ cmd' = cmd
  /\ UNCHANGED <<callers, hand, respQ, cmdQ, owed, commands>>

(* osMessagePut, which waits for a place. *)
ApiPut ==
  /\ \/ /\ apc = "put_response" /\ Len(respQ) < RxFrames
        /\ respQ' = respQ \o hand /\ cmdQ' = cmdQ
     \/ /\ apc = "put_command" /\ cmdQ < RxFrames
        /\ cmdQ' = cmdQ + 1 /\ respQ' = respQ
  /\ apc' = "recv" /\ hand' = <<>>
  /\ UNCHANGED <<callers, expected, owed, commands>>

ApiThread == ApiRecv \/ ApiRoute \/ ApiMatch \/ ApiClear \/ ApiPut

(* zw_serialapi_recv_request. *)
RecvRequest ==
  /\ cmdQ > 0
  /\ cmdQ' = cmdQ - 1
  /\ UNCHANGED <<callers, expected, api, respQ, owed, commands>>

Next == \/ \E c \in Callers : Caller(c)
        \/ LoseFrame \/ ApiThread \/ RecvRequest

(* Every thread runs, and every wait but the one for the mutex has an end. *)
Fairness == /\ \A c \in Callers : WF_vars(Caller(c))
            /\ WF_vars(ApiThread)

Spec == Init /\ [][Next]_vars /\ Fairness
-----------------------------------------------------------------------------
Frames == {Response(k, n) : k \in Kinds, n \in 1 .. MaxCalls}
            \cup {Callback(k, n, s) : k \in Kinds, n \in 1 .. MaxCalls, s \in 0 .. SeqNos - 1}
            \cup {Command(n) : n \in 0 .. MaxCalls}

Before == {"idle", "lock", "load", "store", "test", "load_again", "store_again", "take"}
Inside == {"begin", "request", "send", "response", "callback", "restore", "restore_failed",
           "answer", "ok", "failed"}

(* The queues are within their capacity, the number fits its byte, and who *)
(* is between taking and releasing the mutex owns it.                      *)
TypeOK ==
  /\ pc \in [Callers -> Before \cup Inside]
  /\ \A c \in Callers : pc[c] \in Inside => mutex = c
  /\ num \in [Callers -> 0 .. MaxCalls] /\ kind \in [Callers -> Kinds]
  /\ {last, seqno} \cup Range(tmp) \cup Range(seq) \subseteq 0 .. SeqNos - 1
  /\ cmd \in Cmds \cup {"none"} /\ prev \in [Callers -> Cmds \cup {"none"}]
  /\ mutex \in Callers \cup {NoCaller}
  /\ apc \in {"recv", "route", "match", "clear", "clear_seqno", "put_response", "put_command"}
  /\ hand \in Seq(Frames) /\ Len(hand) = IF apc = "recv" THEN 0 ELSE 1
  /\ respQ \in Seq(Frames) /\ Len(respQ) <= RxFrames /\ cmdQ \in 0 .. RxFrames
  /\ \A n \in DOMAIN owed : Len(owed[n]) <= 3
  /\ taken \in Seq(Frames) /\ Len(taken) <= 3
  /\ {early, bumped} \subseteq BOOLEAN

(* A call that succeeds took its own answers, in their order, when nothing *)
(* of an earlier call was under way at its beginning.  Only the command is *)
(* compared with a response: its callback may be taken for a lost response *)
(* of a call that waits for no more, and a command that a node sends of    *)
(* itself for the answer that sendrecv waits for.                          *)
AnswerIsOurs ==
  \A c \in Callers :
    pc[c] = "ok" /\ ~early =>
      LET wanted == Wanted(kind[c], num[c], seq[c])
      IN  \/ taken = wanted
          \/ kind[c] \in {"add", "broadcast"} /\ taken = <<Callback(kind[c], num[c], seq[c])>>
          \/ kind[c] = "sendrecv" /\ commands > 0 /\ taken = [wanted EXCEPT ![3] = Command(0)]

(* While the callback of a transmission that a call waits for is still on  *)
(* its way, the API thread will know it by its command and its number:     *)
(* what the thread clears, without the mutex, is never what a later call   *)
(* expects.  A number taken outside of the mutex undoes this.              *)
CallbackExpected ==
  \A c \in Callers :
    /\ pc[c] \in {"response", "callback"} /\ kind[c] \in {"send", "sendrecv"}
    /\ Callback(kind[c], num[c], seq[c]) \in Range(owed[num[c]])
    /\ ~early /\ ~bumped /\ commands = 0
    => cmd = CmdOf(kind[c]) /\ seqno = seq[c]

(* Every call returns: whatever is lost, its waits end and the mutex is    *)
(* released.                                                               *)
CallsReturn == \A c \in Callers : pc[c] # "idle" ~> pc[c] = "idle"
=============================================================================
