-------------------------- MODULE ZwSerialApiProofs --------------------------
(***************************************************************************)
(* Proofs about ZwSerialApi, for any callers, kinds of calls, numbers of   *)
(* calls and commands, lengths of the queues and sequence numbers.         *)
(*                                                                         *)
(* What the module sends because of a call is in one place at a time: it   *)
(* is owed, in the hand of the API thread, in the response queue, or taken *)
(* by the caller, and it passes through these places in order.             *)
(***************************************************************************)
EXTENDS ZwSerialApi, SequenceTheorems, TLAPS

Number == 0 .. SeqNos - 1

Seqs == {"load", "store", "test", "load_again", "store_again", "take"}

ToNode == {"send", "sendrecv"}

(* c is between osMutexWait and osMutexRelease.                            *)
Owns(c) == pc[c] \in Inside \/ (pc[c] \in Seqs /\ kind[c] # "add")

Place == Before \cup Inside

TypedCallers ==
  /\ pc \in [Callers -> Place] /\ kind \in [Callers -> Kinds]
  /\ num \in [Callers -> 0 .. MaxCalls] /\ calls \in 0 .. MaxCalls
  /\ tmp \in [Callers -> Number] /\ seq \in [Callers -> Number]
  /\ prev \in [Callers -> Cmds \cup {"none"}]

TypedShared ==
  /\ mutex \in Callers \cup {NoCaller}
  /\ last \in Number /\ seqno \in Number /\ cmd \in Cmds \cup {"none"}
  /\ commands \in Nat /\ early \in BOOLEAN /\ bumped \in BOOLEAN

TypedQueues ==
  /\ apc \in {"recv", "route", "match", "clear", "clear_seqno", "put_response", "put_command"}
  /\ hand \in Seq(Frames) /\ Len(hand) = IF apc = "recv" THEN 0 ELSE 1
  /\ respQ \in Seq(Frames) /\ Len(respQ) <= RxFrames /\ cmdQ \in 0 .. RxFrames
  /\ owed \in [1 .. MaxCalls -> Seq(Frames)]
  /\ \A n \in 1 .. MaxCalls : Len(owed[n]) <= 3
  /\ taken \in Seq(Frames)

(* Where a caller may be, depending on its call.                           *)
Where(c) ==
  /\ Owns(c) <=> mutex = c
  /\ pc[c] # "idle" => num[c] \in 1 .. MaxCalls
  /\ pc[c] = "begin" => CmdOf(kind[c]) = "data"
  /\ pc[c] \in {"callback", "restore", "restore_failed"} => kind[c] \in ToNode
  /\ pc[c] = "answer" => kind[c] = "sendrecv"

Places == \A c \in Callers : Where(c)

(* How many frames the owner of the mutex may have taken.                  *)
Most(place) == CASE place = "callback" -> 1
                 [] place \in {"restore", "restore_failed", "answer"} -> 2
                 [] place \in {"ok", "failed"} -> 3
                 [] OTHER -> 0

TakenSoFar == /\ mutex = NoCaller => taken = <<>>
              /\ \A c \in Callers : Owns(c) => Len(taken) <= Most(pc[c])

TInv == TypedCallers /\ TypedShared /\ TypedQueues /\ Places /\ TakenSoFar

-----------------------------------------------------------------------------
LEMMA NumberTypes ==
  /\ 0 \in Number
  /\ \A x \in Number : (x + 1) % SeqNos \in Number
BY SeqNosAssumption DEF Number

LEMMA FrameTypes ==
  /\ \A k \in Kinds : CmdOf(k) \in Cmds /\ CmdOf(k) # "app"
  /\ \A k \in Kinds, n \in 1 .. MaxCalls, s \in Number :
       Caused(k, n, s) \in Seq(Frames) /\ Len(Caused(k, n, s)) <= 3
  /\ \A n \in 0 .. MaxCalls : Command(n) \in Frames
<1>1. \A k \in Kinds : CmdOf(k) \in Cmds /\ CmdOf(k) # "app"
  BY DEF Kinds, Cmds, CmdOf
<1>2. \A n \in 0 .. MaxCalls : Command(n) \in Frames
  BY DEF Frames
<1>3. ASSUME NEW k \in Kinds, NEW n \in 1 .. MaxCalls, NEW s \in Number
      PROVE  Caused(k, n, s) \in Seq(Frames) /\ Len(Caused(k, n, s)) <= 3
  <2> DEFINE R == Response(k, n)
  <2> DEFINE C == Callback(k, n, s)
  <2> DEFINE A == Command(n)
  <2>1. R \in Frames /\ C \in Frames /\ A \in Frames
    BY DEF Frames, Number
  <2>2. Caused(k, n, s) \in {<<R>>, <<R, C>>, <<R, C, A>>}
    BY DEF Caused, Wanted, Kinds
  <2> HIDE DEF R, C, A
  <2>3. /\ <<R>> \in Seq(Frames) /\ Len(<<R>>) <= 3
        /\ <<R, C>> \in Seq(Frames) /\ Len(<<R, C>>) <= 3
        /\ <<R, C, A>> \in Seq(Frames) /\ Len(<<R, C, A>>) <= 3
    BY <2>1
  <2> QED BY <2>2, <2>3, Zenon
<1> QED BY <1>1, <1>2, <1>3

LEMMA PlaceNames ==
  /\ "idle" \in Place /\ "lock" \in Place /\ "load" \in Place /\ "store" \in Place
  /\ "test" \in Place /\ "load_again" \in Place /\ "store_again" \in Place
  /\ "take" \in Place /\ "begin" \in Place /\ "request" \in Place /\ "send" \in Place
  /\ "response" \in Place /\ "callback" \in Place /\ "restore" \in Place
  /\ "restore_failed" \in Place /\ "answer" \in Place /\ "ok" \in Place
  /\ "failed" \in Place
  /\ "idle" \notin Inside /\ "lock" \notin Inside
  /\ "idle" \notin Seqs /\ "lock" \notin Seqs
BY DEF Place, Before, Inside, Seqs

LEMMA InitTyped == Init => TInv
<1> SUFFICES ASSUME Init PROVE TInv
  OBVIOUS
<1> USE DEF Init
<1>1. TypedCallers
  <2>1. 0 \in 0 .. MaxCalls /\ "get" \in Kinds
    BY BoundsAssumption DEF Kinds
  <2> QED BY <2>1, NumberTypes, PlaceNames DEF TypedCallers
<1>2. TypedShared
  BY NumberTypes DEF TypedShared
<1>3. TypedQueues
  <2>1. <<>> \in Seq(Frames) /\ Len(<<>>) = 0
    OBVIOUS
  <2> QED BY <2>1, RxFramesAssumption DEF TypedQueues
<1>4. \A c \in Callers : ~Owns(c) /\ pc[c] = "idle"
  BY PlaceNames DEF Owns
<1> HIDE DEF Init
<1>5. Places /\ TakenSoFar
  BY <1>4, BoundsAssumption DEF Init, Places, Where, TakenSoFar
<1> QED BY <1>1, <1>2, <1>3, <1>5 DEF TInv

LEMMA MostIs ==
  /\ \A p : Most(p) \in Nat
  /\ Most("callback") = 1 /\ Most("restore") = 2 /\ Most("restore_failed") = 2
  /\ Most("answer") = 2 /\ Most("ok") = 3 /\ Most("failed") = 3
  /\ Most("send") = 0 /\ Most("response") = 0
BY DEF Most

LEMMA LenTypes == TypedQueues => Len(taken) \in Nat /\ Len(respQ) \in Nat /\ Len(hand) \in Nat
BY LenProperties DEF TypedQueues

LEMMA GetTypes ==
  ASSUME TypedQueues, Get
  PROVE  /\ respQ' \in Seq(Frames) /\ Len(respQ') <= RxFrames
         /\ taken' \in Seq(Frames) /\ Len(taken') = Len(taken) + 1
<1>1. /\ respQ' \in Seq(Frames) /\ Len(respQ') = Len(respQ) - 1
      /\ Head(respQ) \in Frames /\ Len(respQ) \in Nat
  <2>1. respQ \in Seq(Frames) /\ respQ # <<>> /\ respQ' = Tail(respQ)
    BY DEF TypedQueues, Get
  <2> QED BY <2>1, HeadTailProperties, LenProperties
<1>2. taken' \in Seq(Frames) /\ Len(taken') = Len(taken) + 1
  <2>1. taken \in Seq(Frames) /\ taken' = Append(taken, Head(respQ))
    BY DEF TypedQueues, Get
  <2> QED BY <1>1, <2>1, AppendProperties
<1>3. Len(respQ) <= RxFrames
  BY DEF TypedQueues
<1> QED BY <1>1, <1>2, <1>3, RxFramesAssumption

(* The owner of the mutex, by its place.                                   *)
LEMMA OwnerAt ==
  ASSUME TInv, NEW c \in Callers,
         \/ pc[c] \in {"begin", "request", "send", "response", "callback", "restore",
                       "restore_failed", "answer", "ok", "failed"}
         \/ pc[c] \in Seqs /\ kind[c] # "add"
  PROVE  Owns(c) /\ mutex = c /\ Len(taken) <= Most(pc[c]) /\ num[c] \in 1 .. MaxCalls
<1>1. Owns(c) /\ pc[c] # "idle"
  BY DEF Owns, Inside, Seqs
<1> QED BY <1>1 DEF TInv, Places, Where, TakenSoFar

(* What a caller does leaves the place of every other as it is.            *)
Alone(c) == \A d \in Callers \ {c} : pc'[d] = pc[d] /\ kind'[d] = kind[d] /\ num'[d] = num[d]

LEMMA OthersStay ==
  ASSUME TInv, NEW c \in Callers, Alone(c), Where(c)',
         mutex' = mutex \/ {mutex, mutex'} \subseteq {c, NoCaller},
         taken' = taken \/ mutex = c,
         mutex' = NoCaller => taken' = <<>>,
         Owns(c)' => Len(taken') <= Most(pc'[c])
  PROVE  Places' /\ TakenSoFar'
<1>1. ASSUME NEW d \in Callers \ {c}
      PROVE  /\ Owns(d)' <=> Owns(d)
             /\ mutex' = d <=> mutex = d
             /\ Owns(d) => mutex = d /\ taken' = taken
  BY BoundsAssumption DEF TInv, Alone, Owns, Places, Where
<1>2. ASSUME NEW d \in Callers \ {c} PROVE Where(d)'
  BY <1>1 DEF TInv, Places, Where, Alone
<1>3. ASSUME NEW d \in Callers \ {c}, Owns(d)' PROVE Len(taken') <= Most(pc'[d])
  BY <1>1, <1>3 DEF TInv, TakenSoFar, Alone
<1> QED BY <1>2, <1>3 DEF Places, TakenSoFar

LEMMA EnterTyped == ASSUME TInv, NEW c \in Callers, Enter(c) PROVE TInv'
<1> USE DEF TInv, Enter, Goto, locals, expected, api, ghosts
<1>1. TypedCallers'
  <2>1. calls + 1 \in 0 .. MaxCalls
    BY BoundsAssumption DEF TypedCallers
  <2>2. PICK k \in KindsOf[c] :
          /\ kind' = [kind EXCEPT ![c] = k]
          /\ pc' = [pc EXCEPT ![c] = IF k = "add" THEN "load" ELSE "lock"]
    OBVIOUS
  <2>3. k \in Kinds
    BY KindsAssumption
  <2> QED BY <2>1, <2>2, <2>3, PlaceNames DEF TypedCallers
<1>2. TypedShared' /\ TypedQueues'
  BY NumberTypes, FrameTypes DEF TypedCallers, TypedShared, TypedQueues
<1>3. Alone(c)
  BY DEF TypedCallers, Alone
<1>4. Where(c)' /\ (Owns(c)' => Len(taken') <= Most(pc'[c]))
  <2>1. num'[c] \in 1 .. MaxCalls
    BY BoundsAssumption DEF TypedCallers
  <2>2. pc'[c] = "lock" \/ (pc'[c] = "load" /\ kind'[c] = "add")
    BY DEF TypedCallers
  <2>3. mutex' # c
    BY PlaceNames DEF Places, Where, Owns
  <2> QED BY <2>1, <2>2, <2>3, PlaceNames DEF Where, Owns, Seqs, Inside
<1> QED BY <1>1, <1>2, <1>3, <1>4, OthersStay DEF TakenSoFar, Places, Where

LEMMA LockTyped == ASSUME TInv, NEW c \in Callers, Lock(c) PROVE TInv'
<1> USE DEF TInv, Lock, Goto, locals, expected, api, ghosts
<1>1. TypedCallers'
  BY NumberTypes, PlaceNames DEF TypedCallers
<1>2. TypedShared' /\ TypedQueues'
  <2>1. UnderWay \in BOOLEAN
    BY DEF UnderWay
  <2> QED BY <2>1 DEF TypedShared, TypedQueues, Cmds
<1>3. Alone(c)
  BY DEF TypedCallers, Alone
<1>4. Where(c)' /\ (Owns(c)' => Len(taken') <= Most(pc'[c]))
  <2>1. taken' = <<>> /\ num[c] \in 1 .. MaxCalls
    BY DEF TakenSoFar, Places, Where
  <2>2. /\ pc'[c] \in {"begin", "request"} /\ (pc'[c] = "begin" => CmdOf(kind[c]) = "data")
        /\ mutex' = c /\ kind' = kind /\ num' = num
    BY DEF TypedCallers
  <2> HIDE DEF TInv, Lock
  <2> QED BY <2>1, <2>2, MostIs DEF Where, Owns, Inside
<1> QED BY <1>1, <1>2, <1>3, <1>4, OthersStay DEF TakenSoFar, Places, Where

LEMMA BeginTyped == ASSUME TInv, NEW c \in Callers, Begin(c) PROVE TInv'
<1> USE DEF TInv, Begin, Goto, locals, expected, api, ghosts
<1>1. TypedCallers'
  BY NumberTypes, PlaceNames DEF TypedCallers, TypedShared
<1>2. TypedShared' /\ TypedQueues'
  BY NumberTypes, FrameTypes DEF TypedCallers, TypedShared, TypedQueues
<1>3. Alone(c)
  BY DEF TypedCallers, Alone
<1>4. Where(c)' /\ (Owns(c)' => Len(taken') <= Most(pc'[c]))
  <2>1. Owns(c) /\ mutex = c /\ Len(taken) <= Most("begin") /\ num[c] \in 1 .. MaxCalls
    BY OwnerAt
  <2>2. pc'[c] = "load" /\ kind'[c] # "add"
    BY DEF TypedCallers, Places, Where, CmdOf
  <2>3. Len(taken) <= Most("load") /\ taken' = taken /\ mutex' = mutex /\ kind' = kind /\ num' = num
    BY <2>1 DEF Most
  <2> HIDE DEF TInv, Begin
  <2> QED BY <2>1, <2>2, <2>3, MostIs DEF Where, Owns, Seqs
<1> QED BY <1>1, <1>2, <1>3, <1>4, OthersStay DEF TakenSoFar, Places, Where

LEMMA LoadTyped == ASSUME TInv, NEW c \in Callers, Load(c) PROVE TInv'
<1> USE DEF TInv, Load, Goto, locals, expected, api, ghosts
<1>1. TypedCallers'
  BY NumberTypes, PlaceNames DEF TypedCallers, TypedShared
<1>2. TypedShared' /\ TypedQueues'
  BY NumberTypes, FrameTypes DEF TypedCallers, TypedShared, TypedQueues
<1>3. Alone(c)
  BY DEF TypedCallers, Alone
<1>4. Where(c)' /\ (Owns(c)' => Len(taken') <= Most(pc'[c]))
  BY PlaceNames DEF TypedCallers, Places, Where, Owns, Seqs, Inside, ToNode, TakenSoFar, Most
<1> QED BY <1>1, <1>2, <1>3, <1>4, OthersStay DEF TakenSoFar, Places, Where

LEMMA StoreTyped == ASSUME TInv, NEW c \in Callers, Store(c) PROVE TInv'
<1> USE DEF TInv, Store, Goto, locals, expected, api, ghosts
<1>1. TypedCallers'
  BY NumberTypes, PlaceNames DEF TypedCallers
<1>2. TypedShared' /\ TypedQueues'
  BY NumberTypes, FrameTypes DEF TypedCallers, TypedShared, TypedQueues
<1>3. Alone(c)
  BY DEF TypedCallers, Alone
<1>4. Where(c)' /\ (Owns(c)' => Len(taken') <= Most(pc'[c]))
  BY PlaceNames DEF TypedCallers, Places, Where, Owns, Seqs, Inside, ToNode, TakenSoFar, Most
<1> QED BY <1>1, <1>2, <1>3, <1>4, OthersStay DEF TakenSoFar, Places, Where

LEMMA TestTyped == ASSUME TInv, NEW c \in Callers, Test(c) PROVE TInv'
<1> USE DEF TInv, Test, Goto, locals, expected, api, ghosts
<1>1. TypedCallers'
  BY NumberTypes, PlaceNames DEF TypedCallers
<1>2. TypedShared' /\ TypedQueues'
  BY NumberTypes, FrameTypes DEF TypedCallers, TypedShared, TypedQueues
<1>3. Alone(c)
  BY DEF TypedCallers, Alone
<1>4. Where(c)' /\ (Owns(c)' => Len(taken') <= Most(pc'[c]))
  BY PlaceNames DEF TypedCallers, Places, Where, Owns, Seqs, Inside, ToNode, TakenSoFar, Most
<1> QED BY <1>1, <1>2, <1>3, <1>4, OthersStay DEF TakenSoFar, Places, Where

LEMMA TakeTyped == ASSUME TInv, NEW c \in Callers, Take(c) PROVE TInv'
<1> USE DEF TInv, Take, Goto, locals, expected, api, ghosts
<1>1. TypedCallers'
  BY NumberTypes, PlaceNames DEF TypedCallers, TypedShared
<1>2. TypedShared' /\ TypedQueues'
  BY NumberTypes, FrameTypes DEF TypedCallers, TypedShared, TypedQueues
<1>3. Alone(c)
  BY DEF TypedCallers, Alone
<1>4. Where(c)' /\ (Owns(c)' => Len(taken') <= Most(pc'[c]))
  BY PlaceNames DEF TypedCallers, Places, Where, Owns, Seqs, Inside, ToNode, TakenSoFar, Most
<1> QED BY <1>1, <1>2, <1>3, <1>4, OthersStay DEF TakenSoFar, Places, Where

LEMMA RequestTyped == ASSUME TInv, NEW c \in Callers, Request(c) PROVE TInv'
<1> USE DEF TInv, Request, Goto, locals, expected, api, ghosts
<1>1. TypedCallers'
  BY NumberTypes, PlaceNames DEF TypedCallers
<1>2. TypedShared' /\ TypedQueues'
  BY NumberTypes, FrameTypes DEF TypedCallers, TypedShared, TypedQueues
<1>3. Alone(c)
  BY DEF TypedCallers, Alone
<1>4. Where(c)' /\ (Owns(c)' => Len(taken') <= Most(pc'[c]))
  BY PlaceNames DEF TypedCallers, Places, Where, Owns, Seqs, Inside, ToNode, TakenSoFar, Most
<1> QED BY <1>1, <1>2, <1>3, <1>4, OthersStay DEF TakenSoFar, Places, Where

LEMMA LinkSendTyped == ASSUME TInv, NEW c \in Callers, LinkSend(c) PROVE TInv'
<1> USE DEF TInv, LinkSend, Goto, locals, expected, api, ghosts, Fail
<1>1. TypedCallers'
  BY NumberTypes, PlaceNames DEF TypedCallers
<1>2. TypedShared' /\ TypedQueues'
  <2>1. num[c] \in 1 .. MaxCalls
    BY OwnerAt
  <2>2. /\ Caused(kind[c], num[c], seq[c]) \in Seq(Frames)
        /\ Len(Caused(kind[c], num[c], seq[c])) <= 3
    BY <2>1, FrameTypes DEF TypedCallers
  <2> DEFINE caused == Caused(kind[c], num[c], seq[c])
  <2>3. owed' = owed \/ owed' = [owed EXCEPT ![num[c]] = caused]
    OBVIOUS
  <2> HIDE DEF caused
  <2>4. owed' \in [1 .. MaxCalls -> Seq(Frames)] /\ \A n \in 1 .. MaxCalls : Len(owed'[n]) <= 3
    BY <2>1, <2>2, <2>3 DEF TypedQueues, caused
  <2> QED BY <2>4 DEF TypedShared, TypedQueues
<1>3. Alone(c)
  BY DEF TypedCallers, Alone
<1>4. Where(c)' /\ (Owns(c)' => Len(taken') <= Most(pc'[c]))
  <2>1. Owns(c) /\ mutex = c /\ Len(taken) <= Most("send") /\ num[c] \in 1 .. MaxCalls
    BY OwnerAt
  <2>2. \/ pc'[c] \in {"response", "failed"}
        \/ pc'[c] = "restore_failed" /\ kind[c] \in ToNode
    BY DEF TypedCallers, ToNode
  <2>3. Len(taken) = 0 /\ taken' = taken /\ mutex' = mutex /\ kind' = kind /\ num' = num
    BY <2>1, LenTypes, MostIs
  <2> HIDE DEF TInv, LinkSend
  <2> QED BY <2>1, <2>2, <2>3, MostIs DEF Where, Owns, Inside
<1> QED BY <1>1, <1>2, <1>3, <1>4, OthersStay DEF TakenSoFar, Places, Where

LEMMA GetResponseTyped == ASSUME TInv, NEW c \in Callers, GetResponse(c) PROVE TInv'
<1> USE DEF TInv, GetResponse, Goto, locals, expected, api, ghosts, Fail
<1>1. TypedCallers'
  BY NumberTypes, PlaceNames DEF TypedCallers
<1>2. TypedShared' /\ TypedQueues'
  BY GetTypes DEF TypedShared, TypedQueues
<1>3. Alone(c)
  BY DEF TypedCallers, Alone
<1>4. mutex = c /\ Where(c)' /\ (Owns(c)' => Len(taken') <= Most(pc'[c]))
  <2>1. Owns(c) /\ mutex = c /\ Len(taken) <= Most("response") /\ num[c] \in 1 .. MaxCalls
    BY OwnerAt
  <2>2. \/ pc'[c] \in {"failed", "ok"}
        \/ pc'[c] \in {"restore_failed", "callback"} /\ kind[c] \in ToNode
    BY DEF TypedCallers, ToNode, Places, Where
  <2>3. /\ Len(taken') = Len(taken) + 1 /\ Len(taken) \in Nat
        /\ mutex' = mutex /\ kind' = kind /\ num' = num
    BY GetTypes, LenTypes
  <2> HIDE DEF TInv, GetResponse
  <2> QED BY <2>1, <2>2, <2>3, MostIs DEF Where, Owns, Inside
<1> QED BY <1>1, <1>2, <1>3, <1>4, OthersStay, BoundsAssumption

LEMMA GetCallbackTyped == ASSUME TInv, NEW c \in Callers, GetCallback(c) PROVE TInv'
<1> USE DEF TInv, GetCallback, Goto, locals, expected, api, ghosts
<1>1. TypedCallers'
  BY NumberTypes, PlaceNames DEF TypedCallers
<1>2. TypedShared' /\ TypedQueues'
  BY GetTypes DEF TypedShared, TypedQueues
<1>3. Alone(c)
  BY DEF TypedCallers, Alone
<1>4. mutex = c /\ Where(c)' /\ (Owns(c)' => Len(taken') <= Most(pc'[c]))
  <2>1. Owns(c) /\ mutex = c /\ Len(taken) <= Most("callback") /\ num[c] \in 1 .. MaxCalls
    BY OwnerAt
  <2>2. pc'[c] \in {"restore_failed", "restore"} /\ kind[c] \in ToNode
    BY DEF TypedCallers, ToNode, Places, Where
  <2>3. /\ Len(taken') = Len(taken) + 1 /\ Len(taken) \in Nat
        /\ mutex' = mutex /\ kind' = kind /\ num' = num
    BY GetTypes, LenTypes
  <2> HIDE DEF TInv, GetCallback
  <2> QED BY <2>1, <2>2, <2>3, MostIs DEF Where, Owns, Inside
<1> QED BY <1>1, <1>2, <1>3, <1>4, OthersStay, BoundsAssumption

LEMMA RestoreTyped == ASSUME TInv, NEW c \in Callers, Restore(c) PROVE TInv'
<1> USE DEF TInv, Restore, Goto, locals, expected, api, ghosts
<1>1. TypedCallers'
  <2>1. pc'[c] \in {"failed", "ok", "answer"}
    BY DEF TypedCallers, Places, Where, ToNode
  <2> QED BY <2>1, PlaceNames DEF TypedCallers
<1>2. TypedShared' /\ TypedQueues'
  BY DEF TypedCallers, TypedShared, TypedQueues
<1>3. Alone(c)
  BY DEF TypedCallers, Alone
<1>4. Where(c)' /\ (Owns(c)' => Len(taken') <= Most(pc'[c]))
  <2>1. Owns(c) /\ mutex = c /\ Len(taken) <= 2 /\ num[c] \in 1 .. MaxCalls
    BY OwnerAt, MostIs
  <2>2. \/ pc'[c] \in {"failed", "ok"}
        \/ pc'[c] = "answer" /\ kind[c] = "sendrecv"
    BY DEF TypedCallers, Places, Where, ToNode
  <2>3. /\ Len(taken) \in Nat /\ taken' = taken
        /\ mutex' = mutex /\ kind' = kind /\ num' = num
    BY LenTypes
  <2> HIDE DEF TInv, Restore
  <2> QED BY <2>1, <2>2, <2>3, MostIs DEF Where, Owns, Inside
<1> QED BY <1>1, <1>2, <1>3, <1>4, OthersStay DEF TakenSoFar, Places, Where

LEMMA GetAnswerTyped == ASSUME TInv, NEW c \in Callers, GetAnswer(c) PROVE TInv'
<1> USE DEF TInv, GetAnswer, Goto, locals, expected, api, ghosts
<1>1. TypedCallers'
  BY NumberTypes, PlaceNames DEF TypedCallers
<1>2. TypedShared' /\ TypedQueues'
  BY GetTypes DEF TypedShared, TypedQueues
<1>3. Alone(c)
  BY DEF TypedCallers, Alone
<1>4. mutex = c /\ Where(c)' /\ (Owns(c)' => Len(taken') <= Most(pc'[c]))
  <2>1. Owns(c) /\ mutex = c /\ Len(taken) <= Most("answer") /\ num[c] \in 1 .. MaxCalls
    BY OwnerAt
  <2>2. pc'[c] \in {"failed", "ok"}
    BY DEF TypedCallers, ToNode, Places, Where
  <2>3. /\ Len(taken') = Len(taken) + 1 /\ Len(taken) \in Nat
        /\ mutex' = mutex /\ kind' = kind /\ num' = num
    BY GetTypes, LenTypes
  <2> HIDE DEF TInv, GetAnswer
  <2> QED BY <2>1, <2>2, <2>3, MostIs DEF Where, Owns, Inside
<1> QED BY <1>1, <1>2, <1>3, <1>4, OthersStay, BoundsAssumption

LEMMA TimeoutTyped == ASSUME TInv, NEW c \in Callers, Timeout(c) PROVE TInv'
<1> USE DEF TInv, Timeout, Goto, locals, expected, api, ghosts, Fail
<1>1. TypedCallers'
  BY NumberTypes, PlaceNames DEF TypedCallers
<1>2. TypedShared' /\ TypedQueues'
  BY NumberTypes, FrameTypes DEF TypedCallers, TypedShared, TypedQueues
<1>3. Alone(c)
  BY DEF TypedCallers, Alone
<1>4. Where(c)' /\ (Owns(c)' => Len(taken') <= Most(pc'[c]))
  <2>1. Owns(c) /\ mutex = c /\ Len(taken) <= Most(pc[c]) /\ num[c] \in 1 .. MaxCalls
    BY OwnerAt
  <2>2. \/ pc'[c] = "failed"
        \/ pc'[c] = "restore_failed" /\ kind[c] \in ToNode /\ pc[c] # "answer"
    BY DEF TypedCallers, ToNode
  <2>3. /\ Most(pc[c]) \in {0, 1, 2} /\ Len(taken) \in Nat /\ taken' = taken
        /\ mutex' = mutex /\ kind' = kind /\ num' = num
    BY LenTypes, MostIs
  <2> HIDE DEF TInv, Timeout
  <2> QED BY <2>1, <2>2, <2>3, MostIs DEF Where, Owns, Inside
<1> QED BY <1>1, <1>2, <1>3, <1>4, OthersStay DEF TakenSoFar, Places, Where

LEMMA UnlockTyped == ASSUME TInv, NEW c \in Callers, Unlock(c) PROVE TInv'
<1> USE DEF TInv, Unlock, Goto, locals, expected, api, ghosts, Forget
<1>1. TypedCallers'
  <2>1. 0 \in 0 .. MaxCalls /\ "get" \in Kinds
    BY BoundsAssumption DEF Kinds
  <2> QED BY <2>1, NumberTypes, PlaceNames DEF TypedCallers
<1>2. TypedShared' /\ TypedQueues'
  <2>1. <<>> \in Seq(Frames)
    OBVIOUS
  <2> QED BY <2>1 DEF TypedShared, TypedQueues
<1>3. Alone(c)
  BY DEF TypedCallers, Alone
<1>4. Where(c)' /\ ~Owns(c)' /\ mutex = c
  <2>1. pc'[c] = "idle" /\ mutex = c
    BY OwnerAt DEF TypedCallers
  <2> QED BY <2>1, PlaceNames, BoundsAssumption DEF Where, Owns
<1> QED BY <1>1, <1>2, <1>3, <1>4, OthersStay DEF TakenSoFar, Places, Where

-----------------------------------------------------------------------------
(* The module and the API thread leave the callers where they are.         *)
LEMMA CallersStay ==
  ASSUME TInv, UNCHANGED <<pc, locals, mutex, last, calls, taken, ghosts>>,
         commands' \in Nat, cmd' \in Cmds \cup {"none"}, seqno' \in Number
  PROVE  TypedCallers' /\ TypedShared' /\ Places' /\ TakenSoFar' /\ taken' \in Seq(Frames)
<1>1. TypedCallers'
  BY DEF TInv, TypedCallers, locals
<1>2. TypedShared'
  BY DEF TInv, TypedShared, ghosts
<1>3. \A c \in Callers : (Owns(c)' <=> Owns(c)) /\ Where(c)'
  BY DEF TInv, Places, Where, Owns, locals
<1>4. Places' /\ TakenSoFar'
  BY <1>3 DEF TInv, Places, TakenSoFar
<1>5. taken' \in Seq(Frames)
  BY DEF TInv, TypedQueues
<1> QED BY <1>1, <1>2, <1>4, <1>5

(* The first frame that is owed for a call goes.                           *)
LEMMA OwedGoes ==
  ASSUME TypedQueues, NEW n \in DOMAIN owed, owed[n] # <<>>,
         owed' = [owed EXCEPT ![n] = Tail(owed[n])]
  PROVE  /\ n \in 1 .. MaxCalls /\ Head(owed[n]) \in Frames
         /\ owed' \in [1 .. MaxCalls -> Seq(Frames)]
         /\ \A m \in 1 .. MaxCalls : Len(owed'[m]) <= 3
<1>1. n \in 1 .. MaxCalls /\ owed[n] \in Seq(Frames) /\ Len(owed[n]) <= 3
  BY DEF TypedQueues
<1>2. /\ Tail(owed[n]) \in Seq(Frames) /\ Len(Tail(owed[n])) <= 3
      /\ Head(owed[n]) \in Frames
  <2>1. /\ Tail(owed[n]) \in Seq(Frames) /\ Len(Tail(owed[n])) = Len(owed[n]) - 1
        /\ Head(owed[n]) \in Frames /\ Len(owed[n]) \in Nat
    BY <1>1, HeadTailProperties, LenProperties
  <2> QED BY <1>1, <2>1
<1> QED BY <1>1, <1>2 DEF TypedQueues

LEMMA LoseFrameTyped == ASSUME TInv, LoseFrame PROVE TInv'
<1>1. PICK n \in DOMAIN owed : owed[n] # <<>> /\ owed' = [owed EXCEPT ![n] = Tail(owed[n])]
  BY DEF LoseFrame
<1>2. /\ UNCHANGED <<pc, locals, mutex, last, calls, taken, ghosts>>
      /\ commands' \in Nat /\ cmd' \in Cmds \cup {"none"} /\ seqno' \in Number
  BY DEF LoseFrame, TInv, TypedShared, expected
<1>3. TypedQueues'
  BY <1>1, OwedGoes DEF LoseFrame, TInv, TypedQueues, api
<1> QED BY <1>2, <1>3, CallersStay DEF TInv

LEMMA ApiRecvTyped == ASSUME TInv, ApiRecv PROVE TInv'
<1>1. /\ UNCHANGED <<pc, locals, mutex, last, calls, taken, ghosts>>
      /\ commands' \in Nat /\ cmd' \in Cmds \cup {"none"} /\ seqno' \in Number
  BY DEF ApiRecv, TInv, TypedShared, expected, callers
<1>2. \E f \in Frames : hand' = <<f>>
  <2>1. Command(0) \in Frames
    BY FrameTypes, BoundsAssumption
  <2> QED BY <2>1, OwedGoes DEF ApiRecv, TInv
<1>3. hand' \in Seq(Frames) /\ Len(hand') = 1
  BY <1>2
<1>4. /\ owed' \in [1 .. MaxCalls -> Seq(Frames)]
      /\ \A m \in 1 .. MaxCalls : Len(owed'[m]) <= 3
  <2>1. CASE owed' = owed
    BY <2>1 DEF TInv, TypedQueues
  <2>2. CASE \E n \in DOMAIN owed : owed[n] # <<>> /\ owed' = [owed EXCEPT ![n] = Tail(owed[n])]
    BY <2>2, OwedGoes DEF TInv
  <2> QED BY <2>1, <2>2 DEF ApiRecv
<1>5. TypedQueues'
  BY <1>3, <1>4 DEF ApiRecv, TInv, TypedQueues, callers
<1> QED BY <1>1, <1>5, CallersStay DEF TInv

LEMMA ApiStepTyped == ASSUME TInv, ApiRoute \/ ApiMatch \/ ApiClear PROVE TInv'
<1>1. /\ UNCHANGED <<pc, locals, mutex, last, calls, taken, ghosts>>
      /\ commands' \in Nat /\ cmd' \in Cmds \cup {"none"} /\ seqno' \in Number
  BY NumberTypes DEF ApiRoute, ApiMatch, ApiClear, TInv, TypedShared, expected, callers
<1>2. /\ UNCHANGED <<respQ, cmdQ, owed, taken>> /\ apc # "recv"
      /\ \/ hand' = hand /\ apc' \in {"match", "clear", "clear_seqno", "put_response", "put_command"}
         \/ hand' = <<>> /\ apc' = "recv"
  <2>1. CASE ApiRoute
    <3>1. apc' \in {"match", "put_response", "put_command"}
      <4>1. hand[1] \in Frames
        <5>1. hand \in Seq(Frames) /\ Len(hand) = 1
          BY <2>1 DEF ApiRoute, TInv, TypedQueues
        <5> QED BY <5>1, ElementOfSeq
      <4>2. hand[1].type \in {"response", "request"}
        BY <4>1 DEF Frames, Response, Callback, Command
      <4> QED BY <2>1, <4>2 DEF ApiRoute
    <3> QED BY <2>1, <3>1 DEF ApiRoute, callers
  <2>2. CASE ApiMatch \/ ApiClear
    BY <2>2 DEF ApiMatch, ApiClear, callers
  <2> QED BY <2>1, <2>2
<1>3. TypedQueues'
  <2>1. hand' \in Seq(Frames) /\ Len(hand') = IF apc' = "recv" THEN 0 ELSE 1
    <3>1. CASE hand' = <<>> /\ apc' = "recv"
      BY <3>1
    <3>2. CASE hand' = hand /\ apc' # "recv"
      BY <1>2, <3>2 DEF TInv, TypedQueues
    <3> QED BY <1>2, <3>1, <3>2
  <2> QED BY <1>2, <2>1 DEF TInv, TypedQueues
<1> QED BY <1>1, <1>3, CallersStay DEF TInv

LEMMA ApiPutTyped == ASSUME TInv, ApiPut PROVE TInv'
<1>1. /\ UNCHANGED <<pc, locals, mutex, last, calls, taken, ghosts>>
      /\ commands' \in Nat /\ cmd' \in Cmds \cup {"none"} /\ seqno' \in Number
  BY DEF ApiPut, TInv, TypedShared, expected, callers
<1>2. respQ' \in Seq(Frames) /\ Len(respQ') <= RxFrames
  <2>1. CASE respQ' = respQ
    BY <2>1 DEF TInv, TypedQueues
  <2>2. CASE apc = "put_response" /\ Len(respQ) < RxFrames /\ respQ' = respQ \o hand
    <3>1. respQ \in Seq(Frames) /\ hand \in Seq(Frames) /\ Len(hand) = 1
      BY <2>2 DEF TInv, TypedQueues
    <3>2. /\ respQ \o hand \in Seq(Frames) /\ Len(respQ \o hand) = Len(respQ) + Len(hand)
          /\ Len(respQ) \in Nat
      BY <3>1, ConcatProperties, LenProperties
    <3> QED BY <2>2, <3>1, <3>2, RxFramesAssumption
  <2> QED BY <2>1, <2>2 DEF ApiPut
<1>3. cmdQ' \in 0 .. RxFrames
  BY RxFramesAssumption DEF ApiPut, TInv, TypedQueues
<1>4. hand' \in Seq(Frames) /\ Len(hand') = 0 /\ apc' = "recv"
  BY DEF ApiPut
<1>5. TypedQueues'
  BY <1>2, <1>3, <1>4 DEF ApiPut, TInv, TypedQueues, callers
<1> QED BY <1>1, <1>5, CallersStay DEF TInv

LEMMA RecvRequestTyped == ASSUME TInv, RecvRequest PROVE TInv'
<1>1. /\ UNCHANGED <<pc, locals, mutex, last, calls, taken, ghosts>>
      /\ commands' \in Nat /\ cmd' \in Cmds \cup {"none"} /\ seqno' \in Number
  BY DEF RecvRequest, TInv, TypedShared, expected, callers
<1>2. TypedQueues'
  BY RxFramesAssumption DEF RecvRequest, TInv, TypedQueues, callers, api
<1> QED BY <1>1, <1>2, CallersStay DEF TInv

LEMMA CallerTyped == ASSUME TInv, NEW c \in Callers, Caller(c) PROVE TInv'
BY EnterTyped, LockTyped, BeginTyped, LoadTyped, StoreTyped, TestTyped, TakeTyped, RequestTyped,
   LinkSendTyped, GetResponseTyped, GetCallbackTyped, RestoreTyped, GetAnswerTyped, TimeoutTyped,
   UnlockTyped DEF Caller

LEMMA StepTyped == TInv /\ [Next]_vars => TInv'
<1> SUFFICES ASSUME TInv, [Next]_vars PROVE TInv'
  OBVIOUS
<1>1. CASE Next
  BY <1>1, CallerTyped, LoseFrameTyped, ApiRecvTyped, ApiStepTyped, ApiPutTyped, RecvRequestTyped
  DEF Next, ApiThread
<1>2. CASE UNCHANGED vars
  <2>1. /\ UNCHANGED <<pc, locals, mutex, last, calls, taken, ghosts>>
        /\ commands' \in Nat /\ cmd' \in Cmds \cup {"none"} /\ seqno' \in Number
    BY <1>2 DEF vars, TInv, TypedShared, expected
  <2>2. TypedQueues'
    BY <1>2 DEF vars, TInv, TypedQueues, api
  <2> QED BY <2>1, <2>2, CallersStay DEF TInv
<1> QED BY <1>1, <1>2

(* The invariant gives the type invariant that the run checks: the owner   *)
(* of the mutex takes at most three frames, one after another.             *)
LEMMA TInvTypeOK == TInv => TypeOK
<1> SUFFICES ASSUME TInv PROVE TypeOK
  OBVIOUS
<1>1. \A c \in Callers : pc[c] \in Inside => mutex = c
  BY DEF TInv, Places, Where, Owns
<1>2. {last, seqno} \cup Range(tmp) \cup Range(seq) \subseteq 0 .. SeqNos - 1
  BY DEF TInv, TypedShared, TypedCallers, Number, Range
<1>3. Len(taken) <= 3
  <2>1. CASE mutex = NoCaller
    <3>1. taken = <<>>
      BY <2>1 DEF TInv, TakenSoFar
    <3> QED BY <3>1
  <2>2. CASE mutex # NoCaller
    <3>1. mutex \in Callers /\ Owns(mutex)
      BY <2>2 DEF TInv, TypedShared, Places, Where
    <3>2. Len(taken) <= Most(pc[mutex])
      BY <3>1 DEF TInv, TakenSoFar
    <3>3. Most(pc[mutex]) \in 0 .. 3 /\ Len(taken) \in Nat
      BY LenTypes DEF TInv, Most
    <3> QED BY <3>2, <3>3
  <2> QED BY <2>1, <2>2
<1>4. /\ pc \in [Callers -> Before \cup Inside] /\ num \in [Callers -> 0 .. MaxCalls]
      /\ kind \in [Callers -> Kinds] /\ prev \in [Callers -> Cmds \cup {"none"}]
  BY DEF TInv, TypedCallers, Place
<1>5. DOMAIN owed = 1 .. MaxCalls
  BY DEF TInv, TypedQueues
<1> QED BY <1>1, <1>2, <1>3, <1>4, <1>5 DEF TInv, TypedShared, TypedQueues, TypeOK

(* Every variable keeps its type, a caller between osMutexWait and         *)
(* osMutexRelease is the owner of the mutex, and no queue holds more than  *)
(* it has places for.                                                      *)
THEOREM TypeCorrect == Spec => []TypeOK
<1>1. Spec => []TInv
  BY InitTyped, StepTyped, PTL DEF Spec
<1> QED BY <1>1, TInvTypeOK, PTL
-----------------------------------------------------------------------------
(* The frames of a call come in this order; those of no call (Command(0))  *)
(* come between them anywhere.                                             *)
Ours(f) == f.call # 0

Rank(f) == IF f.type = "response" THEN 1 ELSE IF f.cmd = "app" THEN 3 ELSE 2

Earlier(S, T) == \A f \in S, g \in T : Ours(f) /\ Ours(g) => Rank(f) < Rank(g)

Sorted(s) == \A i, j \in 1 .. Len(s) :
               i < j /\ Ours(s[i]) /\ Ours(s[j]) => Rank(s[i]) < Rank(s[j])

NoCommand(S) == \A f \in S : f.cmd # "app"

(* The frame that the API thread will put into the queue of responses.     *)
ToQueue == IF apc \in {"match", "clear", "clear_seqno", "put_response"} THEN Range(hand) ELSE {}

(* What comes next out of the queue of responses is a command.             *)
Spoilt == \/ respQ # <<>> /\ Head(respQ).cmd = "app"
          \/ respQ = <<>> /\ ~NoCommand(ToQueue)

(* The request of the owner may have been sent.                            *)
Started(c) == pc[c] \in {"response", "callback", "restore", "restore_failed", "answer", "ok",
                         "failed"}

MyFrames(c) == Range(Caused(kind[c], num[c], seq[c]))

Came == Range(respQ) \cup Range(hand)

(* Nothing but frames of the call of c, and commands that nodes send of    *)
(* themselves, is on its way to c.                                         *)
Mine(c) ==
  /\ \A n \in 1 .. MaxCalls : n # num[c] => owed[n] = <<>>
  /\ Range(owed[num[c]]) \subseteq MyFrames(c)
  /\ Range(taken) \cup Came \subseteq MyFrames(c) \cup {Command(0)}
  /\ Command(0) \in Range(taken) \cup Came => commands > 0
  /\ ~Started(c) => owed[num[c]] = <<>> /\ taken = <<>> /\ Came \subseteq {Command(0)}

(* Taken, in the queue, in the hand of the API thread, owed.               *)
InOrder(c) ==
  /\ Sorted(respQ) /\ Sorted(owed[num[c]])
  /\ Earlier(Range(taken), Came \cup Range(owed[num[c]]))
  /\ Earlier(Range(respQ), Range(hand)) /\ Earlier(Came, Range(owed[num[c]]))

Answered(c) == <<Response(kind[c], num[c]), Callback(kind[c], num[c], seq[c])>>

Progress(c) ==
  /\ pc[c] \in {"send", "response", "callback", "restore"} => cmd # "app"
  /\ pc[c] = "response" =>
       taken = <<>> /\ (Spoilt \/ NoCommand(Range(respQ) \cup ToQueue))
  /\ pc[c] = "callback" =>
       \E f \in MyFrames(c) : /\ taken = <<f>> /\ f.cmd # "app"
                              /\ NoCommand(Range(respQ) \cup ToQueue)
  /\ pc[c] \in {"restore", "answer"} => taken = Answered(c)

(* What AnswerIsOurs says of the taken frames.                             *)
RightTaken(c) ==
  LET wanted == Wanted(kind[c], num[c], seq[c])
  IN  \/ taken = wanted
      \/ kind[c] \in {"add", "broadcast"} /\ taken = <<Callback(kind[c], num[c], seq[c])>>
      \/ kind[c] = "sendrecv" /\ commands > 0 /\ taken = [wanted EXCEPT ![3] = Command(0)]

OwnAnswers(c) == /\ Mine(c) /\ InOrder(c) /\ Progress(c)
                 /\ pc[c] = "ok" => RightTaken(c)

(* A callback is awaited, or will be, and nothing else happens.            *)
Awaiting(c) == /\ mutex = c /\ ~early /\ ~bumped /\ commands = 0 /\ kind[c] \in ToNode
               /\ pc[c] \in {"request", "send", "response", "callback"}
               /\ Started(c) => Callback(kind[c], num[c], seq[c]) \in Range(owed[num[c]])

Expecting(c) ==
  /\ seqno = seq[c] /\ (pc[c] # "request" => cmd = CmdOf(kind[c]))
  /\ apc \in {"recv", "route", "put_response"}
  /\ \A f \in Range(hand) : f.type = "response"

AInv == \A c \in Callers : /\ mutex = c /\ ~early => OwnAnswers(c)
                           /\ Awaiting(c) => Expecting(c)
-----------------------------------------------------------------------------
LEMMA FrameFacts ==
  ASSUME NEW k \in Kinds, NEW n \in 1 .. MaxCalls, NEW s
  PROVE  LET R == Response(k, n)
             C == Callback(k, n, s)
             A == Command(n)
         IN  /\ Ours(R) /\ Ours(C) /\ Ours(A) /\ ~Ours(Command(0))
             /\ Rank(R) = 1 /\ Rank(C) = 2 /\ Rank(A) = 3
             /\ R.cmd = CmdOf(k) /\ C.cmd = CmdOf(k) /\ A.cmd = "app" /\ Command(0).cmd = "app"
             /\ CmdOf(k) # "app"
             /\ R.type = "response" /\ C.type = "request" /\ A.type = "request"
             /\ Command(0).type = "request"
             /\ Range(Caused(k, n, s)) \subseteq {R, C, A}
             /\ k = "get" => Range(Caused(k, n, s)) = {R}
             /\ k \in {"add", "broadcast"} => Range(Caused(k, n, s)) = {R, C}
             /\ k = "send" => Range(Caused(k, n, s)) = {R, C}
             /\ Sorted(Caused(k, n, s))
<1> DEFINE R == Response(k, n)
           C == Callback(k, n, s)
           A == Command(n)
<1>1. /\ Ours(R) /\ Ours(C) /\ Ours(A) /\ ~Ours(Command(0))
      /\ R.cmd = CmdOf(k) /\ C.cmd = CmdOf(k) /\ A.cmd = "app" /\ Command(0).cmd = "app"
      /\ R.type = "response" /\ C.type = "request" /\ A.type = "request"
      /\ Command(0).type = "request"
  BY DEF Ours, Response, Callback, Command
<1>2. CmdOf(k) # "app"
  BY FrameTypes
<1>3. Rank(R) = 1 /\ Rank(C) = 2 /\ Rank(A) = 3
  BY <1>1, <1>2 DEF Rank
<1>4. /\ k = "get" => Caused(k, n, s) = <<R>>
      /\ k \in {"add", "broadcast", "send"} => Caused(k, n, s) = <<R, C>>
      /\ k = "sendrecv" => Caused(k, n, s) = <<R, C, A>>
  BY DEF Caused, Wanted
<1> HIDE DEF R, C, A
<1>5. Range(<<R>>) = {R} /\ Range(<<R, C>>) = {R, C} /\ Range(<<R, C, A>>) = {R, C, A}
  BY DEF Range
<1>6. Sorted(<<R>>) /\ Sorted(<<R, C>>) /\ Sorted(<<R, C, A>>)
  BY <1>3 DEF Sorted
<1>7. k \in {"get", "add", "broadcast", "send", "sendrecv"}
  BY DEF Kinds
<1>8. /\ Range(Caused(k, n, s)) \subseteq {R, C, A} /\ Sorted(Caused(k, n, s))
      /\ k = "get" => Range(Caused(k, n, s)) = {R}
      /\ k \in {"add", "broadcast"} => Range(Caused(k, n, s)) = {R, C}
      /\ k = "send" => Range(Caused(k, n, s)) = {R, C}
  BY <1>4, <1>5, <1>6, <1>7
<1> QED BY <1>1, <1>2, <1>3, <1>8 DEF R, C, A

LEMMA TailFacts ==
  ASSUME NEW s \in Seq(Frames), s # <<>>
  PROVE  /\ Tail(s) \in Seq(Frames) /\ Range(s) = {Head(s)} \cup Range(Tail(s))
         /\ Sorted(s) => Sorted(Tail(s)) /\ Earlier({Head(s)}, Range(Tail(s)))
<1>1. /\ Tail(s) \in Seq(Frames) /\ Len(Tail(s)) = Len(s) - 1 /\ Len(s) \in Nat /\ Len(s) # 0
      /\ \A i \in 1 .. Len(Tail(s)) : Tail(s)[i] = s[i + 1]
  BY HeadTailProperties, LenProperties, EmptySeq
<1>2. Head(s) = s[1]
  OBVIOUS
<1>3. Range(s) = {s[i] : i \in 1 .. Len(s)} /\ Range(Tail(s)) = {Tail(s)[i] : i \in 1 .. Len(Tail(s))}
  BY <1>1, RangeEquality
<1>4. Range(s) = {Head(s)} \cup Range(Tail(s))
  <2>1. ASSUME NEW f \in Range(s) PROVE f \in {Head(s)} \cup Range(Tail(s))
    <3>1. PICK i \in 1 .. Len(s) : f = s[i]
      BY <1>3
    <3>2. CASE i = 1
      BY <1>2, <3>1, <3>2
    <3>3. CASE i # 1
      <4>1. i - 1 \in 1 .. Len(Tail(s)) /\ f = Tail(s)[i - 1]
        BY <1>1, <3>1, <3>3
      <4> QED BY <1>3, <4>1
    <3> QED BY <3>2, <3>3
  <2>2. ASSUME NEW f \in {Head(s)} \cup Range(Tail(s)) PROVE f \in Range(s)
    <3>1. CASE f = Head(s)
      <4>1. 1 \in 1 .. Len(s)
        BY <1>1
      <4> QED BY <1>2, <1>3, <3>1, <4>1
    <3>2. CASE f \in Range(Tail(s))
      <4>1. PICK i \in 1 .. Len(Tail(s)) : f = Tail(s)[i]
        BY <1>3, <3>2
      <4>2. i + 1 \in 1 .. Len(s) /\ f = s[i + 1]
        BY <1>1, <4>1
      <4> QED BY <1>3, <4>2
    <3> QED BY <3>1, <3>2
  <2> QED BY <2>1, <2>2
<1>5. ASSUME Sorted(s) PROVE Sorted(Tail(s))
  BY <1>1, <1>5 DEF Sorted
<1>6. ASSUME Sorted(s) PROVE Earlier({Head(s)}, Range(Tail(s)))
  <2>1. ASSUME NEW g \in Range(Tail(s)), Ours(Head(s)), Ours(g) PROVE Rank(Head(s)) < Rank(g)
    <3>1. PICK i \in 1 .. Len(Tail(s)) : g = Tail(s)[i]
      BY <1>3, <2>1
    <3>2. i + 1 \in 1 .. Len(s) /\ 1 \in 1 .. Len(s) /\ g = s[i + 1] /\ 1 < i + 1
      BY <1>1, <3>1
    <3> QED BY <1>2, <1>6, <2>1, <3>2 DEF Sorted
  <2> QED BY <2>1 DEF Earlier
<1> QED BY <1>1, <1>4, <1>5, <1>6

LEMMA JoinFacts ==
  ASSUME NEW s \in Seq(Frames), NEW f \in Frames
  PROVE  /\ Range(s \o <<f>>) = Range(s) \cup {f}
         /\ Head(s \o <<f>>) = IF s = <<>> THEN f ELSE Head(s)
         /\ s \o <<f>> # <<>>
         /\ Sorted(s) /\ Earlier(Range(s), {f}) => Sorted(s \o <<f>>)
<1> DEFINE t == s \o <<f>>
<1>1. <<f>> \in Seq(Frames) /\ Range(<<f>>) = {f} /\ Len(<<f>>) = 1 /\ <<f>>[1] = f
  BY DEF Range
<1>2. Range(t) = Range(s) \cup {f}
  <2>1. Range(s \o <<f>>) = Range(s) \cup Range(<<f>>)
    BY <1>1, RangeConcatenation
  <2> QED BY <1>1, <2>1
<1>3. /\ t \in Seq(Frames) /\ Len(t) = Len(s) + 1 /\ Len(s) \in Nat
      /\ \A i \in 1 .. Len(s) : t[i] = s[i]
      /\ t[Len(s) + 1] = f
  <2>1. /\ t \in Seq(Frames) /\ Len(t) = Len(s) + Len(<<f>>) /\ Len(s) \in Nat
        /\ \A i \in 1 .. Len(s) + Len(<<f>>) : t[i] = IF i <= Len(s) THEN s[i] ELSE <<f>>[i - Len(s)]
    BY <1>1, ConcatProperties, LenProperties
  <2> QED BY <1>1, <2>1
<1>4. Head(t) = t[1] /\ (s # <<>> => Head(s) = s[1] /\ Len(s) # 0) /\ Len(<<>>) = 0
  BY EmptySeq
<1> HIDE DEF t
<1>5. Head(t) = IF s = <<>> THEN f ELSE Head(s)
  BY <1>3, <1>4
<1>6. t # <<>>
  BY <1>3, <1>4
<1>7. ASSUME Sorted(s), Earlier(Range(s), {f}) PROVE Sorted(t)
  <2>1. ASSUME NEW i \in 1 .. Len(t), NEW j \in 1 .. Len(t), i < j, Ours(t[i]), Ours(t[j])
        PROVE  Rank(t[i]) < Rank(t[j])
    <3>1. CASE j \in 1 .. Len(s)
      <4>1. i \in 1 .. Len(s) /\ t[i] = s[i] /\ t[j] = s[j]
        BY <1>3, <2>1, <3>1
      <4> QED BY <1>7, <2>1, <3>1, <4>1 DEF Sorted
    <3>2. CASE j = Len(s) + 1
      <4>1. i \in 1 .. Len(s) /\ t[i] = s[i] /\ t[j] = f
        BY <1>3, <2>1, <3>2
      <4>2. s[i] \in Range(s)
        BY <4>1, RangeEquality
      <4> QED BY <1>7, <2>1, <4>1, <4>2 DEF Earlier
    <3> QED BY <1>3, <3>1, <3>2
  <2> QED BY <2>1 DEF Sorted
<1> QED BY <1>2, <1>5, <1>6, <1>7 DEF t

(* What the API thread works on, by its place.                             *)
LEMMA HandIs ==
  ASSUME TInv
  PROVE  /\ apc = "recv" => hand = <<>> /\ Range(hand) = {}
         /\ apc # "recv" => \E f \in Frames : hand = <<f>> /\ hand[1] = f /\ Range(hand) = {f}
<1>1. hand \in Seq(Frames) /\ Len(hand) = IF apc = "recv" THEN 0 ELSE 1
  BY DEF TInv, TypedQueues
<1>2. Range(<<>>) = {}
  BY DEF Range
<1>3. ASSUME apc = "recv" PROVE hand = <<>>
  BY <1>1, <1>3, EmptySeq
<1>4. ASSUME apc # "recv" PROVE hand[1] \in Frames /\ hand = <<hand[1]>>
  <2>1. hand[1] \in Frames /\ Len(hand) = 1
    BY <1>1, <1>4, ElementOfSeq
  <2> QED BY <1>1, <2>1
<1>5. \A f \in Frames : Range(<<f>>) = {f}
  BY DEF Range
<1> QED BY <1>2, <1>3, <1>4, <1>5

(* Commands of no call only, or nothing, are in any order.                 *)
LEMMA NoOrder ==
  /\ \A S : Earlier(S, {Command(0)}) /\ Earlier({Command(0)}, S)
  /\ \A s \in Seq(Frames) : Range(s) \subseteq {Command(0)} => Sorted(s)
  /\ \A S, T, U : S \subseteq T /\ Earlier(T, U) => Earlier(S, U)
  /\ \A S, T, U : S \subseteq T /\ Earlier(U, T) => Earlier(U, S)
  /\ \A S : Earlier({}, S) /\ Earlier(S, {})
<1>1. ~Ours(Command(0))
  BY DEF Ours, Command
<1>2. ASSUME NEW s \in Seq(Frames), Range(s) \subseteq {Command(0)} PROVE Sorted(s)
  <2>1. \A i \in 1 .. Len(s) : s[i] = Command(0)
    BY <1>2, RangeEquality
  <2> QED BY <1>1, <2>1 DEF Sorted
<1> QED BY <1>1, <1>2 DEF Earlier
-----------------------------------------------------------------------------
(* The other callers do not disturb the owner of the mutex, but for the    *)
(* number that one of them takes.                                          *)
LEMMA OthersWait ==
  ASSUME TInv, NEW c \in Callers, NEW d \in Callers \ {c}, mutex = c, Caller(d)
  PROVE  /\ pc'[c] = pc[c] /\ kind'[c] = kind[c] /\ num'[c] = num[c] /\ seq'[c] = seq[c]
         /\ prev'[c] = prev[c]
         /\ UNCHANGED <<mutex, cmd, api, respQ, owed, commands, taken, early>>
         /\ UNCHANGED <<seqno, bumped>> \/ bumped'
<1>1. ~Owns(d) /\ mutex # NoCaller
  BY BoundsAssumption DEF TInv, Places, Where
<1>2. pc[d] \notin Inside
  BY <1>1 DEF Owns
<1>3. Enter(d) \/ Load(d) \/ Store(d) \/ Test(d) \/ Take(d)
  BY <1>1, <1>2 DEF Caller, Lock, Begin, Request, LinkSend, GetResponse, GetCallback, Restore,
     GetAnswer, Timeout, Unlock, Inside
<1>4. /\ pc'[c] = pc[c] /\ kind'[c] = kind[c] /\ num'[c] = num[c] /\ seq'[c] = seq[c]
      /\ prev'[c] = prev[c]
  BY <1>3 DEF Enter, Load, Store, Test, Take, Goto, locals, TInv, TypedCallers
<1>5. UNCHANGED <<mutex, cmd, api, respQ, owed, commands, taken, early>>
  BY <1>3 DEF Enter, Load, Store, Test, Take, expected, ghosts
<1>6. UNCHANGED <<seqno, bumped>> \/ bumped'
  BY <1>1, <1>3 DEF Enter, Load, Store, Test, Take, expected, ghosts
<1> QED BY <1>4, <1>5, <1>6

LEMMA SameAnswers ==
  ASSUME NEW c \in Callers, OwnAnswers(c),
         pc'[c] = pc[c] /\ kind'[c] = kind[c] /\ num'[c] = num[c] /\ seq'[c] = seq[c],
         UNCHANGED <<cmd, api, respQ, owed, commands, taken>>
  PROVE  OwnAnswers(c)'
<1>1. Started(c)' <=> Started(c)
  BY DEF Started
<1>2. MyFrames(c)' = MyFrames(c) /\ Came' = Came /\ ToQueue' = ToQueue /\ (Spoilt' <=> Spoilt)
  BY DEF MyFrames, Came, ToQueue, Spoilt, api
<1>3. Mine(c)'
  BY <1>1, <1>2 DEF OwnAnswers, Mine
<1>4. InOrder(c)'
  BY <1>2 DEF OwnAnswers, InOrder, api
<1>5. Progress(c)'
  BY <1>2 DEF OwnAnswers, Progress, Answered
<1>6. pc'[c] = "ok" => RightTaken(c)'
  BY DEF OwnAnswers, RightTaken
<1> QED BY <1>3, <1>4, <1>5, <1>6 DEF OwnAnswers

(* Before its request is sent, only commands of nodes may come.            *)
LEMMA NothingYet ==
  ASSUME NEW c \in Callers, TypedQueues', ~Started(c)', num'[c] \in 1 .. MaxCalls,
         \A n \in 1 .. MaxCalls : owed'[n] = <<>>, taken' = <<>>, Came' \subseteq {Command(0)},
         Command(0) \in Came' => commands' > 0,
         pc'[c] = "send" => cmd' # "app"
  PROVE  OwnAnswers(c)'
<1>1. Range(<<>>) = {}
  BY DEF Range
<1>2. Mine(c)'
  BY <1>1 DEF Mine
<1>3. InOrder(c)'
  <2>1. respQ' \in Seq(Frames) /\ Range(respQ') \subseteq {Command(0)} /\ Range(hand') \subseteq {Command(0)}
    BY DEF TypedQueues, Came
  <2>2. owed'[num'[c]] = <<>> /\ <<>> \in Seq(Frames)
    OBVIOUS
  <2>3. Sorted(respQ') /\ Sorted(owed'[num'[c]])
    BY <1>1, <2>1, <2>2, NoOrder
  <2>4. Earlier(Range(taken'), Came' \cup Range(owed'[num'[c]])) /\ Earlier(Came', Range(owed'[num'[c]]))
    BY <1>1, <2>2, NoOrder
  <2>5. Earlier(Range(respQ'), Range(hand'))
    <3>1. Earlier(Range(respQ'), {Command(0)})
      BY NoOrder
    <3> QED BY <2>1, <3>1, NoOrder
  <2> QED BY <2>3, <2>4, <2>5 DEF InOrder
<1>4. Progress(c)' /\ pc'[c] # "ok"
  BY DEF Progress, Started
<1> QED BY <1>2, <1>3, <1>4 DEF OwnAnswers

(* The steps of the owner up to its request.                               *)
LEMMA QuietAnswers ==
  ASSUME TInv, TInv', AInv, NEW c \in Callers, ~early',
         Lock(c) \/ (mutex = c /\ (Begin(c) \/ Load(c) \/ Store(c) \/ Test(c) \/ Take(c) \/ Request(c)))
  PROVE  OwnAnswers(c)'
<1>1. TypedQueues' /\ num'[c] \in 1 .. MaxCalls
  <2>1. pc[c] # "idle" /\ num' = num
    BY DEF Lock, Begin, Load, Store, Test, Take, Request, locals
  <2> QED BY <2>1 DEF TInv, Places, Where
<1>2. pc'[c] \in {"load", "store", "test", "load_again", "store_again", "take", "request", "begin",
                  "send", "lock"}
  BY DEF Lock, Begin, Load, Store, Test, Take, Request, Goto, TInv, TypedCallers
<1>3. pc'[c] = "send" => cmd' # "app"
  <2>1. kind[c] \in Kinds
    BY DEF TInv, TypedCallers
  <2> QED BY <2>1, FrameTypes DEF Lock, Begin, Load, Store, Test, Take, Request, Goto, TInv, TypedCallers
<1>4. /\ \A n \in 1 .. MaxCalls : owed'[n] = <<>>
      /\ taken' = <<>> /\ Came' \subseteq {Command(0)}
      /\ Command(0) \in Came' => commands' > 0
  <2>1. CASE Lock(c)
    <3>1. /\ \A n \in 1 .. MaxCalls : owed[n] = <<>>
          /\ hand = <<>> /\ respQ = <<>>
      BY <2>1 DEF Lock, UnderWay, TInv, TypedQueues
    <3>2. taken = <<>>
      BY <2>1 DEF Lock, TInv, TakenSoFar
    <3>3. Came' = {}
      BY <2>1, <3>1 DEF Came, Lock, api, Range
    <3> QED BY <2>1, <3>1, <3>2, <3>3 DEF Lock
  <2>2. CASE mutex = c /\ (Begin(c) \/ Load(c) \/ Store(c) \/ Test(c) \/ Take(c) \/ Request(c))
    <3>1. UNCHANGED <<api, respQ, owed, commands, taken, early>>
      BY <2>2 DEF Begin, Load, Store, Test, Take, Request, ghosts
    <3>2. OwnAnswers(c) /\ ~Started(c)
      BY <2>2, <3>1 DEF AInv, Started, Begin, Load, Store, Test, Take, Request
    <3>3. Came' = Came
      BY <3>1 DEF Came, api
    <3> QED BY <3>1, <3>2, <3>3 DEF OwnAnswers, Mine
  <2> QED BY <2>1, <2>2
<1>5. ~Started(c)'
  BY <1>2 DEF Started
<1> QED BY <1>1, <1>3, <1>4, <1>5, NothingYet

LEMMA OwnerFacts ==
  ASSUME TInv, NEW c \in Callers
  PROVE  /\ kind[c] \in Kinds /\ seq[c] \in Number
         /\ pc[c] # "idle" => num[c] \in 1 .. MaxCalls
         /\ respQ \in Seq(Frames)
         /\ \A n \in 1 .. MaxCalls : owed[n] \in Seq(Frames)
BY DEF TInv, TypedCallers, TypedQueues, Places, Where

LEMMA LinkSendAnswers ==
  ASSUME TInv, AInv, NEW c \in Callers, ~early, mutex = c, LinkSend(c)
  PROVE  OwnAnswers(c)'
<1>1. /\ pc[c] = "send" /\ UNCHANGED <<kind, num, seq, cmd, api, respQ, commands, taken>>
      /\ pc'[c] \in {"response", "restore_failed", "failed"}
  BY DEF LinkSend, Fail, Goto, TInv, TypedCallers, locals, expected
<1>2. OwnAnswers(c) /\ ~Started(c)
  BY <1>1 DEF AInv, Started
<1>3. /\ \A n \in 1 .. MaxCalls : owed[n] = <<>>
      /\ taken = <<>> /\ Came \subseteq {Command(0)} /\ (Command(0) \in Came => commands > 0)
      /\ cmd # "app"
  BY <1>1, <1>2 DEF OwnAnswers, Mine, Progress
<1>4. num[c] \in 1 .. MaxCalls /\ kind[c] \in Kinds /\ respQ \in Seq(Frames)
  BY <1>1, OwnerFacts
<1>5. DOMAIN owed = 1 .. MaxCalls /\ owed \in [1 .. MaxCalls -> Seq(Frames)]
  BY DEF TInv, TypedQueues
<1>6. /\ \A n \in 1 .. MaxCalls : n # num[c] => owed'[n] = <<>>
      /\ owed'[num[c]] \in {<<>>, Caused(kind[c], num[c], seq[c])}
  BY <1>3, <1>4, <1>5 DEF LinkSend
<1>7. Came' = Came /\ ToQueue' = ToQueue /\ (Spoilt' <=> Spoilt) /\ MyFrames(c)' = MyFrames(c)
  BY <1>1 DEF Came, ToQueue, Spoilt, MyFrames, api
<1>8. Range(<<>>) = {} /\ Range(owed'[num[c]]) \subseteq MyFrames(c)
  BY <1>6 DEF Range, MyFrames
<1>9. Mine(c)'
  BY <1>1, <1>3, <1>6, <1>7, <1>8 DEF Mine, Started
<1>10. InOrder(c)'
  <2>1. Sorted(respQ)
    BY <1>3, <1>4, NoOrder DEF Came
  <2>2. Sorted(owed'[num[c]])
    <3>1. Sorted(<<>>)
      BY <1>8, NoOrder, EmptySeq
    <3> QED BY <1>4, <1>6, <3>1, FrameFacts
  <2>3. Earlier(Came, Range(owed'[num[c]])) /\ Earlier(Range(respQ), Range(hand))
    BY <1>3, NoOrder DEF Came
  <2>4. Earlier({}, Came \cup Range(owed'[num[c]]))
    BY NoOrder
  <2> QED BY <1>1, <1>3, <1>7, <1>8, <2>1, <2>2, <2>3, <2>4 DEF InOrder, api
<1>11. Progress(c)' /\ pc'[c] # "ok"
  <2>1. Spoilt \/ NoCommand(Range(respQ) \cup ToQueue)
    <3>1. Command(0).cmd = "app"
      BY DEF Command
    <3>2. CASE respQ # <<>>
      <4>1. Head(respQ) \in Range(respQ)
        BY <1>4, <3>2, TailFacts
      <4> QED BY <1>3, <3>1, <3>2, <4>1 DEF Spoilt, Came
    <3>3. CASE respQ = <<>>
      BY <1>8, <3>3 DEF Spoilt
    <3> QED BY <3>2, <3>3
  <2> QED BY <1>1, <1>3, <1>7, <2>1 DEF Progress
<1> QED BY <1>9, <1>10, <1>11 DEF OwnAnswers

(* The owner takes the first frame of the queue: it is of its call, or a   *)
(* command of a node, and comes after those taken before.                  *)
LEMMA GetAnswers ==
  ASSUME TInv, NEW c \in Callers, mutex = c, OwnAnswers(c), Started(c), Started(c)', Get,
         UNCHANGED <<locals, api, owed, commands>>
  PROVE  /\ Mine(c)' /\ InOrder(c)'
         /\ Head(respQ) \in (MyFrames(c) \cup {Command(0)}) \cap Range(respQ)
         /\ Head(respQ) = Command(0) => commands > 0
         /\ Earlier(Range(taken), {Head(respQ)})
         /\ Range(respQ') \subseteq Range(respQ)
<1> DEFINE h == Head(respQ)
<1>1. /\ respQ # <<>> /\ respQ' = Tail(respQ) /\ taken' = Append(taken, h)
      /\ respQ \in Seq(Frames) /\ taken \in Seq(Frames)
  BY DEF Get, TInv, TypedQueues
<1>2. /\ Range(respQ) = {h} \cup Range(respQ') /\ h \in Frames
      /\ Sorted(respQ) => Sorted(respQ') /\ Earlier({h}, Range(respQ'))
  BY <1>1, TailFacts, HeadTailProperties
<1>3. Range(taken') = Range(taken) \cup {h}
  <2>1. taken' = taken \o <<h>>
    BY <1>1, <1>2, AppendIsConcat
  <2> HIDE DEF h
  <2> QED BY <1>1, <1>2, <2>1, JoinFacts
<1> HIDE DEF h
<1>4. Mine(c) /\ InOrder(c)
  BY DEF OwnAnswers
<1>5. h \in Came /\ Came' \cup Range(taken') = Came \cup Range(taken) /\ Came' \subseteq Came
  BY <1>2, <1>3 DEF Came, api
<1>6. MyFrames(c)' = MyFrames(c)
  BY DEF MyFrames, locals
<1>7. Mine(c)'
  BY <1>4, <1>5, <1>6 DEF Mine, locals
<1>8. InOrder(c)'
  <2>1. Earlier(Came, Range(owed[num[c]])) /\ Earlier(Range(respQ), Range(hand))
        /\ Earlier(Range(taken), Came \cup Range(owed[num[c]])) /\ Sorted(respQ) /\ Sorted(owed[num[c]])
    BY <1>4 DEF InOrder
  <2>2. Earlier({h}, Range(respQ')) /\ Sorted(respQ')
    BY <1>2, <2>1
  <2>3. /\ Earlier(Came', Range(owed[num[c]])) /\ Earlier(Range(respQ'), Range(hand))
        /\ Earlier(Range(taken) \cup {h}, Came' \cup Range(owed[num[c]]))
    <3>1. Came' = Range(respQ') \cup Range(hand)
      BY DEF Came, api
    <3> QED BY <1>2, <1>5, <2>1, <2>2, <3>1 DEF Earlier
  <2> QED BY <1>3, <2>1, <2>2, <2>3 DEF InOrder, api, locals
<1>9. Earlier(Range(taken), {h})
  BY <1>4, <1>5 DEF InOrder, Earlier
<1>10. h \in MyFrames(c) \cup {Command(0)} /\ (h = Command(0) => commands > 0)
  BY <1>4, <1>5 DEF Mine
<1> QED BY <1>2, <1>7, <1>8, <1>9, <1>10 DEF h

LEMMA AppendTuple ==
  \A a, b, d : Append(<<a>>, b) = <<a, b>> /\ Append(<<a, b>>, d) = <<a, b, d>>
<1> SUFFICES ASSUME NEW a, NEW b, NEW d
             PROVE  Append(<<a>>, b) = <<a, b>> /\ Append(<<a, b>>, d) = <<a, b, d>>
  OBVIOUS
<1> DEFINE S == {a, b, d}
<1>1. <<a>> \in Seq(S) /\ <<a, b>> \in Seq(S) /\ <<a, b, d>> \in Seq(S) /\ b \in S /\ d \in S
  OBVIOUS
<1>2. Append(<<a>>, b) = <<a, b>>
  <2> DEFINE t == Append(<<a>>, b)
             u == <<a, b>>
  <2>1. t \in Seq(S) /\ Len(t) = 2 /\ t[1] = a /\ t[2] = b
    <3>1. Len(<<a>>) = 1 /\ <<a>>[1] = a
      OBVIOUS
    <3> HIDE DEF S
    <3> QED BY <1>1, <3>1, AppendProperties
  <2>2. u \in Seq(S) /\ Len(u) = 2 /\ u[1] = a /\ u[2] = b
    BY <1>1
  <2> HIDE DEF t, u, S
  <2>3. t = u
    BY <2>1, <2>2, SeqEqual
  <2> QED BY <2>3 DEF t, u
<1>3. Append(<<a, b>>, d) = <<a, b, d>>
  <2> DEFINE t == Append(<<a, b>>, d)
             u == <<a, b, d>>
  <2>1. t \in Seq(S) /\ Len(t) = 3 /\ t[1] = a /\ t[2] = b /\ t[3] = d
    <3>1. Len(<<a, b>>) = 2 /\ <<a, b>>[1] = a /\ <<a, b>>[2] = b
      OBVIOUS
    <3> HIDE DEF S
    <3> QED BY <1>1, <3>1, AppendProperties
  <2>2. u \in Seq(S) /\ Len(u) = 3 /\ u[1] = a /\ u[2] = b /\ u[3] = d
    BY <1>1
  <2> HIDE DEF t, u, S
  <2>3. t = u
    BY <2>1, <2>2, SeqEqual
  <2> QED BY <2>3 DEF t, u
<1> QED BY <1>2, <1>3

LEMMA GetResponseAnswers ==
  ASSUME TInv, AInv, NEW c \in Callers, ~early, mutex = c, GetResponse(c)
  PROVE  OwnAnswers(c)'
<1> DEFINE h == Head(respQ)
           R == Response(kind[c], num[c])
           C == Callback(kind[c], num[c], seq[c])
<1>1. /\ pc[c] = "response" /\ Get /\ UNCHANGED <<locals, cmd, api, owed, commands>>
      /\ IF h.cmd # CmdOf(kind[c]) THEN pc'[c] \in {"restore_failed", "failed"}
         ELSE pc'[c] = IF kind[c] \in ToNode THEN "callback" ELSE "ok"
  BY DEF GetResponse, Fail, Goto, TInv, TypedCallers, expected, ToNode
<1>2. /\ OwnAnswers(c) /\ Started(c) /\ Started(c)'
      /\ kind[c] \in Kinds /\ num[c] \in 1 .. MaxCalls
  BY <1>1, OwnerFacts DEF AInv, Started
<1>3. /\ Mine(c)' /\ InOrder(c)' /\ h \in (MyFrames(c) \cup {Command(0)}) \cap Range(respQ)
      /\ Range(respQ') \subseteq Range(respQ)
  BY <1>1, <1>2, GetAnswers
<1>4. taken = <<>> /\ (Spoilt \/ NoCommand(Range(respQ) \cup ToQueue)) /\ cmd # "app"
  BY <1>1, <1>2 DEF OwnAnswers, Progress
<1>5. taken' = <<h>> /\ respQ # <<>>
  BY <1>1, <1>4 DEF Get
<1>6. ToQueue' = ToQueue /\ MyFrames(c)' = MyFrames(c)
  BY <1>1 DEF ToQueue, MyFrames, api, locals
<1> HIDE DEF h
<1>7. CASE h.cmd # CmdOf(kind[c])
  <2>1. Progress(c)' /\ pc'[c] # "ok"
    BY <1>1, <1>7 DEF Progress
  <2> QED BY <1>3, <2>1 DEF OwnAnswers
<1>8. CASE h.cmd = CmdOf(kind[c])
  <2>1. /\ CmdOf(kind[c]) # "app" /\ Command(0).cmd = "app"
        /\ kind[c] = "get" => MyFrames(c) = {R}
        /\ kind[c] \in {"add", "broadcast"} => MyFrames(c) = {R, C}
    BY <1>2, FrameFacts DEF MyFrames
  <2>2. h \in MyFrames(c) /\ h.cmd # "app"
    BY <1>3, <1>8, <2>1
  <2>3. NoCommand(Range(respQ) \cup ToQueue)
    BY <1>4, <1>5, <2>2 DEF Spoilt, h
  <2>4. NoCommand(Range(respQ') \cup ToQueue')
    BY <1>3, <1>6, <2>3 DEF NoCommand
  <2>5. CASE kind[c] \in ToNode
    <3>1. pc'[c] = "callback"
      BY <1>1, <1>8, <2>5
    <3>2. Progress(c)'
      BY <1>1, <1>4, <1>5, <1>6, <2>2, <2>4, <3>1 DEF Progress
    <3> QED BY <1>3, <3>1, <3>2 DEF OwnAnswers
  <2>6. CASE kind[c] \notin ToNode
    <3>1. pc'[c] = "ok"
      BY <1>1, <1>8, <2>6
    <3>2. kind[c] \in {"get", "add", "broadcast"}
      BY <1>2, <2>6 DEF Kinds, ToNode
    <3>3. Wanted(kind[c], num[c], seq[c]) = <<R>>
      BY <3>2 DEF Wanted
    <3>4. h = R \/ (kind[c] \in {"add", "broadcast"} /\ h = C)
      BY <2>1, <2>2, <3>2
    <3>5. RightTaken(c)'
      BY <1>1, <1>5, <3>3, <3>4 DEF RightTaken, locals
    <3>6. Progress(c)'
      BY <3>1 DEF Progress
    <3> QED BY <1>3, <3>5, <3>6 DEF OwnAnswers
  <2> QED BY <2>5, <2>6
<1> QED BY <1>7, <1>8

LEMMA GetCallbackAnswers ==
  ASSUME TInv, AInv, NEW c \in Callers, ~early, mutex = c, GetCallback(c)
  PROVE  OwnAnswers(c)'
<1> DEFINE h == Head(respQ)
           R == Response(kind[c], num[c])
           C == Callback(kind[c], num[c], seq[c])
<1>1. /\ pc[c] = "callback" /\ Get /\ UNCHANGED <<locals, cmd, api, owed, commands>>
      /\ pc'[c] \in {"restore", "restore_failed"}
  BY DEF GetCallback, Goto, TInv, TypedCallers, expected
<1>2. /\ OwnAnswers(c) /\ Started(c) /\ Started(c)'
      /\ kind[c] \in Kinds /\ num[c] \in 1 .. MaxCalls /\ kind[c] \in ToNode
  BY <1>1, OwnerFacts DEF AInv, Started, TInv, Places, Where
<1>3. /\ Mine(c)' /\ InOrder(c)' /\ h \in (MyFrames(c) \cup {Command(0)}) \cap Range(respQ)
      /\ Earlier(Range(taken), {h})
  BY <1>1, <1>2, GetAnswers
<1>4. cmd # "app" \/ pc'[c] # "restore"
  <2>1. cmd \in Cmds \cup {"none"}
    BY DEF TInv, TypedShared
  <2> QED BY <1>1, <1>2 DEF OwnAnswers, Progress
<1>5. PICK f \in MyFrames(c) : /\ taken = <<f>> /\ f.cmd # "app"
                               /\ NoCommand(Range(respQ) \cup ToQueue)
  BY <1>1, <1>2 DEF OwnAnswers, Progress
<1>6. taken' = <<f, h>>
  <2>1. taken' = Append(taken, h)
    BY <1>1 DEF Get
  <2> QED BY <1>5, <2>1, AppendTuple
<1> HIDE DEF h, R, C
<1>7. /\ MyFrames(c) \subseteq {R, C, Command(num[c])}
      /\ Command(num[c]).cmd = "app" /\ Command(0).cmd = "app"
      /\ Ours(R) /\ Ours(C) /\ Rank(R) = 1 /\ Rank(C) = 2
  BY <1>2, FrameFacts DEF MyFrames, R, C
<1>8. h.cmd # "app" /\ f \in Range(taken)
  BY <1>3, <1>5 DEF NoCommand, Range
<1>9. f \in {R, C} /\ h \in {R, C}
  BY <1>3, <1>5, <1>7, <1>8
<1>10. Rank(f) < Rank(h)
  BY <1>3, <1>7, <1>8, <1>9 DEF Earlier
<1>11. f = R /\ h = C
  BY <1>7, <1>9, <1>10
<1>12. taken' = Answered(c)'
  BY <1>1, <1>6, <1>11 DEF Answered, R, C, locals
<1>13. Progress(c)' /\ pc'[c] # "ok"
  BY <1>1, <1>4, <1>12 DEF Progress
<1> QED BY <1>3, <1>13 DEF OwnAnswers

LEMMA GetAnswerAnswers ==
  ASSUME TInv, AInv, NEW c \in Callers, ~early, mutex = c, GetAnswer(c)
  PROVE  OwnAnswers(c)'
<1> DEFINE h == Head(respQ)
           R == Response(kind[c], num[c])
           C == Callback(kind[c], num[c], seq[c])
           A == Command(num[c])
<1>1. /\ pc[c] = "answer" /\ Get /\ UNCHANGED <<locals, cmd, api, owed, commands>>
      /\ pc'[c] \in {"ok", "failed"}
  BY DEF GetAnswer, Goto, TInv, TypedCallers, expected
<1>2. /\ OwnAnswers(c) /\ Started(c) /\ Started(c)'
      /\ kind[c] \in Kinds /\ num[c] \in 1 .. MaxCalls /\ kind[c] = "sendrecv"
  BY <1>1, OwnerFacts DEF AInv, Started, TInv, Places, Where
<1>3. /\ Mine(c)' /\ InOrder(c)' /\ h \in (MyFrames(c) \cup {Command(0)}) \cap Range(respQ)
      /\ Earlier(Range(taken), {h}) /\ (h = Command(0) => commands > 0)
  BY <1>1, <1>2, GetAnswers
<1>4. taken = <<R, C>>
  BY <1>1, <1>2 DEF OwnAnswers, Progress, Answered
<1>5. taken' = <<R, C, h>>
  <2>1. taken' = Append(taken, h)
    BY <1>1 DEF Get
  <2> QED BY <1>4, <2>1, AppendTuple
<1>6. Wanted(kind[c], num[c], seq[c]) = <<R, C, A>>
  BY <1>2 DEF Wanted
<1> HIDE DEF h, R, C, A
<1>7. /\ MyFrames(c) \subseteq {R, C, A} /\ Ours(R) /\ Ours(C) /\ Rank(R) = 1 /\ Rank(C) = 2
  BY <1>2, FrameFacts DEF MyFrames, R, C, A
<1>8. C \in Range(taken)
  <2>1. Range(<<R, C>>) = {R, C}
    BY DEF Range
  <2> QED BY <1>4, <2>1
<1>9. h = A \/ h = Command(0)
  BY <1>3, <1>7, <1>8 DEF Earlier
<1>10. [<<R, C, A>> EXCEPT ![3] = Command(0)] = <<R, C, Command(0)>>
  OBVIOUS
<1>11. RightTaken(c)'
  BY <1>1, <1>2, <1>3, <1>5, <1>6, <1>9, <1>10 DEF RightTaken, locals
<1>12. Progress(c)'
  BY <1>1 DEF Progress
<1> QED BY <1>3, <1>11, <1>12 DEF OwnAnswers

(* The owner waits no more, and takes no frame.                            *)
LEMMA RestAnswers ==
  ASSUME TInv, AInv, NEW c \in Callers, ~early, mutex = c, Restore(c) \/ Timeout(c)
  PROVE  OwnAnswers(c)'
<1>1. /\ UNCHANGED <<locals, api, respQ, owed, commands, taken>>
      /\ pc[c] \in {"response", "callback", "answer", "restore", "restore_failed"}
  BY DEF Restore, Timeout, expected
<1>2. OwnAnswers(c) /\ Started(c) /\ kind[c] \in Kinds
  BY <1>1, OwnerFacts DEF AInv, Started
<1>3. \/ pc'[c] \in {"restore_failed", "failed"}
      \/ pc[c] = "restore" /\ kind[c] = "send" /\ pc'[c] = "ok"
      \/ pc[c] = "restore" /\ kind[c] = "sendrecv" /\ pc'[c] = "answer"
  <2>1. CASE Timeout(c)
    BY <2>1 DEF Timeout, Fail, Goto, TInv, TypedCallers
  <2>2. CASE Restore(c) /\ pc[c] = "restore_failed"
    BY <2>2 DEF Restore, Goto, TInv, TypedCallers
  <2>3. CASE Restore(c) /\ pc[c] = "restore"
    <3>1. kind[c] \in ToNode
      BY <2>3 DEF TInv, Places, Where
    <3> QED BY <2>3, <3>1 DEF Restore, Goto, TInv, TypedCallers, ToNode
  <2> QED BY <2>1, <2>2, <2>3 DEF Restore
<1>4. MyFrames(c)' = MyFrames(c) /\ Came' = Came /\ Started(c)'
  BY <1>1, <1>3 DEF MyFrames, Came, locals, api, Started
<1>5. Mine(c)' /\ InOrder(c)'
  BY <1>1, <1>2, <1>4 DEF OwnAnswers, Mine, InOrder, locals, api
<1>6. pc[c] = "restore" => taken' = Answered(c)'
  BY <1>1, <1>2 DEF OwnAnswers, Progress, Answered, locals
<1>7. Progress(c)'
  BY <1>3, <1>6 DEF Progress
<1>8. pc'[c] = "ok" => RightTaken(c)'
  <2>1. kind[c] = "send" => Wanted(kind[c], num[c], seq[c]) = Answered(c)
    BY DEF Wanted, Answered
  <2>2. Answered(c)' = Answered(c)
    BY <1>1 DEF Answered, locals
  <2> QED BY <1>1, <1>3, <1>6, <2>1, <2>2 DEF RightTaken, locals
<1> QED BY <1>5, <1>7, <1>8 DEF OwnAnswers

LEMMA CallerAnswers ==
  ASSUME TInv, TInv', AInv, NEW c \in Callers, NEW d \in Callers, Caller(d), mutex' = c, ~early'
  PROVE  OwnAnswers(c)'
<1>1. CASE mutex = c /\ d # c
  <2>1. ~early
    BY <1>1, OthersWait
  <2>2. OwnAnswers(c)
    BY <1>1, <2>1 DEF AInv
  <2>3. /\ pc'[c] = pc[c] /\ kind'[c] = kind[c] /\ num'[c] = num[c] /\ seq'[c] = seq[c]
        /\ UNCHANGED <<cmd, api, respQ, owed, commands, taken>>
    BY <1>1, OthersWait
  <2> QED BY <2>2, <2>3, SameAnswers
<1>2. CASE mutex = c /\ d = c
  <2>1. Owns(c) /\ pc[c] # "idle" /\ pc[c] # "lock"
    BY <1>2, PlaceNames DEF TInv, Places, Where, Owns
  <2>2. ~Unlock(c) /\ ~Enter(c) /\ ~Lock(c)
    BY <1>2, <2>1, BoundsAssumption DEF Unlock, Enter, Lock
  <2>3. ~early
    BY <1>2, <2>2 DEF Caller, Begin, Load, Store, Test, Take, Request, LinkSend, GetResponse,
       GetCallback, Restore, GetAnswer, Timeout, ghosts
  <2> QED BY <1>2, <2>2, <2>3, QuietAnswers, LinkSendAnswers, GetResponseAnswers,
             GetCallbackAnswers, GetAnswerAnswers, RestAnswers DEF Caller
<1>3. CASE mutex # c
  <2>1. Lock(c)
    <3>1. mutex' # mutex
      BY <1>3
    <3>2. Lock(d) \/ Unlock(d)
      BY <3>1 DEF Caller, Enter, Begin, Load, Store, Test, Take, Request, LinkSend, GetResponse,
         GetCallback, Restore, GetAnswer, Timeout
    <3> QED BY <3>2, BoundsAssumption DEF Lock, Unlock
  <2> QED BY <2>1, QuietAnswers
<1> QED BY <1>1, <1>2, <1>3
-----------------------------------------------------------------------------
(* The steps of the module and of the API thread: what is on its way to    *)
(* the owner is one frame shorter, or longer by a command of a node, or    *)
(* its frames are one place further.                                       *)
LEMMA LoseFrameAnswers ==
  ASSUME TInv, NEW c \in Callers, mutex = c, OwnAnswers(c), LoseFrame
  PROVE  OwnAnswers(c)'
<1>1. PICK n \in DOMAIN owed : owed[n] # <<>> /\ owed' = [owed EXCEPT ![n] = Tail(owed[n])]
  BY DEF LoseFrame
<1>2. UNCHANGED <<pc, locals, cmd, api, respQ, commands, taken>>
  BY DEF LoseFrame, expected
<1>3. /\ n \in 1 .. MaxCalls /\ n = num[c] /\ owed[n] \in Seq(Frames)
      /\ \A m \in 1 .. MaxCalls : owed'[m] = IF m = n THEN Tail(owed[n]) ELSE owed[m]
  BY <1>1 DEF TInv, TypedQueues, OwnAnswers, Mine
<1>4. /\ Range(owed'[n]) \subseteq Range(owed[n])
      /\ Sorted(owed[n]) => Sorted(owed'[n])
  BY <1>1, <1>3, TailFacts
<1>5. MyFrames(c)' = MyFrames(c) /\ Came' = Came /\ ToQueue' = ToQueue /\ (Spoilt' <=> Spoilt)
  BY <1>2 DEF MyFrames, Came, ToQueue, Spoilt, api, locals
<1>6. Started(c)
  BY <1>1, <1>3 DEF OwnAnswers, Mine
<1>7. Mine(c)'
  BY <1>2, <1>3, <1>4, <1>5, <1>6 DEF OwnAnswers, Mine, Started, locals
<1>8. InOrder(c)'
  <2>1. Earlier(Range(taken), Came \cup Range(owed'[n])) /\ Earlier(Came, Range(owed'[n]))
    BY <1>3, <1>4 DEF OwnAnswers, InOrder, Earlier
  <2> QED BY <1>2, <1>3, <1>4, <1>5, <2>1 DEF OwnAnswers, InOrder, locals, api
<1>9. Progress(c)' /\ (pc'[c] = "ok" => RightTaken(c)')
  BY <1>2, <1>5 DEF OwnAnswers, Progress, RightTaken, Answered, locals
<1> QED BY <1>7, <1>8, <1>9 DEF OwnAnswers

LEMMA ApiRecvAnswers ==
  ASSUME TInv, NEW c \in Callers, mutex = c, OwnAnswers(c), ApiRecv
  PROVE  OwnAnswers(c)'
<1>1. /\ UNCHANGED <<pc, locals, cmd, respQ, taken>>
      /\ apc = "recv" /\ apc' = "route" /\ Range(hand) = {} /\ commands' >= commands
      /\ commands \in Nat /\ commands' \in Nat
  BY HandIs DEF ApiRecv, callers, expected, TInv, TypedShared
<1>2. MyFrames(c)' = MyFrames(c) /\ ToQueue' = {} /\ ToQueue = {}
  BY <1>1 DEF MyFrames, ToQueue, locals
<1>3. /\ Mine(c) /\ InOrder(c) /\ Came = Range(respQ)
  BY <1>1 DEF OwnAnswers, Came
<1>4. Progress(c)' /\ (pc'[c] = "ok" => RightTaken(c)')
  <2>1. Progress(c)'
    BY <1>1, <1>2 DEF OwnAnswers, Progress, Answered, Spoilt, locals
  <2>2. pc[c] = "ok" => RightTaken(c)
    BY DEF OwnAnswers
  <2>3. commands > 0 => commands' > 0
    BY <1>1
  <2> QED BY <1>1, <2>1, <2>2, <2>3 DEF RightTaken, locals
<1>5. num[c] \in 1 .. MaxCalls /\ \A f : Range(<<f>>) = {f}
  <2>1. pc[c] # "idle"
    BY PlaceNames DEF TInv, Places, Where, Owns
  <2> QED BY <2>1, OwnerFacts DEF Range
<1>6. CASE \E n \in DOMAIN owed : /\ owed[n] # <<>>
                                 /\ hand' = <<Head(owed[n])>>
                                 /\ owed' = [owed EXCEPT ![n] = Tail(owed[n])]
                                 /\ commands' = commands
  <2>1. PICK n \in DOMAIN owed : /\ owed[n] # <<>>
                                 /\ hand' = <<Head(owed[n])>>
                                 /\ owed' = [owed EXCEPT ![n] = Tail(owed[n])]
                                 /\ commands' = commands
    BY <1>6
  <2>2. /\ n \in 1 .. MaxCalls /\ n = num[c] /\ owed[n] \in Seq(Frames)
        /\ \A m \in 1 .. MaxCalls : owed'[m] = IF m = n THEN Tail(owed[n]) ELSE owed[m]
    BY <1>3, <2>1 DEF TInv, TypedQueues, Mine
  <2> DEFINE h == Head(owed[n])
  <2>3. /\ Range(owed[n]) = {h} \cup Range(owed'[n])
        /\ Sorted(owed[n]) => Sorted(owed'[n]) /\ Earlier({h}, Range(owed'[n]))
    BY <2>1, <2>2, TailFacts
  <2>4. Range(hand') = {h} /\ Came' = Came \cup {h}
    BY <1>1, <1>3, <1>5, <2>1 DEF Came
  <2> HIDE DEF h
  <2>5. Started(c) /\ h \in MyFrames(c)
    BY <1>3, <2>1, <2>2, <2>3 DEF Mine
  <2>6. Mine(c)'
    <3>1. Command(0) \notin MyFrames(c)
      <4>1. \A k \in Kinds : \A s : Command(0) \notin Range(Caused(k, num[c], s))
        BY <1>5, FrameFacts
      <4> QED BY <4>1, OwnerFacts DEF MyFrames
    <3>2. Started(c)'
      BY <1>1, <2>5 DEF Started
    <3>3. \A m \in 1 .. MaxCalls : m # num'[c] => owed'[m] = <<>>
      BY <1>1, <1>3, <2>2 DEF Mine, locals
    <3>4. Range(owed'[num'[c]]) \subseteq MyFrames(c)'
      BY <1>1, <1>2, <1>3, <2>2, <2>3 DEF Mine, locals
    <3>5. Range(taken') \cup Came' \subseteq MyFrames(c)' \cup {Command(0)}
      BY <1>1, <1>2, <1>3, <2>4, <2>5 DEF Mine
    <3>6. Command(0) \in Range(taken') \cup Came' => commands' > 0
      BY <1>1, <1>3, <2>1, <2>4, <2>5, <3>1 DEF Mine
    <3> QED BY <3>2, <3>3, <3>4, <3>5, <3>6 DEF Mine
  <2>7. InOrder(c)'
    <3>1. /\ Earlier(Range(taken), Came' \cup Range(owed'[n]))
          /\ Earlier(Range(respQ), {h}) /\ Earlier(Came', Range(owed'[n]))
      BY <1>3, <2>2, <2>3, <2>4 DEF InOrder, Earlier
    <3> QED BY <1>1, <1>3, <2>2, <2>3, <2>4, <3>1 DEF InOrder, locals
  <2> QED BY <1>4, <2>6, <2>7 DEF OwnAnswers
<1>7. CASE hand' = <<Command(0)>> /\ owed' = owed /\ commands' = commands + 1
  <2>1. Range(hand') = {Command(0)} /\ Came' = Came \cup {Command(0)} /\ commands' > 0
    BY <1>1, <1>3, <1>5, <1>7 DEF Came
  <2>2. Mine(c)'
    BY <1>1, <1>2, <1>3, <1>7, <2>1 DEF Mine, Started, locals
  <2>3. InOrder(c)'
    <3>1. /\ Earlier(Range(taken), Came' \cup Range(owed[num[c]]))
          /\ Earlier(Range(respQ), {Command(0)}) /\ Earlier(Came', Range(owed[num[c]]))
      <4>1. /\ Earlier({Command(0)}, Range(owed[num[c]])) /\ Earlier(Range(taken), {Command(0)})
            /\ Earlier(Range(respQ), {Command(0)})
        BY NoOrder
      <4> QED BY <1>3, <2>1, <4>1 DEF InOrder, Earlier
    <3> QED BY <1>1, <1>3, <1>7, <2>1, <3>1 DEF InOrder, locals
  <2> QED BY <1>4, <2>2, <2>3 DEF OwnAnswers
<1> QED BY <1>6, <1>7 DEF ApiRecv

LEMMA ApiStepAnswers ==
  ASSUME TInv, NEW c \in Callers, mutex = c, OwnAnswers(c), ApiRoute \/ ApiMatch \/ ApiClear
  PROVE  OwnAnswers(c)'
<1>1. /\ UNCHANGED <<pc, locals, respQ, owed, commands, taken>>
      /\ hand' \in {hand, <<>>}
  BY DEF ApiRoute, ApiMatch, ApiClear, callers, expected
<1>2. cmd' \in {cmd, "none"}
  BY DEF ApiRoute, ApiMatch, ApiClear, callers, expected
<1>3. MyFrames(c)' = MyFrames(c) /\ Range(hand') \subseteq Range(hand) /\ Came' \subseteq Came
  <2>1. Range(<<>>) = {}
    BY DEF Range
  <2> QED BY <1>1, <2>1 DEF MyFrames, Came, locals
<1>4. Mine(c)'
  BY <1>1, <1>3 DEF OwnAnswers, Mine, Started, locals
<1>5. InOrder(c)'
  <2>1. /\ Earlier(Range(taken), Came' \cup Range(owed[num[c]]))
        /\ Earlier(Range(respQ), Range(hand')) /\ Earlier(Came', Range(owed[num[c]]))
    BY <1>3 DEF OwnAnswers, InOrder, Earlier
  <2> QED BY <1>1, <2>1 DEF OwnAnswers, InOrder, locals
<1>6. PICK f \in Frames : hand[1] = f /\ Range(hand) = {f}
  BY HandIs DEF ApiRoute, ApiMatch, ApiClear
<1>7. \/ ToQueue' \subseteq ToQueue /\ (Spoilt => Spoilt' \/ (respQ = <<>> /\ ToQueue' = {}))
      \/ ToQueue = {} /\ ToQueue' = {f} /\ (cmd # "app" /\ Mine(c) => f.cmd # "app")
  <2>1. CASE ApiRoute
    <3>1. ToQueue = {} /\ hand' = hand /\ cmd' = cmd
      BY <2>1 DEF ApiRoute, ToQueue, expected
    <3>2. CASE apc' = "put_command"
      <4>1. ToQueue' = {}
        BY <3>2 DEF ToQueue
      <4> QED BY <1>1, <3>1, <4>1 DEF Spoilt, NoCommand
    <3>3. CASE apc' # "put_command"
      <4>1. f.type = "response" \/ f.cmd = cmd
        <5>1. f.type \in {"response", "request"}
          BY DEF Frames, Response, Callback, Command
        <5> QED BY <1>6, <2>1, <3>3, <5>1 DEF ApiRoute
      <4>2. f \in MyFrames(c) \cup {Command(0)}
        BY <1>6 DEF OwnAnswers, Mine, Came
      <4>3. f.type = "response" => f.cmd # "app"
        <5>1. num[c] \in 1 .. MaxCalls /\ kind[c] \in Kinds
          <6>1. pc[c] # "idle"
            BY PlaceNames DEF TInv, Places, Where, Owns
          <6> QED BY <6>1, OwnerFacts
        <5> DEFINE R == Response(kind[c], num[c])
                   C == Callback(kind[c], num[c], seq[c])
                   A == Command(num[c])
        <5>2. /\ MyFrames(c) \subseteq {R, C, A} /\ R.cmd # "app" /\ C.type # "response"
              /\ A.type # "response" /\ Command(0).type # "response"
          BY <5>1, FrameFacts DEF MyFrames
        <5> HIDE DEF R, C, A
        <5> QED BY <4>2, <5>2
      <4>4. ToQueue' = {f} \/ ToQueue' = {}
        BY <1>6, <3>1 DEF ToQueue
      <4> QED BY <1>1, <3>1, <4>1, <4>3, <4>4 DEF Spoilt, NoCommand
    <3> QED BY <3>2, <3>3
  <2>2. CASE ApiMatch \/ ApiClear
    <3>1. ToQueue' = ToQueue \/ ToQueue' = {}
      BY <2>2 DEF ApiMatch, ApiClear, ToQueue
    <3>2. CASE ToQueue' = ToQueue
      BY <1>1, <3>2 DEF Spoilt, NoCommand
    <3>3. CASE ToQueue' = {}
      BY <1>1, <3>3 DEF Spoilt
    <3> QED BY <3>1, <3>2, <3>3
  <2> QED BY <2>1, <2>2
<1>8. Progress(c)'
  <2>1. /\ pc[c] \in {"send", "response", "callback", "restore"} => cmd' # "app" /\ cmd # "app"
    BY <1>2 DEF OwnAnswers, Progress
  <2>2. ASSUME pc[c] \in {"response", "callback"}, NoCommand(Range(respQ) \cup ToQueue)
        PROVE  NoCommand(Range(respQ') \cup ToQueue')
    BY <1>1, <1>7, <2>1, <2>2 DEF OwnAnswers, NoCommand
  <2>3. ASSUME pc[c] = "response", Spoilt
        PROVE  Spoilt' \/ NoCommand(Range(respQ') \cup ToQueue')
    <3>1. CASE Spoilt' \/ (respQ = <<>> /\ ToQueue' = {})
      <4>1. Range(<<>>) = {}
        BY DEF Range
      <4> QED BY <1>1, <3>1, <4>1 DEF NoCommand
    <3>2. CASE ToQueue = {}
      BY <1>1, <2>3, <3>2 DEF Spoilt, NoCommand
    <3> QED BY <1>7, <2>3, <3>1, <3>2
  <2> QED BY <1>1, <1>3, <2>1, <2>2, <2>3 DEF OwnAnswers, Progress, Answered, locals
<1>9. pc'[c] = "ok" => RightTaken(c)'
  BY <1>1 DEF OwnAnswers, RightTaken, locals
<1> QED BY <1>4, <1>5, <1>8, <1>9 DEF OwnAnswers

LEMMA ApiPutAnswers ==
  ASSUME TInv, NEW c \in Callers, mutex = c, OwnAnswers(c), ApiPut
  PROVE  OwnAnswers(c)'
<1>1. UNCHANGED <<pc, locals, cmd, owed, commands, taken>> /\ hand' = <<>> /\ apc' = "recv"
  BY DEF ApiPut, callers, expected
<1>2. PICK f \in Frames : hand = <<f>> /\ Range(hand) = {f}
  BY HandIs DEF ApiPut
<1>3. Range(hand') = {} /\ ToQueue' = {} /\ respQ \in Seq(Frames)
  BY <1>1 DEF ToQueue, Range, TInv, TypedQueues
<1>4. \/ ToQueue = {f} /\ respQ' = respQ \o <<f>>
      \/ ToQueue = {} /\ respQ' = respQ
  BY <1>2 DEF ApiPut, ToQueue
<1>5. /\ Range(respQ') \subseteq Range(respQ) \cup ToQueue /\ ToQueue \subseteq {f}
      /\ Came' = Range(respQ') /\ Came = Range(respQ) \cup {f}
  BY <1>2, <1>3, <1>4, JoinFacts DEF Came
<1>6. MyFrames(c)' = MyFrames(c) /\ Came' \subseteq Came
  BY <1>1, <1>5 DEF MyFrames, locals
<1>7. Mine(c)'
  BY <1>1, <1>6 DEF OwnAnswers, Mine, Started, locals
<1>8. InOrder(c)'
  <2>1. /\ Earlier(Range(taken), Came' \cup Range(owed[num[c]]))
        /\ Earlier(Range(respQ'), Range(hand')) /\ Earlier(Came', Range(owed[num[c]]))
    BY <1>3, <1>6 DEF OwnAnswers, InOrder, Earlier
  <2>2. Sorted(respQ')
    BY <1>2, <1>3, <1>4, JoinFacts DEF OwnAnswers, InOrder
  <2> QED BY <1>1, <2>1, <2>2 DEF OwnAnswers, InOrder, locals
<1>9. Progress(c)'
  <2>1. NoCommand(Range(respQ) \cup ToQueue) => NoCommand(Range(respQ') \cup ToQueue')
    BY <1>3, <1>5 DEF NoCommand
  <2>2. Spoilt => Spoilt'
    <3>1. CASE respQ # <<>>
      BY <1>3, <1>4, <3>1, JoinFacts DEF Spoilt
    <3>2. CASE respQ = <<>>
      BY <1>3, <1>4, <3>2, JoinFacts DEF Spoilt, NoCommand
    <3> QED BY <3>1, <3>2
  <2> QED BY <1>1, <1>6, <2>1, <2>2 DEF OwnAnswers, Progress, Answered, locals
<1>10. pc'[c] = "ok" => RightTaken(c)'
  BY <1>1 DEF OwnAnswers, RightTaken, locals
<1> QED BY <1>7, <1>8, <1>9, <1>10 DEF OwnAnswers
-----------------------------------------------------------------------------
(* What a call with data to a node awaits, step by step of its owner.      *)
LEMMA CallerExpects ==
  ASSUME TInv, TInv', AInv, NEW c \in Callers, NEW d \in Callers, Caller(d), Awaiting(c)'
  PROVE  Expecting(c)'
<1>1. CASE mutex = c /\ d # c
  <2>1. /\ pc'[c] = pc[c] /\ kind'[c] = kind[c] /\ num'[c] = num[c] /\ seq'[c] = seq[c]
        /\ UNCHANGED <<mutex, cmd, api, respQ, owed, commands, taken, early>>
        /\ UNCHANGED <<seqno, bumped>>
    BY <1>1, OthersWait DEF Awaiting
  <2>2. Awaiting(c)
    BY <2>1 DEF Awaiting, Started
  <2> QED BY <2>1, <2>2 DEF AInv, Expecting, api
<1>2. CASE mutex = c /\ d = c
  <2>1. /\ ~early' /\ ~bumped' /\ commands' = 0 /\ kind'[c] \in ToNode
        /\ pc'[c] \in {"request", "send", "response", "callback"}
        /\ Started(c)' => Callback(kind'[c], num'[c], seq'[c]) \in Range(owed'[num'[c]])
    BY DEF Awaiting
  <2>2. Take(c) \/ Request(c) \/ LinkSend(c) \/ GetResponse(c)
    <3>1. pc[c] # "idle" /\ pc[c] # "lock"
      BY <1>2, PlaceNames DEF TInv, Places, Where, Owns
    <3>2. /\ Begin(c) => pc'[c] = "load"
          /\ Load(c) => pc'[c] \in {"store", "store_again"}
          /\ Store(c) => pc'[c] \in {"test", "take"}
          /\ Test(c) => pc'[c] \in {"load_again", "take"}
          /\ GetCallback(c) => pc'[c] \in {"restore", "restore_failed"}
      BY DEF Begin, Load, Store, Test, GetCallback, Goto, TInv, TypedCallers
    <3>3. /\ Restore(c) => pc'[c] \in {"failed", "ok", "answer"}
          /\ GetAnswer(c) => pc'[c] \in {"failed", "ok"}
          /\ Timeout(c) => pc'[c] \in {"restore_failed", "failed"}
          /\ Unlock(c) => pc'[c] = "idle"
      <4>1. pc[c] = "restore" => kind[c] \in ToNode
        BY DEF TInv, Places, Where
      <4> QED BY <4>1 DEF Restore, GetAnswer, Timeout, Unlock, Fail, Goto, TInv, TypedCallers, ToNode
    <3> QED BY <1>2, <2>1, <3>1, <3>2, <3>3 DEF Caller, Enter, Lock
  <2>3. /\ UNCHANGED <<kind, num, api, commands, early>> /\ pc[c] \in {"take", "request", "send", "response"}
        /\ kind[c] \in Kinds
    BY <2>2, OwnerFacts DEF Take, Request, LinkSend, GetResponse, locals, ghosts
  <2>4. OwnAnswers(c)
    BY <1>2, <2>1, <2>3 DEF AInv
  <2>5. CASE Take(c)
    <3>1. /\ seqno' = last /\ seq'[c] = last /\ pc[c] = "take"
          /\ pc'[c] = "request"
      BY <2>1, <2>5 DEF Take, Goto, TInv, TypedCallers
    <3>2. Range(hand) = {}
      BY <2>1, <2>3, <2>4, <3>1 DEF OwnAnswers, Mine, Started, Came
    <3>3. apc = "recv"
      BY <3>2, HandIs
    <3> QED BY <2>3, <3>1, <3>2, <3>3 DEF Expecting, api
  <2>6. CASE Request(c) \/ LinkSend(c) \/ GetResponse(c)
    <3>1. /\ UNCHANGED <<seqno, seq, bumped>> /\ pc'[c] # "request"
          /\ IF Request(c) THEN cmd' = CmdOf(kind[c]) ELSE cmd' = cmd /\ pc[c] # "request"
      <4>1. CASE Request(c)
        BY <4>1 DEF Request, Goto, TInv, TypedCallers, locals, ghosts
      <4>2. CASE ~Request(c) /\ LinkSend(c)
        BY <4>2 DEF LinkSend, Fail, Goto, TInv, TypedCallers, locals, ghosts, expected
      <4>3. CASE ~Request(c) /\ GetResponse(c)
        BY <4>3 DEF GetResponse, Fail, Goto, TInv, TypedCallers, locals, ghosts, expected
      <4> QED BY <2>6, <4>1, <4>2, <4>3
    <3>2. Awaiting(c)
      <4>1. Started(c) => GetResponse(c)
        BY <2>6 DEF Started, Request, LinkSend
      <4>2. GetResponse(c) => owed' = owed /\ Started(c)'
        BY <2>1, <2>3 DEF GetResponse, Started, Fail, Goto, TInv, TypedCallers
      <4>3. Started(c) => Callback(kind[c], num[c], seq[c]) \in Range(owed[num[c]])
        BY <2>1, <2>3, <3>1, <4>1, <4>2
      <4>4. pc[c] \in {"request", "send", "response", "callback"}
        BY <2>6 DEF Request, LinkSend, GetResponse
      <4> QED BY <1>2, <2>1, <2>3, <3>1, <4>3, <4>4 DEF Awaiting
    <3>3. Expecting(c)
      BY <3>2 DEF AInv
    <3> QED BY <2>3, <3>1, <3>3 DEF Expecting, api
  <2> QED BY <2>2, <2>5, <2>6
<1>3. CASE mutex # c
  <2>1. pc'[c] \in {"begin", "lock", "idle", "request"} /\ Lock(c)
    <3>1. mutex' = c
      BY DEF Awaiting
    <3>2. Lock(d) \/ Unlock(d)
      BY <1>3, <3>1 DEF Caller, Enter, Begin, Load, Store, Test, Take, Request, LinkSend,
         GetResponse, GetCallback, Restore, GetAnswer, Timeout
    <3>3. Lock(c)
      BY <3>1, <3>2, BoundsAssumption DEF Lock, Unlock
    <3> QED BY <3>3 DEF Lock, Goto, TInv, TypedCallers
  <2>2. kind[c] \in ToNode
    BY <2>1 DEF Awaiting, Lock, locals
  <2>3. pc'[c] = "begin"
    BY <2>1, <2>2 DEF Lock, Goto, TInv, TypedCallers, ToNode, CmdOf
  <2> QED BY <2>3 DEF Awaiting
<1> QED BY <1>1, <1>2, <1>3

(* And of the module and the API thread: as long as the callback is owed,  *)
(* what the thread works on is the response before it.                     *)
LEMMA ApiExpects ==
  ASSUME TInv, AInv, NEW c \in Callers, LoseFrame \/ ApiThread \/ RecvRequest, Awaiting(c)'
  PROVE  Expecting(c)'
<1>1. /\ UNCHANGED <<pc, locals, mutex, early, bumped>> /\ commands' = 0
      /\ commands \in Nat /\ commands <= commands' /\ num[c] \in 1 .. MaxCalls
      /\ kind[c] \in Kinds /\ kind[c] \in ToNode
  <2>1. UNCHANGED <<pc, locals, mutex, early, bumped>>
    BY DEF LoseFrame, ApiThread, RecvRequest, ApiRecv, ApiRoute, ApiMatch, ApiClear, ApiPut, callers, ghosts
  <2>2. commands' = 0 /\ commands \in Nat
    BY DEF Awaiting, TInv, TypedShared
  <2>3. commands <= commands'
    BY <2>2 DEF LoseFrame, ApiThread, RecvRequest, ApiRecv, ApiRoute, ApiMatch, ApiClear, ApiPut, callers
  <2>4. pc[c] # "idle" /\ kind[c] \in ToNode
    BY <2>1 DEF Awaiting, locals
  <2> QED BY <2>1, <2>2, <2>3, <2>4, OwnerFacts
<1>2. commands = 0 /\ mutex = c /\ ~early
  BY <1>1 DEF Awaiting
<1>3. OwnAnswers(c)
  BY <1>2 DEF AInv
<1> DEFINE C == Callback(kind[c], num[c], seq[c])
<1>4. Range(owed'[num[c]]) \subseteq Range(owed[num[c]])
  <2>1. CASE \E n \in DOMAIN owed : owed[n] # <<>> /\ owed' = [owed EXCEPT ![n] = Tail(owed[n])]
    <3>1. PICK n \in DOMAIN owed : owed[n] # <<>> /\ owed' = [owed EXCEPT ![n] = Tail(owed[n])]
      BY <2>1
    <3>2. /\ n \in 1 .. MaxCalls /\ owed[n] \in Seq(Frames)
          /\ owed'[num[c]] = IF n = num[c] THEN Tail(owed[n]) ELSE owed[num[c]]
      BY <1>1, <3>1 DEF TInv, TypedQueues
    <3> QED BY <3>1, <3>2, TailFacts
  <2>2. CASE owed' = owed
    BY <2>2
  <2> QED BY <2>1, <2>2 DEF LoseFrame, ApiThread, RecvRequest, ApiRecv, ApiRoute, ApiMatch, ApiClear,
                            ApiPut, callers
<1>5. Awaiting(c)
  BY <1>1, <1>2, <1>4 DEF Awaiting, Started, locals
<1>6. Expecting(c)
  BY <1>5 DEF AInv
<1>7. CASE ApiRecv
  <2>1. apc = "recv" /\ apc' = "route" /\ UNCHANGED <<cmd, seqno>>
    BY <1>7 DEF ApiRecv, expected
  <2>2. PICK n \in DOMAIN owed : /\ owed[n] # <<>>
                                 /\ hand' = <<Head(owed[n])>>
                                 /\ owed' = [owed EXCEPT ![n] = Tail(owed[n])]
    BY <1>1, <1>2, <1>7 DEF ApiRecv
  <2>3. n \in 1 .. MaxCalls /\ n = num[c] /\ owed[n] \in Seq(Frames) /\ owed'[n] = Tail(owed[n])
    BY <1>3, <2>2 DEF TInv, TypedQueues, OwnAnswers, Mine
  <2> DEFINE h == Head(owed[n])
  <2>4. /\ h \in Range(owed[n]) /\ Earlier({h}, Range(owed'[n])) /\ Range(hand') = {h}
    <3>1. Sorted(owed[n])
      BY <1>3, <2>3 DEF OwnAnswers, InOrder
    <3>2. \A f : Range(<<f>>) = {f}
      BY DEF Range
    <3> QED BY <2>2, <2>3, <3>1, <3>2, TailFacts
  <2>5. Started(c) /\ h \in MyFrames(c)
    BY <1>3, <2>2, <2>3, <2>4 DEF OwnAnswers, Mine
  <2>6. C \in Range(owed'[n])
    BY <1>1, <2>3, <2>5 DEF Awaiting, Started, locals
  <2> HIDE DEF h
  <2>7. h.type = "response"
    <3> DEFINE R == Response(kind[c], num[c])
               A == Command(num[c])
    <3>1. /\ MyFrames(c) \subseteq {R, C, A} /\ Ours(C) /\ Ours(A) /\ Rank(C) = 2 /\ Rank(A) = 3
          /\ R.type = "response"
      BY <1>1, FrameFacts DEF MyFrames
    <3> HIDE DEF R, C, A
    <3> QED BY <2>4, <2>5, <2>6, <3>1 DEF Earlier
  <2> QED BY <1>1, <1>6, <2>1, <2>4, <2>7 DEF Expecting, locals
<1>8. CASE ApiRoute
  <2>1. PICK f \in Frames : hand[1] = f /\ Range(hand) = {f}
    BY <1>8, HandIs DEF ApiRoute
  <2>2. apc' = "put_response"
    BY <1>6, <1>8, <2>1 DEF ApiRoute, Expecting
  <2> QED BY <1>1, <1>6, <1>8, <2>2 DEF ApiRoute, Expecting, locals, expected
<1>9. CASE ApiPut
  <2>1. Range(<<>>) = {}
    BY DEF Range
  <2> QED BY <1>1, <1>6, <1>9, <2>1 DEF ApiPut, Expecting, locals, expected
<1>10. CASE LoseFrame \/ RecvRequest
  BY <1>1, <1>6, <1>10 DEF LoseFrame, RecvRequest, Expecting, locals, expected, api
<1>11. ~ApiMatch /\ ~ApiClear
  BY <1>6 DEF Expecting, ApiMatch, ApiClear
<1> QED BY <1>7, <1>8, <1>9, <1>10, <1>11 DEF ApiThread

LEMMA RecvRequestAnswers ==
  ASSUME NEW c \in Callers, OwnAnswers(c), RecvRequest
  PROVE  OwnAnswers(c)'
<1>1. /\ pc'[c] = pc[c] /\ kind'[c] = kind[c] /\ num'[c] = num[c] /\ seq'[c] = seq[c]
      /\ UNCHANGED <<cmd, api, respQ, owed, commands, taken>>
  BY DEF RecvRequest, callers, locals, expected
<1> QED BY <1>1, SameAnswers

LEMMA StepAnswers == TInv /\ TInv' /\ AInv /\ [Next]_vars => AInv'
<1> SUFFICES ASSUME TInv, TInv', AInv, [Next]_vars, NEW c \in Callers
             PROVE  /\ mutex' = c /\ ~early' => OwnAnswers(c)'
                    /\ Awaiting(c)' => Expecting(c)'
  BY DEF AInv
<1>1. CASE \E d \in Callers : Caller(d)
  BY <1>1, CallerAnswers, CallerExpects
<1>2. CASE LoseFrame \/ ApiThread \/ RecvRequest
  <2>1. mutex' = mutex /\ early' = early
    BY <1>2 DEF LoseFrame, ApiThread, RecvRequest, ApiRecv, ApiRoute, ApiMatch, ApiClear, ApiPut,
       callers, ghosts
  <2>2. ASSUME mutex = c, ~early PROVE OwnAnswers(c)'
    <3>1. OwnAnswers(c)
      BY <2>2 DEF AInv
    <3> QED BY <1>2, <2>2, <3>1, LoseFrameAnswers, ApiRecvAnswers, ApiStepAnswers, ApiPutAnswers,
               RecvRequestAnswers DEF ApiThread
  <2> QED BY <1>2, <2>1, <2>2, ApiExpects
<1>3. CASE UNCHANGED vars
  <2>1. /\ pc'[c] = pc[c] /\ kind'[c] = kind[c] /\ num'[c] = num[c] /\ seq'[c] = seq[c]
        /\ UNCHANGED <<mutex, cmd, seqno, api, respQ, owed, commands, taken, early, bumped>>
    BY <1>3 DEF vars, locals, expected, ghosts
  <2>2. OwnAnswers(c) => OwnAnswers(c)'
    BY <2>1, SameAnswers
  <2>3. (Awaiting(c)' => Awaiting(c)) /\ (Expecting(c) => Expecting(c)')
    BY <2>1 DEF Awaiting, Expecting, Started, api
  <2> QED BY <2>1, <2>2, <2>3 DEF AInv
<1> QED BY <1>1, <1>2, <1>3 DEF Next

LEMMA InitAnswers == Init => AInv
BY BoundsAssumption DEF Init, AInv, Awaiting

LEMMA AnswersInv == Spec => [](TInv /\ AInv)
<1>1. Init => TInv /\ AInv
  BY InitTyped, InitAnswers
<1>2. TInv /\ AInv /\ [Next]_vars => (TInv /\ AInv)'
  BY StepTyped, StepAnswers
<1> QED BY <1>1, <1>2, PTL DEF Spec

(* A call that succeeds, and began when nothing of an earlier one was      *)
(* under way, took its response, its callback and the answer of its node,  *)
(* in this order, whatever else comes meanwhile; but for a call that waits *)
(* for its response only, which takes the callback if that was lost, and   *)
(* for sendrecv, which takes any command of a node for the answer.         *)
THEOREM AnswersAreOurs == Spec => []AnswerIsOurs
<1>1. TInv /\ AInv => AnswerIsOurs
  <2> SUFFICES ASSUME TInv, AInv, NEW c \in Callers, pc[c] = "ok", ~early PROVE RightTaken(c)
    BY DEF AnswerIsOurs, RightTaken
  <2>1. mutex = c
    BY DEF TInv, Places, Where, Owns, Inside
  <2> QED BY <2>1 DEF AInv, OwnAnswers
<1> QED BY <1>1, AnswersInv, PTL

(* As long as its callback is on its way, a call that sends data to a node *)
(* finds response.cmd and response.seqno as it set them, although the API  *)
(* thread clears both without the mutex.                                   *)
THEOREM CallbacksExpected == Spec => []CallbackExpected
<1>1. TInv /\ AInv => CallbackExpected
  <2> SUFFICES ASSUME TInv, AInv, NEW c \in Callers,
                      pc[c] \in {"response", "callback"}, kind[c] \in {"send", "sendrecv"},
                      Callback(kind[c], num[c], seq[c]) \in Range(owed[num[c]]),
                      ~early, ~bumped, commands = 0
               PROVE  cmd = CmdOf(kind[c]) /\ seqno = seq[c]
    BY DEF CallbackExpected
  <2>1. mutex = c
    BY DEF TInv, Places, Where, Owns, Inside
  <2>2. Awaiting(c)
    BY <2>1 DEF Awaiting, ToNode
  <2> QED BY <2>2 DEF AInv, Expecting
<1> QED BY <1>1, AnswersInv, PTL
=============================================================================
