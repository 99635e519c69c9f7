--------------------------- MODULE SipPhoneProofs ---------------------------
(***************************************************************************)
(* Proofs about SipPhone, for every number of tries and every width of the *)
(* counters that holds it.                                                 *)
(*                                                                         *)
(* The handlers are operators on the record of the phone, so the invariant *)
(* is stated of a record v: a lemma for each callback says what it makes   *)
(* of v, and a handler keeps the invariant if its cases do.                *)
(***************************************************************************)
EXTENDS SipPhone, TLAPS

LEMMA TriesTypes == {0, SendTryCnt} \subseteq Tries /\ 1 .. SendTryCnt \subseteq Tries
BY TryCntAssumption DEF Tries

(* A counter that is not 0 does not wrap when a try is taken from it.      *)
LEMMA OneTryLess ==
  /\ \A n \in Tries : Decremented(n) \in Tries
  /\ \A n \in 1 .. SendTryCnt : Decremented(n) \in 0 .. SendTryCnt
<1>1. ASSUME NEW n \in Tries PROVE Decremented(n) \in Tries
  BY TryCntAssumption DEF Tries, Decremented
<1>2. ASSUME NEW n \in 1 .. SendTryCnt PROVE Decremented(n) \in 0 .. SendTryCnt
  <2>1. Decremented(n) = n - 1
    <3>1. n - 1 \in 0 .. TryCntMod - 1 /\ n + TryCntMod - 1 = (n - 1) + TryCntMod
      BY TryCntAssumption
    <3>2. \A m \in 0 .. TryCntMod - 1 : (m + TryCntMod) % TryCntMod = m
      BY TryCntAssumption
    <3> QED BY <3>1, <3>2 DEF Decremented
  <2> QED BY <2>1, TryCntAssumption
<1> QED BY <1>1, <1>2

-----------------------------------------------------------------------------
(* A transaction that may end for want of an answer has a try left.        *)
Trying == {"INVITE", "INVITENING", "INVPENDING", "RINGING", "HANGUP", "HANGUPING",
           "DECLINE", "DECLINING", "INCOMMING_ACCEPT", "INCOMMING_ACCEPTING"}

InCall == {"INVITED", "HANGUP", "HANGUPING"}

RegInv(v) == v.open => v.reg_sndTryCnt \in 1 .. SendTryCnt

CallInv(v) ==
  /\ v.inv_sndTryCnt \in 0 .. SendTryCnt
  /\ v.invstate \in Trying => v.inv_sndTryCnt # 0
  /\ IF v.open THEN v.invited <=> v.invstate \in InCall ELSE ~v.invited
  /\ v.audio => v.invited
  /\ v.state = "CONNECTED" => v.invited /\ v.audio

(* Two records that agree on the registration; that agree on the call,     *)
(* too, as far as CallInv is concerned.                                    *)
SameReg(w, v) == w.open = v.open /\ w.reg_sndTryCnt = v.reg_sndTryCnt

SameCall(w, v) ==
  /\ w.open = v.open /\ w.invited = v.invited /\ w.audio = v.audio
  /\ w.invstate = v.invstate /\ w.inv_sndTryCnt = v.inv_sndTryCnt
  /\ w.state = v.state \/ w.state # "CONNECTED"

LEMMA SameKeeps ==
  ASSUME NEW v \in Phone, NEW w \in Phone
  PROVE  /\ SameReg(w, v) /\ RegInv(v) => RegInv(w)
         /\ SameCall(w, v) /\ CallInv(v) => CallInv(w)
BY DEF SameReg, SameCall, RegInv, CallInv

(* w is v after its call has ended: quiet, and idle or calling again.      *)
Ended(w, v) ==
  /\ w \in Phone /\ SameReg(w, v)
  /\ ~w.invited /\ ~w.audio /\ w.state # "CONNECTED"
  /\ w.inv_sndTryCnt \in {v.inv_sndTryCnt, SendTryCnt}
  /\ \/ w.invstate = "NOINVITED"
     \/ w.invstate = "INVITE" /\ w.inv_sndTryCnt = SendTryCnt

LEMMA EndedIsFine ==
  ASSUME NEW v \in Phone, NEW w \in Phone, Ended(w, v), v.inv_sndTryCnt \in 0 .. SendTryCnt
  PROVE  CallInv(w)
BY TryCntAssumption DEF Ended, CallInv, Trying, InCall

(* close_invite and the callback of the end of a call, in either order.    *)
LEMMA CallEnds ==
  ASSUME NEW v \in Phone
  PROVE  /\ Ended(CallOver(CloseInvite(v)), v)
         /\ Ended(CloseInvite(CallOver(v)), v)
<1> USE TriesTypes DEF Phone, InvStates, PhoneStates, SameReg
<1>1. Ended(CallOver(CloseInvite(v)), v)
  BY DEF Ended, CallOver, CloseInvite, SipInvite
<1>2. /\ CallOver(v) \in Phone /\ SameReg(CallOver(v), v)
      /\ ~CallOver(v).audio /\ CallOver(v).state # "CONNECTED"
      /\ CallOver(v).inv_sndTryCnt \in {v.inv_sndTryCnt, SendTryCnt}
  BY DEF CallOver, SipInvite
<1>3. ASSUME NEW u \in Phone, SameReg(u, v), ~u.audio, u.state # "CONNECTED",
             u.inv_sndTryCnt \in {v.inv_sndTryCnt, SendTryCnt}
      PROVE  Ended(CloseInvite(u), v)
  BY <1>3 DEF Ended, CloseInvite
<1> QED BY <1>1, <1>2, <1>3

(* One try less for the call, and the call is over when it was the last.   *)
LEMMA TryAgainKeeps ==
  ASSUME NEW v \in Phone, NEW again \in InvStates
  PROVE  LET w == TryAgain(v, again)
         IN  /\ w \in Phone /\ SameReg(w, v)
             /\ CallInv(v) /\ v.invstate \in Trying
                  /\ (v.invstate \in InCall <=> again \in InCall) => CallInv(w)
<1> DEFINE tried == [v EXCEPT !.inv_sndTryCnt = Decremented(@)]
<1>1. tried \in Phone /\ SameReg(tried, v)
  BY OneTryLess DEF Phone, SameReg
<1>2. /\ tried.inv_sndTryCnt = Decremented(v.inv_sndTryCnt)
      /\ tried.open = v.open /\ tried.invited = v.invited /\ tried.audio = v.audio
      /\ tried.state = v.state
  BY DEF Phone
<1>3. CallInv(v) /\ v.invstate \in Trying => tried.inv_sndTryCnt \in 0 .. SendTryCnt
  BY <1>2, OneTryLess, TryCntAssumption DEF CallInv
<1>4. CASE tried.inv_sndTryCnt = 0
  <2>1. TryAgain(v, again) = CloseInvite(CallOver(tried))
    BY <1>4 DEF TryAgain, OnInviteError
  <2>2. Ended(TryAgain(v, again), tried)
    BY <2>1, <1>1, CallEnds
  <2> QED BY <1>1, <1>3, <2>2, EndedIsFine DEF Ended, SameReg
<1>5. CASE tried.inv_sndTryCnt # 0
  <2> DEFINE w == [tried EXCEPT !.invstate = again]
  <2>1. TryAgain(v, again) = w
    BY <1>5 DEF TryAgain
  <2>2. w \in Phone /\ SameReg(w, v)
    BY <1>1 DEF Phone, SameReg
  <2>3. /\ w.invstate = again /\ w.inv_sndTryCnt = tried.inv_sndTryCnt
        /\ w.open = tried.open /\ w.invited = tried.invited /\ w.audio = tried.audio
        /\ w.state = tried.state
    BY <1>1 DEF Phone
  <2>4. CallInv(v) /\ v.invstate \in Trying
          /\ (v.invstate \in InCall <=> again \in InCall) => CallInv(w)
    BY <1>2, <1>3, <1>5, <2>3 DEF CallInv
  <2> QED BY <2>1, <2>2, <2>4
<1> QED BY <1>4, <1>5

(* A CANCEL that is not answered ends the call whatever tries are left.    *)
LEMMA CancelTimeoutKeeps ==
  ASSUME NEW v \in Phone
  PROVE  LET w == CancelTimeout(v)
         IN  /\ w \in Phone /\ SameReg(w, v)
             /\ CallInv(v) /\ v.open /\ v.invstate = "DECLINING" => CallInv(w)
<1> DEFINE tried == [v EXCEPT !.inv_sndTryCnt = Decremented(@)]
<1>1. tried \in Phone /\ SameReg(tried, v)
  BY OneTryLess DEF Phone, SameReg
<1>2. /\ tried.inv_sndTryCnt = Decremented(v.inv_sndTryCnt)
      /\ tried.open = v.open /\ tried.invited = v.invited /\ tried.audio = v.audio
      /\ tried.state = v.state
  BY DEF Phone
<1>3. CallInv(v) /\ v.invstate \in Trying => tried.inv_sndTryCnt \in 0 .. SendTryCnt
  BY <1>2, OneTryLess, TryCntAssumption DEF CallInv
<1>4. CASE tried.inv_sndTryCnt = 0
  <2>1. CancelTimeout(v) = CloseInvite(CallOver(tried))
    BY <1>4 DEF CancelTimeout, OnInviteError
  <2>2. Ended(CancelTimeout(v), tried)
    BY <2>1, <1>1, CallEnds
  <2> QED BY <1>1, <1>3, <2>2, EndedIsFine DEF Ended, SameReg, Trying
<1>5. CASE tried.inv_sndTryCnt # 0
  <2> DEFINE w == CloseInvite(tried)
  <2>1. CancelTimeout(v) = w
    BY <1>5 DEF CancelTimeout
  <2>2. w \in Phone /\ SameReg(w, v)
    BY <1>1 DEF Phone, SameReg, CloseInvite, InvStates
  <2>3. /\ w.invstate = "NOINVITED" /\ w.inv_sndTryCnt = tried.inv_sndTryCnt
        /\ w.open = tried.open /\ ~w.invited /\ w.audio = tried.audio
        /\ w.state = tried.state
    BY <1>1 DEF Phone, CloseInvite
  <2>4. CallInv(v) /\ v.open /\ v.invstate = "DECLINING" => CallInv(w)
    BY <1>2, <1>3, <2>3 DEF CallInv, Trying, InCall
  <2> QED BY <2>1, <2>2, <2>4
<1> QED BY <1>4, <1>5

(* sip_invite_timer, by the state it finds.                                *)
LEMMA InviteTimerKeeps ==
  ASSUME NEW v \in Phone, v.open, NEW expired \in BOOLEAN
  PROVE  LET w == InviteTimer(v, expired)
         IN  /\ w \in Phone /\ SameReg(w, v)
             /\ CallInv(v) => CallInv(w)
<1> DEFINE w == InviteTimer(v, expired)
           Fine == w \in Phone /\ SameReg(w, v) /\ (CallInv(v) => CallInv(w))
<1> USE DEF InvStates
<1>1. ASSUME NEW next \in InvStates, NEW request \in {"INVITE", "CANCEL", "BYE"},
             w = Send(v, request, next), v.invstate \in Trying, next \in Trying,
             v.invstate \in InCall <=> next \in InCall
      PROVE  Fine
  <2>1. w \in Phone /\ SameReg(w, v)
    <3>1. v.sent \cup {request} \in SUBSET {"INVITE", "CANCEL", "BYE"}
      BY DEF Phone
    <3> QED BY <1>1, <3>1 DEF Send, Phone, SameReg
  <2>2. /\ w.invstate = next /\ w.inv_sndTryCnt = v.inv_sndTryCnt
        /\ w.open = v.open /\ w.invited = v.invited /\ w.audio = v.audio /\ w.state = v.state
    BY <1>1 DEF Send, Phone
  <2> QED BY <1>1, <2>1, <2>2 DEF CallInv
<1>2. ASSUME NEW again \in InvStates, w = TryAgain(v, again), v.invstate \in Trying,
             v.invstate \in InCall <=> again \in InCall
      PROVE  Fine
  BY <1>2, TryAgainKeeps
<1>3. CASE v.invstate \in {"INVITE", "DECLINE", "HANGUP"}
  BY <1>1, <1>3 DEF InviteTimer, Trying, InCall
<1>4. CASE v.invstate \in {"INVITENING", "HANGUPING", "INCOMMING_ACCEPTING"} /\ expired
  BY <1>2, <1>4 DEF InviteTimer, Trying, InCall
<1>5. CASE v.invstate = "DECLINING" /\ expired
  BY <1>5, CancelTimeoutKeeps DEF InviteTimer
<1>6. CASE v.invstate = "INCOMMING_ACCEPT"
  <2>1. w = [v EXCEPT !.invstate = "INCOMMING_ACCEPTING"]
    BY <1>6 DEF InviteTimer
  <2>2. w \in Phone /\ SameReg(w, v)
    BY <2>1 DEF Phone, SameReg
  <2>3. /\ w.invstate = "INCOMMING_ACCEPTING" /\ w.inv_sndTryCnt = v.inv_sndTryCnt
        /\ w.open = v.open /\ w.invited = v.invited /\ w.audio = v.audio /\ w.state = v.state
    BY <2>1 DEF Phone
  <2> QED BY <1>6, <2>2, <2>3 DEF CallInv, Trying, InCall
<1>7. CASE v.invstate = "INCOMMING_DECLINE"
  <2>1. Ended(w, v)
    BY <1>7, CallEnds DEF InviteTimer, OnHangup
  <2> QED BY <2>1, EndedIsFine DEF Ended, CallInv
<1>8. CASE w = v
  BY <1>8 DEF SameReg
<1>9. v.invstate \in {"INVITE", "DECLINE", "HANGUP", "INCOMMING_ACCEPT", "INCOMMING_DECLINE"}
        \/ (v.invstate \in {"INVITENING", "HANGUPING", "INCOMMING_ACCEPTING", "DECLINING"} /\ expired)
        \/ w = v
  BY DEF InviteTimer
<1> QED BY <1>3, <1>4, <1>5, <1>6, <1>7, <1>8, <1>9

-----------------------------------------------------------------------------
(* What every handler owes: the invariant, and the socket stays open.      *)
Keeps(w, v) ==
  /\ w \in Phone /\ w.open = v.open
  /\ RegInv(v) => RegInv(w)
  /\ CallInv(v) => CallInv(w)

(* sip_register: a new transaction with all its tries.                     *)
LEMMA SipRegisterBegins ==
  ASSUME NEW v \in Phone, ~v.registered
  PROVE  LET w == SipRegister(v)
         IN  w \in Phone /\ SameCall(w, v) /\ w.reg_sndTryCnt = SendTryCnt
BY TriesTypes DEF SipRegister, SameCall, Phone, RegStates

(* A registration that failed is begun anew; the call is left alone.       *)
LEMMA RegisterErrorKeeps ==
  ASSUME NEW v \in Phone
  PROVE  LET w == OnRegisterError(CloseRegister(v)) IN Keeps(w, v) /\ RegInv(w)
<1> DEFINE c == CloseRegister(v)
           d == [c EXCEPT !.state = IF @ = "READY" THEN "WAITFOR_REGISTER" ELSE @]
           w == SipRegister(d)
<1>1. c \in Phone /\ SameCall(c, v) /\ ~c.registered
  BY TriesTypes DEF CloseRegister, SameCall, Phone, RegStates
<1>2. d \in Phone /\ SameCall(d, c) /\ ~d.registered
  BY <1>1 DEF SameCall, Phone, PhoneStates
<1>3. OnRegisterError(CloseRegister(v)) = w
  BY DEF OnRegisterError
<1> HIDE DEF c, d
<1>4. w \in Phone /\ SameCall(w, d) /\ w.reg_sndTryCnt = SendTryCnt
  BY <1>2, SipRegisterBegins
<1> HIDE DEF w
<1>5. RegInv(w)
  BY <1>4, TryCntAssumption DEF RegInv
<1>6. SameCall(w, v)
  BY <1>1, <1>2, <1>4 DEF SameCall
<1> QED BY <1>3, <1>4, <1>5, <1>6, SameKeeps DEF Keeps, SameCall

(* One try less for the registration: without one left it fails.           *)
LEMMA RegisterTryKeeps ==
  ASSUME NEW v \in Phone, NEW next \in RegStates
  PROVE  LET tried == [v EXCEPT !.reg_sndTryCnt = Decremented(@)]
         IN  Keeps(IF tried.reg_sndTryCnt = 0 THEN OnRegisterError(CloseRegister(tried))
                                              ELSE [tried EXCEPT !.regstate = next], v)
<1> DEFINE tried == [v EXCEPT !.reg_sndTryCnt = Decremented(@)]
           w == [tried EXCEPT !.regstate = next]
<1>1. tried \in Phone /\ SameCall(tried, v)
  BY OneTryLess DEF Phone, SameCall
<1>2. tried.reg_sndTryCnt = Decremented(v.reg_sndTryCnt)
  BY DEF Phone
<1>3. CASE tried.reg_sndTryCnt = 0
  <2>1. Keeps(OnRegisterError(CloseRegister(tried)), tried)
          /\ RegInv(OnRegisterError(CloseRegister(tried)))
    BY <1>1, RegisterErrorKeeps
  <2>2. CallInv(v) => CallInv(tried)
    BY <1>1, SameKeeps
  <2> QED BY <1>1, <1>3, <2>1, <2>2 DEF Keeps, SameCall
<1>4. CASE tried.reg_sndTryCnt # 0
  <2>1. w \in Phone /\ SameCall(w, tried) /\ SameReg(w, tried)
    BY <1>1 DEF Phone, SameCall, SameReg
  <2>2. RegInv(v) => RegInv(tried)
    BY <1>1, <1>2, <1>4, OneTryLess DEF RegInv, SameCall
  <2>3. (RegInv(v) => RegInv(w)) /\ (CallInv(v) => CallInv(w))
    BY <1>1, <2>1, <2>2, SameKeeps
  <2>4. w.open = v.open
    BY <1>1, <2>1 DEF SameCall
  <2> QED BY <1>4, <2>1, <2>3, <2>4 DEF Keeps
<1> QED BY <1>3, <1>4

LEMMA KeepsTransitive ==
  ASSUME NEW u, NEW v, NEW w, Keeps(w, v), Keeps(v, u)
  PROVE  Keeps(w, u)
BY DEF Keeps

(* What changes neither the call nor the tries of the registration.        *)
LEMMA SameIsKept ==
  ASSUME NEW v \in Phone, NEW w \in Phone, SameCall(w, v), SameReg(w, v)
  PROVE  Keeps(w, v)
BY SameKeeps DEF Keeps, SameReg

(* sip_register_timer.                                                     *)
LEMMA RegisterTimerKeeps ==
  ASSUME NEW v \in Phone, NEW expired \in BOOLEAN
  PROVE  Keeps(RegisterTimer(v, expired), v)
<1> DEFINE w == RegisterTimer(v, expired)
<1> USE DEF RegStates
<1>1. CASE v.regstate = "REGISTER"
  <2>1. w = [v EXCEPT !.regSent = TRUE, !.regstate = "REGISTERING"]
    BY <1>1 DEF RegisterTimer
  <2>2. w \in Phone /\ SameCall(w, v) /\ SameReg(w, v)
    BY <2>1 DEF Phone, SameCall, SameReg
  <2> QED BY <2>2, SameIsKept
<1>2. CASE v.regstate = "REGISTERING" /\ expired
  BY <1>2, RegisterTryKeeps DEF RegisterTimer
<1>3. CASE v.regstate = "REGISTERED" /\ expired
  <2>1. w = [v EXCEPT !.reg_sndTryCnt = SendTryCnt, !.regstate = "REGISTER"]
    BY <1>3 DEF RegisterTimer
  <2>2. w \in Phone /\ SameCall(w, v) /\ w.reg_sndTryCnt = SendTryCnt
    BY <2>1, TriesTypes DEF Phone, SameCall
  <2> QED BY <2>2, SameKeeps, TryCntAssumption DEF Keeps, RegInv, SameCall
<1>4. CASE w = v
  BY <1>4, SameIsKept DEF SameCall, SameReg
<1>5. v.regstate = "REGISTER" \/ (v.regstate \in {"REGISTERING", "REGISTERED"} /\ expired) \/ w = v
  BY DEF RegisterTimer
<1> QED BY <1>1, <1>2, <1>3, <1>4, <1>5

(* sip_invite: refused in a call, where it would reset the tries.          *)
LEMMA SipInviteKeeps ==
  ASSUME NEW v \in Phone
  PROVE  Keeps(SipInvite(v), v)
<1>1. CASE v.invited
  BY <1>1, SameIsKept DEF SipInvite, SameCall, SameReg
<1>2. CASE ~v.invited
  <2> DEFINE w == SipInvite(v)
  <2>1. w \in Phone /\ SameReg(w, v)
    BY <1>2, TriesTypes DEF SipInvite, Phone, InvStates, SameReg
  <2>2. /\ w.invstate = "INVITE" /\ w.inv_sndTryCnt = SendTryCnt
        /\ w.open = v.open /\ w.invited = v.invited /\ w.audio = v.audio /\ w.state = v.state
    BY <1>2, TriesTypes DEF SipInvite, Phone, InvStates
  <2>3. CallInv(v) => CallInv(w)
    BY <1>2, <2>2, TryCntAssumption DEF CallInv, InCall
  <2>4. w.open = v.open /\ (RegInv(v) => RegInv(w))
    BY <2>1, SameKeeps DEF SameReg
  <2> QED BY <2>1, <2>3, <2>4 DEF Keeps
<1> QED BY <1>1, <1>2

(* The phone takes another state than CONNECTED.                           *)
LEMMA NewStateKeeps ==
  ASSUME NEW v \in Phone, NEW s \in PhoneStates \ {"CONNECTED"}
  PROVE  Keeps([v EXCEPT !.state = s], v)
<1> DEFINE w == [v EXCEPT !.state = s]
<1>1. w \in Phone /\ SameCall(w, v) /\ SameReg(w, v)
  BY DEF Phone, SameCall, SameReg
<1> QED BY <1>1, SameIsKept

(* on_register.                                                            *)
LEMMA OnRegisterKeeps ==
  ASSUME NEW v \in Phone
  PROVE  Keeps(OnRegister(v), v)
<1> DEFINE ready == [v EXCEPT !.state = "READY"]
           dialed == [ready EXCEPT !.call_after_register = FALSE]
<1> USE DEF PhoneStates
<1>1. ready \in Phone /\ Keeps(ready, v)
  BY NewStateKeeps DEF Keeps
<1>2. dialed \in Phone /\ SameCall(dialed, ready) /\ SameReg(dialed, ready)
  BY <1>1 DEF Phone, SameCall, SameReg
<1> HIDE DEF ready
<1>3. Keeps(dialed, v)
  BY <1>1, <1>2, SameIsKept, KeepsTransitive
<1> HIDE DEF dialed
<1>4. SipInvite(dialed) \in Phone /\ Keeps(SipInvite(dialed), v)
  BY <1>2, <1>3, SipInviteKeeps, KeepsTransitive DEF Keeps
<1>5. Keeps([SipInvite(dialed) EXCEPT !.state = "CONNECTING_OUT"], v)
  BY <1>4, NewStateKeeps, KeepsTransitive
<1>6. Keeps(v, v)
  BY SameIsKept DEF SameCall, SameReg
<1>7. OnRegister(v) \in {v, ready, dialed, [SipInvite(dialed) EXCEPT !.state = "CONNECTING_OUT"]}
  BY DEF OnRegister, ready, dialed
<1> QED BY <1>1, <1>3, <1>5, <1>6, <1>7

(* sip_register_response_handler.                                          *)
LEMMA RegisterResponseKeeps ==
  ASSUME NEW v \in Phone, NEW code \in {"ok", "unauthorized", "refused"}
  PROVE  Keeps(RegisterResponse(v, code), v)
<1> USE DEF RegStates
<1>1. CASE code = "ok"
  <2> DEFINE u == [v EXCEPT !.registered = TRUE, !.regstate = "REGISTERED"]
  <2>1. u \in Phone /\ SameCall(u, v) /\ SameReg(u, v)
    BY DEF Phone, SameCall, SameReg
  <2>2. RegisterResponse(v, code) \in {v, OnRegister(u)}
    BY <1>1 DEF RegisterResponse
  <2> HIDE DEF u
  <2>3. Keeps(OnRegister(u), v)
    BY <2>1, SameIsKept, OnRegisterKeeps, KeepsTransitive
  <2> QED BY <2>2, <2>3, SameIsKept DEF SameCall, SameReg
<1>2. CASE code = "unauthorized"
  <2> DEFINE tried == [v EXCEPT !.reg_sndTryCnt = Decremented(@)]
             next == IF v.regstate = "REGISTERING" THEN "REGISTER" ELSE v.regstate
  <2>1. tried = [tried EXCEPT !.regstate = v.regstate]
    BY DEF Phone
  <2>2. next \in RegStates
    BY DEF Phone
  <2>3. RegisterResponse(v, code) =
          IF tried.reg_sndTryCnt = 0 THEN OnRegisterError(CloseRegister(tried))
                                     ELSE [tried EXCEPT !.regstate = next]
    BY <1>2, <2>1 DEF RegisterResponse
  <2> QED BY <2>2, <2>3, RegisterTryKeeps
<1>3. CASE code = "refused"
  BY <1>3, RegisterErrorKeeps DEF RegisterResponse
<1> QED BY <1>1, <1>2, <1>3

-----------------------------------------------------------------------------
(* on_invite: the call is in, heard or not.                                *)
LEMMA OnInviteKeeps ==
  ASSUME NEW v \in Phone, NEW opened \in BOOLEAN
  PROVE  LET w == OnInvite([v EXCEPT !.invited = TRUE, !.invstate = "INVITED"], opened)
         IN  /\ w \in Phone /\ SameReg(w, v)
             /\ v.open /\ CallInv(v) => CallInv(w)
<1> DEFINE u == [v EXCEPT !.invited = TRUE, !.invstate = "INVITED"]
           w == OnInvite(u, opened)
<1>1. u \in Phone /\ SameReg(u, v)
  BY DEF Phone, InvStates, SameReg
<1>2. u.invited /\ u.invstate = "INVITED" /\ u.inv_sndTryCnt = v.inv_sndTryCnt
  BY DEF Phone
<1> HIDE DEF u
<1>3. w \in Phone /\ SameReg(w, u)
  BY <1>1 DEF OnInvite, Phone, PhoneStates, SameReg
<1>4. /\ w.invited = u.invited /\ w.invstate = u.invstate /\ w.inv_sndTryCnt = u.inv_sndTryCnt
      /\ w.audio = opened /\ (w.state = "CONNECTED" => opened)
  BY <1>1 DEF OnInvite, Phone
<1> HIDE DEF w
<1>5. v.open /\ CallInv(v) => CallInv(w)
  BY <1>1, <1>2, <1>3, <1>4 DEF CallInv, Trying, InCall, SameReg
<1> QED BY <1>1, <1>3, <1>5 DEF SameReg, u, w

(* The other side declines: no stream was open yet.                        *)
LEMMA DeclinedKeeps ==
  ASSUME NEW v \in Phone
  PROVE  LET w == OnInviteDeclined(CloseInvite(v))
         IN  /\ w \in Phone /\ SameReg(w, v)
             /\ CallInv(v) /\ v.open /\ v.invstate \notin InCall => CallInv(w)
<1> DEFINE w == OnInviteDeclined(CloseInvite(v))
<1>1. w \in Phone /\ SameReg(w, v)
  BY DEF OnInviteDeclined, CloseInvite, Phone, InvStates, PhoneStates, SameReg
<1>2. /\ ~w.invited /\ w.invstate = "NOINVITED" /\ w.inv_sndTryCnt = v.inv_sndTryCnt
      /\ w.audio = v.audio /\ w.state = "READY"
  BY DEF OnInviteDeclined, CloseInvite, Phone, InvStates
<1> HIDE DEF w
<1>3. CallInv(v) /\ v.open /\ v.invstate \notin InCall => CallInv(w)
  BY <1>1, <1>2 DEF CallInv, Trying, InCall, SameReg
<1> QED BY <1>1, <1>3 DEF w

AllCodes == {"trying", "ringing", "pending", "ok", "unauthorized", "terminated",
             "declined", "refused"}

(* sip_invite_response_handler: whatever comes keeps the types and the     *)
(* registration, and an answer that is awaited keeps the call in order.    *)
LEMMA InviteResponseKeeps ==
  ASSUME NEW v \in Phone, v.open, NEW code \in AllCodes, NEW opened \in BOOLEAN
  PROVE  LET w == InviteResponse(v, code, opened)
         IN  /\ w \in Phone /\ SameReg(w, v)
             /\ code \in Awaited(v) /\ CallInv(v) => CallInv(w)
<1> DEFINE w == InviteResponse(v, code, opened)
           Fine == /\ w \in Phone /\ SameReg(w, v)
                   /\ code \in Awaited(v) /\ CallInv(v) => CallInv(w)
<1> SUFFICES Fine
  OBVIOUS
<1> USE DEF InvStates
<1>1. CASE code \in {"trying", "pending", "ringing"}
  <2>1. PICK next \in {"INVPENDING", "RINGING"} : w = [v EXCEPT !.invstate = next]
    BY <1>1 DEF InviteResponse
  <2>2. w \in Phone /\ SameReg(w, v)
    BY <2>1 DEF Phone, SameReg
  <2>3. /\ w.invstate = next /\ w.inv_sndTryCnt = v.inv_sndTryCnt
        /\ w.open = v.open /\ w.invited = v.invited /\ w.audio = v.audio /\ w.state = v.state
    BY <2>1 DEF Phone
  <2>4. code \in Awaited(v) => v.invstate \in Calling
    BY <1>1 DEF Awaited, Codes
  <2> HIDE DEF w
  <2> QED BY <2>2, <2>3, <2>4 DEF CallInv, Trying, InCall, Calling
<1>2. CASE code = "ok"
  <2>1. CASE v.invstate = "HANGUPING"
    <3>1. w = CallOver(CloseInvite(v))
      BY <1>2, <2>1 DEF InviteResponse, OnHangup, Calling
    <3>2. Ended(w, v)
      BY <3>1, CallEnds
    <3> HIDE DEF w
    <3> QED BY <3>2, EndedIsFine DEF Ended, CallInv
  <2>2. CASE v.invstate \in Calling \ {"INVITE"}
    <3>1. w = OnInvite([v EXCEPT !.invited = TRUE, !.invstate = "INVITED"], opened)
      BY <1>2, <2>2 DEF InviteResponse, Calling
    <3> QED BY <3>1, OnInviteKeeps
  <2>3. CASE v.invstate = "DECLINING"
    <3>1. w = OnInviteDeclined(CloseInvite(v))
      BY <1>2, <2>3 DEF InviteResponse, Calling
    <3> QED BY <2>3, <3>1, DeclinedKeeps DEF InCall
  <2>4. CASE w = v
    BY <2>4 DEF SameReg
  <2>5. v.invstate \in {"HANGUPING", "DECLINING"} \cup (Calling \ {"INVITE"}) \/ w = v
    BY <1>2 DEF InviteResponse
  <2> QED BY <2>1, <2>2, <2>3, <2>4, <2>5
<1>3. CASE code = "unauthorized"
  <2> DEFINE again == IF v.invstate = "HANGUPING" THEN "HANGUP" ELSE "INVITE"
  <2>1. [v EXCEPT !.inv_sndTryCnt = Decremented(@)].invstate = v.invstate
    BY DEF Phone
  <2>2. w = TryAgain(v, again)
    BY <1>3, <2>1 DEF InviteResponse, TryAgain
  <2>3. code \in Awaited(v) => v.invstate \in (Calling \ {"INVITE"}) \cup {"HANGUPING"}
    BY <1>3 DEF Awaited, Codes
  <2>4. v.invstate \in (Calling \ {"INVITE"}) \cup {"HANGUPING"}
          => v.invstate \in Trying /\ (v.invstate \in InCall <=> again \in InCall)
    BY DEF Calling, Trying, InCall
  <2> QED BY <2>2, <2>3, <2>4, TryAgainKeeps
<1>4. CASE code \in {"terminated", "refused"}
  <2>1. Ended(w, v)
    BY <1>4, CallEnds DEF InviteResponse, OnHangup, OnInviteError
  <2> HIDE DEF w
  <2> QED BY <2>1, EndedIsFine DEF Ended, CallInv
<1>5. CASE code = "declined"
  <2>1. w = OnInviteDeclined(CloseInvite(v))
    BY <1>5 DEF InviteResponse
  <2>2. code \in Awaited(v) => v.invstate \notin InCall
    BY <1>5 DEF Awaited, Codes, InCall, Calling
  <2> QED BY <2>1, <2>2, DeclinedKeeps
<1> QED BY <1>1, <1>2, <1>3, <1>4, <1>5 DEF AllCodes

(* sip_invite_request_handler.                                             *)
LEMMA RequestKeeps ==
  ASSUME NEW v \in Phone, v.open, NEW opened \in BOOLEAN,
         NEW w \in {EndRequest(v), InviteRequest(v), AckRequest(v, opened)}
  PROVE  /\ w \in Phone /\ SameReg(w, v)
         /\ CallInv(v) => CallInv(w)
<1>1. CASE w = v
  BY <1>1 DEF SameReg
<1>2. CASE w = EndRequest(v) /\ v.invited
  <2>1. w = CallOver(CloseInvite(v))
    BY <1>2 DEF EndRequest, OnHangup
  <2>2. Ended(w, v)
    BY <2>1, CallEnds
  <2> QED BY <2>2, EndedIsFine DEF Ended, CallInv
<1>3. CASE w = EndRequest(v) /\ ~v.invited /\ v.invstate = "INCOMMING_INVITE"
  <2>1. w = OnInviteDeclined(CloseInvite(v))
    BY <1>3 DEF EndRequest
  <2> QED BY <1>3, <2>1, DeclinedKeeps DEF InCall
<1>4. CASE w = InviteRequest(v) /\ ~v.invited /\ v.invstate = "NOINVITED"
  <2> DEFINE u == [v EXCEPT !.call = "in", !.sent = {}, !.invstate = "INCOMMING_INVITE"]
             a == [u EXCEPT !.inv_sndTryCnt = SendTryCnt, !.invstate = "INCOMMING_ACCEPT"]
  <2>1. /\ u \in Phone /\ SameReg(u, v) /\ u.invstate = "INCOMMING_INVITE"
        /\ u.inv_sndTryCnt = v.inv_sndTryCnt /\ ~u.invited /\ u.audio = v.audio
        /\ u.state = v.state
    BY <1>4 DEF Phone, InvStates, SameReg
  <2>2. /\ [a EXCEPT !.state = "CONNECTING_IN"] \in Phone
        /\ SameReg([a EXCEPT !.state = "CONNECTING_IN"], v)
        /\ [a EXCEPT !.state = "CONNECTING_IN"].invstate = "INCOMMING_ACCEPT"
        /\ [a EXCEPT !.state = "CONNECTING_IN"].inv_sndTryCnt = SendTryCnt
        /\ ~[a EXCEPT !.state = "CONNECTING_IN"].invited
        /\ [a EXCEPT !.state = "CONNECTING_IN"].audio = v.audio
        /\ [a EXCEPT !.state = "CONNECTING_IN"].state = "CONNECTING_IN"
    <3>1. /\ a \in Phone /\ SameReg(a, v) /\ a.invstate = "INCOMMING_ACCEPT"
          /\ a.inv_sndTryCnt = SendTryCnt /\ ~a.invited /\ a.audio = v.audio
      <4> HIDE DEF u
      <4> QED BY <2>1, TriesTypes DEF Phone, InvStates, SameReg
    <3> HIDE DEF a
    <3> QED BY <3>1 DEF Phone, PhoneStates, SameReg
  <2>3. w = u \/ w = [a EXCEPT !.state = "CONNECTING_IN"]
    <3>1. w = OnIncommingInviteRinging(u)
      BY <1>4 DEF InviteRequest
    <3> HIDE DEF u
    <3> QED BY <2>1, <3>1 DEF OnIncommingInviteRinging, SipAcceptInvite
  <2>4. /\ w \in Phone /\ SameReg(w, v) /\ ~w.invited /\ w.audio = v.audio
        /\ w.state \in {v.state, "CONNECTING_IN"}
        /\ \/ w.invstate = "INCOMMING_INVITE" /\ w.inv_sndTryCnt = v.inv_sndTryCnt
           \/ w.invstate = "INCOMMING_ACCEPT" /\ w.inv_sndTryCnt = SendTryCnt
    <3> HIDE DEF u, a
    <3> QED BY <2>1, <2>2, <2>3
  <2> QED BY <1>4, <2>4, TryCntAssumption DEF CallInv, Trying, InCall, SameReg
<1>5. CASE w = AckRequest(v, opened) /\ v.invstate \in {"INCOMMING_ACCEPTING", "INVITED"}
  <2>1. w = OnInvite([v EXCEPT !.invited = TRUE, !.invstate = "INVITED"], opened)
    BY <1>5 DEF AckRequest
  <2> QED BY <2>1, OnInviteKeeps
<1>6. \/ w = v
      \/ w = EndRequest(v) /\ v.invited
      \/ w = EndRequest(v) /\ ~v.invited /\ v.invstate = "INCOMMING_INVITE"
      \/ w = InviteRequest(v) /\ ~v.invited /\ v.invstate = "NOINVITED"
      \/ w = AckRequest(v, opened) /\ v.invstate \in {"INCOMMING_ACCEPTING", "INVITED"}
  BY DEF EndRequest, InviteRequest, AckRequest
<1> QED BY <1>1, <1>2, <1>3, <1>4, <1>5, <1>6

(* sip_hangup.                                                             *)
LEMMA SipHangupKeeps ==
  ASSUME NEW v \in Phone, v.open
  PROVE  Keeps(SipHangup(v), v)
<1> DEFINE w == SipHangup(v)
<1>1. ASSUME NEW next \in InvStates, NEW n \in {v.inv_sndTryCnt, SendTryCnt},
             w = [v EXCEPT !.inv_sndTryCnt = n, !.invstate = next],
             next \in Trying => n = SendTryCnt,
             v.invstate \in InCall <=> next \in InCall
      PROVE  Keeps(w, v)
  <2>0. n \in Tries
    BY TriesTypes DEF Phone
  <2>1. w \in Phone /\ SameReg(w, v)
    BY <1>1, <2>0 DEF Phone, SameReg
  <2>2. /\ w.invstate = next /\ w.inv_sndTryCnt = n
        /\ w.open = v.open /\ w.invited = v.invited /\ w.audio = v.audio /\ w.state = v.state
    BY <1>1, <2>0 DEF Phone
  <2>3. CallInv(v) => CallInv(w)
    BY <1>1, <2>2, TryCntAssumption DEF CallInv
  <2>4. w.open = v.open /\ (RegInv(v) => RegInv(w))
    BY <2>1, SameKeeps DEF SameReg
  <2> QED BY <2>1, <2>3, <2>4 DEF Keeps
<1>2. CASE v.invstate = "INVITED"
  <2>1. w = [v EXCEPT !.inv_sndTryCnt = SendTryCnt, !.invstate = "HANGUP"]
    BY <1>2 DEF SipHangup, Calling
  <2> QED BY <1>1, <1>2, <2>1 DEF InvStates, Trying, InCall
<1>3. CASE v.invstate = "INCOMMING_INVITE"
  <2>1. w = [v EXCEPT !.invstate = "INCOMMING_DECLINE"]
    BY <1>3 DEF SipHangup, Calling
  <2>2. [v EXCEPT !.inv_sndTryCnt = v.inv_sndTryCnt] = v
    BY DEF Phone
  <2> QED BY <1>1, <1>3, <2>1, <2>2 DEF InvStates, Trying, InCall
<1>4. CASE v.invstate \in Calling
  <2>1. w = [v EXCEPT !.inv_sndTryCnt = SendTryCnt, !.invstate = "DECLINE"]
    BY <1>4 DEF SipHangup, Calling
  <2> QED BY <1>1, <1>4, <2>1 DEF InvStates, Trying, InCall, Calling
<1>5. CASE v.invstate \notin Calling \cup {"INVITED", "INCOMMING_INVITE"}
  <2>1. w = v
    BY <1>5 DEF SipHangup
  <2> QED BY <2>1, SameIsKept DEF SameCall, SameReg
<1> QED BY <1>2, <1>3, <1>4, <1>5

-----------------------------------------------------------------------------
(* The inductive invariant.  Of the call nothing is known any more once an *)
(* answer came that was not awaited; the registration stays in bounds.     *)
CallInOrder == ~stray => CallInv(voip)

IInv == TypeOK /\ RegInv(voip) /\ CallInOrder

LEMMA InitIInv == Init => IInv
<1> SUFFICES ASSUME Init PROVE IInv
  OBVIOUS
<1>1. voip = InitialPhone
  BY DEF Init
<1>2. InitialPhone \in Phone
  BY TriesTypes DEF InitialPhone, Phone, PhoneStates, RegStates, InvStates
<1>3. RegInv(InitialPhone) /\ CallInv(InitialPhone)
  BY TryCntAssumption DEF InitialPhone, RegInv, CallInv, Trying
<1> QED BY <1>1, <1>2, <1>3 DEF Init, IInv, TypeOK, CallInOrder

(* A step that leaves api and stray alone keeps the invariant if what it   *)
(* makes of the phone does.                                                *)
LEMMA KeepsIInv ==
  ASSUME IInv, Keeps(voip', voip), UNCHANGED <<api, stray>>
  PROVE  IInv'
BY DEF IInv, TypeOK, CallInOrder, Keeps

LEMMA StartKeeps ==
  ASSUME IInv, Start
  PROVE  IInv'
<1> USE DEF Phone, PhoneStates, RegStates, InvStates
<1>1. voip \in Phone /\ ~voip.open
  BY DEF IInv, TypeOK, Start
<1> DEFINE c == SipCreateCon(voip)
<1>2. /\ c \in Phone /\ c.open /\ ~c.registered /\ ~c.invited /\ c.invstate = "NOINVITED"
      /\ c.inv_sndTryCnt = 0 /\ c.audio = voip.audio
  BY <1>1, TriesTypes DEF SipCreateCon
<1> HIDE DEF c
<1> DEFINE r == SipRegister(c)
<1>3. r \in Phone /\ SameCall(r, c) /\ r.reg_sndTryCnt = SendTryCnt
  BY <1>2, SipRegisterBegins
<1> HIDE DEF r
<1>4. PICK dial \in {voip.call_after_register, TRUE} :
        voip' = [r EXCEPT !.state = "WAITFOR_REGISTER", !.call_after_register = dial]
  BY DEF Start, r, c
<1>5. /\ voip' \in Phone /\ voip'.reg_sndTryCnt = SendTryCnt /\ voip'.open = r.open
      /\ voip'.invited = r.invited /\ voip'.invstate = r.invstate
      /\ voip'.inv_sndTryCnt = r.inv_sndTryCnt /\ voip'.audio = r.audio
      /\ voip'.state = "WAITFOR_REGISTER"
  BY <1>1, <1>3, <1>4
<1>6. RegInv(voip)'
  BY <1>5, TryCntAssumption DEF RegInv
<1>7. CallInv(voip) => CallInv(voip)'
  BY <1>1, <1>2, <1>3, <1>5, TryCntAssumption DEF CallInv, SameCall, Trying, InCall
<1> QED BY <1>5, <1>6, <1>7 DEF IInv, TypeOK, CallInOrder, Start

LEMMA StopKeeps ==
  ASSUME IInv, Stop
  PROVE  IInv'
<1>1. voip \in Phone /\ voip.open
  BY DEF IInv, TypeOK, Stop
<1>2. /\ voip' \in Phone /\ ~voip'.open /\ ~voip'.invited /\ ~voip'.audio /\ voip'.state = "IDLE"
      /\ voip'.invstate = voip.invstate /\ voip'.inv_sndTryCnt = voip.inv_sndTryCnt
  BY <1>1 DEF Stop, SipDestroyCon, Phone, PhoneStates, RegStates, InvStates
<1>3. CallInv(voip) => CallInv(voip)'
  BY <1>2 DEF CallInv
<1>4. RegInv(voip)'
  BY <1>2 DEF RegInv
<1> QED BY <1>2, <1>3, <1>4 DEF IInv, TypeOK, CallInOrder, Stop

(* What the program starts and the socket thread may cut into: the change  *)
(* of the connection first, then that of the phone's state.                *)
LEMMA ProgramKeeps ==
  ASSUME IInv, Program
  PROVE  IInv'
<1>1. voip \in Phone
  BY DEF IInv, TypeOK
<1>2. CASE CallInvites
  <2>1. Keeps(voip', voip)
    BY <1>1, <1>2, SipInviteKeeps DEF CallInvites
  <2> QED BY <1>2, <2>1 DEF CallInvites, IInv, TypeOK, CallInOrder, Keeps
<1>3. CASE CallHangsUp
  <2>1. Keeps(voip', voip)
    BY <1>1, <1>3, SipHangupKeeps DEF CallHangsUp
  <2> QED BY <1>3, <2>1 DEF CallHangsUp, IInv, TypeOK, CallInOrder, Keeps
<1>4. CASE Hangup
  <2>1. Keeps(voip', voip)
    BY <1>1, <1>4, SipHangupKeeps DEF Hangup
  <2> QED BY <1>4, <2>1 DEF Hangup, IInv, TypeOK, CallInOrder, Keeps
<1>5. CASE ApiReturn
  <2>1. api \in PhoneStates \ {"CONNECTED"}
    BY <1>5 DEF ApiReturn, IInv, TypeOK, PhoneStates
  <2>2. Keeps(voip', voip)
    BY <1>1, <1>5, <2>1, NewStateKeeps DEF ApiReturn
  <2> QED BY <1>5, <2>2 DEF ApiReturn, IInv, TypeOK, CallInOrder, Keeps
<1> QED BY <1>2, <1>3, <1>4, <1>5, StartKeeps, StopKeeps DEF Program

LEMMA StepIInv ==
  ASSUME IInv, [Next]_vars
  PROVE  IInv'
<1>1. voip \in Phone
  BY DEF IInv, TypeOK
<1>2. ASSUME NEW w \in Phone, SameReg(w, voip), CallInv(voip) => CallInv(w)
      PROVE  Keeps(w, voip)
  BY <1>1, <1>2, SameKeeps DEF Keeps, SameReg
<1>3. ASSUME NEW regExpired \in BOOLEAN, NEW invExpired \in BOOLEAN,
             Poll(regExpired, invExpired)
      PROVE  IInv'
  <2> DEFINE r == RegisterTimer(voip, regExpired)
             w == InviteTimer(r, invExpired)
  <2>1. r \in Phone /\ r.open /\ Keeps(r, voip)
    BY <1>1, <1>3, RegisterTimerKeeps DEF Poll, Keeps
  <2> HIDE DEF r
  <2>2. w \in Phone /\ SameReg(w, r) /\ (CallInv(r) => CallInv(w))
    BY <2>1, InviteTimerKeeps
  <2> HIDE DEF w
  <2>3. Keeps(w, r)
    BY <2>1, <2>2, SameKeeps DEF Keeps, SameReg
  <2>4. voip' = w
    BY <1>3 DEF Poll, r, w
  <2> QED BY <1>3, <2>1, <2>3, <2>4, KeepsTransitive, KeepsIInv DEF Poll
<1>4. CASE RecvRegisterResponse
  BY <1>1, <1>4, RegisterResponseKeeps, KeepsIInv DEF RecvRegisterResponse
<1>5. CASE RecvInviteResponse
  <2>1. PICK request \in voip.sent : \E code \in Codes(request), opened \in BOOLEAN :
          /\ voip' = InviteResponse(voip, code, opened)
          /\ stray' = (stray \/ code \notin Awaited(voip))
    BY <1>5 DEF RecvInviteResponse
  <2>2. Codes(request) \subseteq AllCodes
    <3>1. request \in {"INVITE", "CANCEL", "BYE"}
      BY <1>1, <2>1 DEF Phone
    <3> QED BY <3>1 DEF Codes, AllCodes
  <2>3. PICK code \in AllCodes, opened \in BOOLEAN :
          /\ voip' = InviteResponse(voip, code, opened)
          /\ stray' = (stray \/ code \notin Awaited(voip))
    BY <2>1, <2>2
  <2>4. /\ voip' \in Phone /\ SameReg(voip', voip)
        /\ code \in Awaited(voip) /\ CallInv(voip) => CallInv(voip')
    BY <1>1, <1>5, <2>3, InviteResponseKeeps DEF RecvInviteResponse
  <2>5. RegInv(voip')
    BY <1>1, <2>4, SameKeeps DEF IInv
  <2>6. stray' \in BOOLEAN /\ (~stray' => ~stray /\ code \in Awaited(voip))
    BY <2>3 DEF IInv, TypeOK
  <2> QED BY <1>5, <2>4, <2>5, <2>6 DEF RecvInviteResponse, IInv, TypeOK, CallInOrder
<1>6. CASE RecvRequest
  <2>1. PICK opened \in BOOLEAN :
          voip' \in {EndRequest(voip), InviteRequest(voip), AckRequest(voip, opened)}
    BY <1>6 DEF RecvRequest, RecvEnd, RecvInvite, RecvAck
  <2>2. /\ voip' \in Phone /\ SameReg(voip', voip)
        /\ CallInv(voip) => CallInv(voip')
    BY <1>1, <1>6, <2>1, RequestKeeps DEF RecvRequest
  <2> QED BY <1>2, <1>6, <2>2, KeepsIInv DEF RecvRequest
<1>7. CASE Program
  BY <1>7, ProgramKeeps
<1>8. CASE UNCHANGED vars
  BY <1>8 DEF vars, IInv, TypeOK, CallInOrder
<1> QED BY <1>3, <1>4, <1>5, <1>6, <1>7, <1>8 DEF Next

LEMMA Invariant == Spec => []IInv
BY InitIInv, StepIInv, PTL DEF Spec

(* The phone's fields keep their types: no counter of tries leaves the     *)
(* range of its type.                                                      *)
THEOREM TypeCorrect == Spec => []TypeOK
<1>1. IInv => TypeOK
  BY DEF IInv
<1> QED BY <1>1, Invariant, PTL

(* A registration always has a try left, whatever comes in which order;    *)
(* the tries of a call do not wrap while every answer is awaited.          *)
THEOREM NoTryWraps == Spec => []TriesInBounds
<1>1. IInv => TriesInBounds
  BY DEF IInv, RegInv, CallInOrder, CallInv, TriesInBounds
<1> QED BY <1>1, Invariant, PTL

(* The bit for "in a call" and the state of the invite transaction agree   *)
(* while every answer is awaited.                                          *)
THEOREM StatusIsState == Spec => []StatusFollowsState
<1>1. IInv => StatusFollowsState
  BY DEF IInv, CallInOrder, CallInv, StatusFollowsState, InCall
<1> QED BY <1>1, Invariant, PTL

(* The microphone is on only in a call, although the program sets the      *)
(* phone's state after the socket thread may have ended the call.          *)
THEOREM QuietOutsideCalls == Spec => []StreamOnlyInCall
<1>1. IInv => StreamOnlyInCall
  BY DEF IInv, CallInOrder, CallInv, StreamOnlyInCall
<1> QED BY <1>1, Invariant, PTL
=============================================================================
