------------------------------ MODULE SipPhone ------------------------------
(***************************************************************************)
(* A VoIP phone at work: VoipPhone on SipCon, the dialog handlers of       *)
(* core/net/voip/sip/sip_register.c and sip_invite.c, a program that uses  *)
(* the phone, and a SIP server.                                            *)
(*                                                                         *)
(* One thread, that of the UDP socket, polls the timers and receives       *)
(* messages; its handlers run one at a time.  The program calls the phone  *)
(* from another thread, without a lock: the socket thread may come between *)
(* the two changes that voip_phone_call and voip_phone_hangup make.        *)
(*                                                                         *)
(* Nothing is kept of the messages on their way: an answer to any request  *)
(* that was sent, and any request of the other side in the current call,   *)
(* may arrive at any time, late, repeatedly or never.  The handlers tell   *)
(* messages apart by their Call-ID and code, not by the request answered.  *)
(* Left out: unregistering and direct calls, which the phone does not use, *)
(* and what the messages contain.                                          *)
(***************************************************************************)
EXTENDS VoipPhone

VARIABLES
  voip,    \* the phone and its connection
  api,     \* a call of the program that is under way, or "none"
  stray    \* history: an answer came that the connection did not wait for

vars == <<voip, api, stray>>

Init == voip = InitialPhone /\ api = "none" /\ stray = FALSE
-----------------------------------------------------------------------------
(* sip_register_timer; expired says if the timer of the state has expired. *)
RegisterTimer(v, expired) ==
  LET tried == [v EXCEPT !.reg_sndTryCnt = Decremented(@)]
  IN  CASE v.regstate = "REGISTER" -> [v EXCEPT !.regSent = TRUE, !.regstate = "REGISTERING"]
        [] v.regstate = "REGISTERING" /\ expired ->
             IF tried.reg_sndTryCnt = 0 THEN OnRegisterError(CloseRegister(tried))
                                        ELSE [tried EXCEPT !.regstate = "REGISTER"]
        [] v.regstate = "REGISTERED" /\ expired ->
             [v EXCEPT !.reg_sndTryCnt = SendTryCnt, !.regstate = "REGISTER"]
        [] OTHER -> v

(* Mutant of TryAgain: the tries are not counted. *)
TryAgainForever(v, again) == [v EXCEPT !.invstate = again]

(* No answer came: sip_error and close_invite when the tries are used up,  *)
(* in this order, else back to the state again.                            *)
TryAgain(v, again) ==
  LET tried == [v EXCEPT !.inv_sndTryCnt = Decremented(@)]
  IN  IF tried.inv_sndTryCnt = 0 THEN CloseInvite(OnInviteError(tried))
                                 ELSE [tried EXCEPT !.invstate = again]

(* CANCEL is not tried again: the call is closed, without an event. *)
CancelTimeout(v) ==
  LET tried == [v EXCEPT !.inv_sndTryCnt = Decremented(@)]
  IN  IF tried.inv_sndTryCnt = 0 THEN CloseInvite(OnInviteError(tried))
                                 ELSE CloseInvite(tried)

Send(v, request, next) == [v EXCEPT !.sent = @ \cup {request}, !.invstate = next]

(* sip_invite_timer. *)
InviteTimer(v, expired) ==
  CASE v.invstate = "INVITE" -> Send(v, "INVITE", "INVITENING")
    [] v.invstate = "INVITENING" /\ expired -> TryAgain(v, "INVITE")
    [] v.invstate = "DECLINE" -> Send(v, "CANCEL", "DECLINING")
    [] v.invstate = "DECLINING" /\ expired -> CancelTimeout(v)
    [] v.invstate = "HANGUP" -> Send(v, "BYE", "HANGUPING")
    [] v.invstate = "HANGUPING" /\ expired -> TryAgain(v, "HANGUP")
    [] v.invstate = "INCOMMING_ACCEPT" -> [v EXCEPT !.invstate = "INCOMMING_ACCEPTING"]
    [] v.invstate = "INCOMMING_ACCEPTING" /\ expired -> TryAgain(v, "INCOMMING_ACCEPT")
    [] v.invstate = "INCOMMING_DECLINE" -> OnHangup(CloseInvite(v))
    [] OTHER -> v

(* sip_poll_callback: every SIP_POLL_INTERVAL. *)
Poll(regExpired, invExpired) ==
  /\ voip.open
  /\ voip' = InviteTimer(RegisterTimer(voip, regExpired), invExpired)
  /\ UNCHANGED <<api, stray>>
-----------------------------------------------------------------------------
(* sip_register_response_handler: 200, 401 or 407, any other error. *)
RegisterResponse(v, code) ==
  LET tried == [v EXCEPT !.reg_sndTryCnt = Decremented(@)]
  IN  CASE code = "ok" ->
             IF v.regstate = "REGISTERING"
               THEN OnRegister([v EXCEPT !.registered = TRUE, !.regstate = "REGISTERED"])
               ELSE v
        [] code = "unauthorized" ->
             IF tried.reg_sndTryCnt = 0 THEN OnRegisterError(CloseRegister(tried))
             ELSE IF v.regstate = "REGISTERING" THEN [tried EXCEPT !.regstate = "REGISTER"]
             ELSE tried
        [] code = "refused" -> OnRegisterError(CloseRegister(v))

RecvRegisterResponse ==
  /\ voip.open /\ voip.regSent
  /\ \E code \in {"ok", "unauthorized", "refused"} : voip' = RegisterResponse(voip, code)
  /\ UNCHANGED <<api, stray>>

(* sip_invite_response_handler.  The codes: trying 100, 183; ringing 180;  *)
(* pending 491; ok 200; unauthorized 401, 407; terminated 487; declined    *)
(* 486, 502, 603; refused 403, 404 and the other errors.                   *)
InviteResponse(v, code, opened) ==
  LET tried == [v EXCEPT !.inv_sndTryCnt = Decremented(@)]
  IN  CASE code \in {"trying", "pending"} -> [v EXCEPT !.invstate = "INVPENDING"]
        [] code = "ringing" -> [v EXCEPT !.invstate = "RINGING"]
        [] code = "ok" ->
             CASE v.invstate = "HANGUPING" -> OnHangup(CloseInvite(v))
               [] v.invstate \in Calling \ {"INVITE"} ->
                    OnInvite([v EXCEPT !.invited = TRUE, !.invstate = "INVITED"], opened)
               [] v.invstate = "DECLINING" -> OnInviteDeclined(CloseInvite(v))
               [] OTHER -> v
        [] code = "unauthorized" ->
             IF tried.inv_sndTryCnt = 0 THEN CloseInvite(OnInviteError(tried))
             ELSE [tried EXCEPT !.invstate = IF @ = "HANGUPING" THEN "HANGUP" ELSE "INVITE"]
        [] code = "terminated" -> OnHangup(CloseInvite(v))
        [] code = "declined" -> OnInviteDeclined(CloseInvite(v))
        [] code = "refused" -> OnInviteError(CloseInvite(v))

(* What a server may answer to a request. *)
Codes(request) ==
  CASE request = "INVITE" -> {"trying", "ringing", "pending", "ok", "unauthorized",
                              "declined", "refused"}
    [] request = "BYE"    -> {"ok", "unauthorized", "refused"}
    [] request = "CANCEL" -> {"ok", "terminated", "refused"}

(* The answers that the connection waits for in a state; a 200 that it     *)
(* does not wait for changes nothing.                                      *)
Awaited(v) ==
  CASE v.invstate \in Calling \ {"INVITE"} -> Codes("INVITE")
    [] v.invstate = "HANGUPING" -> Codes("BYE")
    [] v.invstate = "DECLINING" -> Codes("CANCEL") \cup {"declined"}
    [] OTHER -> {"ok"}

RecvInviteResponse ==
  /\ voip.open
  /\ \E request \in voip.sent : \E code \in Codes(request), opened \in BOOLEAN :
       /\ voip' = InviteResponse(voip, code, opened)
       /\ stray' = (stray \/ code \notin Awaited(voip))
  /\ UNCHANGED api
-----------------------------------------------------------------------------
(* sip_invite_request_handler.  A BYE or CANCEL of the current call: *)
EndRequest(v) ==
  CASE v.invited -> OnHangup(CloseInvite(v))
    [] ~v.invited /\ v.invstate = "INCOMMING_INVITE" -> OnInviteDeclined(CloseInvite(v))
    [] OTHER -> v

(* an INVITE, which starts a call unless there is one already; *)
InviteRequest(v) ==
  IF ~v.invited /\ v.invstate = "NOINVITED"
    THEN OnIncommingInviteRinging([v EXCEPT !.call = "in", !.sent = {},
                                            !.invstate = "INCOMMING_INVITE"])
    ELSE v

(* an ACK of the current call. *)
AckRequest(v, opened) ==
  IF v.invstate \in {"INCOMMING_ACCEPTING", "INVITED"}
    THEN OnInvite([v EXCEPT !.invited = TRUE, !.invstate = "INVITED"], opened)
    ELSE v

(* The other side takes part in the current call. *)
PeerInCall == voip.call = "in" \/ "INVITE" \in voip.sent

RecvEnd    == PeerInCall /\ voip' = EndRequest(voip)
RecvInvite == voip' = InviteRequest(voip)
RecvAck    == PeerInCall /\ \E opened \in BOOLEAN : voip' = AckRequest(voip, opened)

RecvRequest == /\ voip.open
               /\ RecvEnd \/ RecvInvite \/ RecvAck
               /\ UNCHANGED <<api, stray>>
-----------------------------------------------------------------------------
(* voip_phone_start and voip_phone_start_call. *)
Start ==
  /\ api = "none" /\ ~voip.open
  /\ \E dial \in {voip.call_after_register, TRUE} :
       voip' = [SipRegister(SipCreateCon(voip)) EXCEPT !.state = "WAITFOR_REGISTER",
                                                       !.call_after_register = dial]
  /\ UNCHANGED <<api, stray>>

(* voip_phone_stop. *)
Stop ==
  /\ api = "none" /\ voip.open
  /\ voip' = [SipDestroyCon(voip) EXCEPT !.audio = FALSE, !.state = "IDLE"]
  /\ UNCHANGED <<api, stray>>

(* voip_phone_call: sip_invite, or sip_hangup when the phone is not READY, *)
(* and then the new state of the phone.                                    *)
CallInvites ==
  /\ api = "none" /\ voip.open
  /\ voip.state = "READY" /\ ~voip.invited
  /\ voip' = SipInvite(voip)
  /\ api' = "CONNECTING_OUT"
  /\ UNCHANGED stray

CallHangsUp ==
  /\ api = "none" /\ voip.open
  /\ voip.state # "READY" /\ CanHangup(voip)
  /\ voip' = SipHangup(voip)
  /\ api' = "HANGUP_AND_INVITE"
  /\ UNCHANGED stray

(* voip_phone_hangup. *)
Hangup ==
  /\ api = "none" /\ voip.open
  /\ CanHangup(voip)
  /\ voip' = SipHangup(voip)
  /\ api' = "HANGUP_PENDING"
  /\ UNCHANGED stray

ApiReturn ==
  /\ api # "none"
  /\ voip' = [voip EXCEPT !.state = api]
  /\ api' = "none"
  /\ UNCHANGED stray

Program == Start \/ Stop \/ CallInvites \/ CallHangsUp \/ Hangup \/ ApiReturn

Next == \/ \E regExpired, invExpired \in BOOLEAN : Poll(regExpired, invExpired)
        \/ RecvRegisterResponse \/ RecvInviteResponse \/ RecvRequest
        \/ Program

Spec == Init /\ [][Next]_vars

(* The socket is polled, the receive timer of a call expires when nothing  *)
(* restarts it, and a call of the program returns.                         *)
FairSpec == /\ Spec
            /\ WF_vars(\E regExpired \in BOOLEAN : Poll(regExpired, TRUE))
            /\ WF_vars(ApiReturn)
-----------------------------------------------------------------------------
Phone == [state : PhoneStates, call_after_register : BOOLEAN, audio : BOOLEAN,
          open : BOOLEAN, registered : BOOLEAN, invited : BOOLEAN,
          regstate : RegStates, invstate : InvStates,
          reg_sndTryCnt : Tries, inv_sndTryCnt : Tries,
          regSent : BOOLEAN, call : {"none", "in", "out"},
          sent : SUBSET {"INVITE", "CANCEL", "BYE"}]

(* The fields have the types of sip.h and voip_phone.h, and the counters    *)
(* of tries stay in the range of a uint8_t.                                *)
TypeOK ==
  /\ voip \in Phone
  /\ api \in {"none", "CONNECTING_OUT", "HANGUP_AND_INVITE", "HANGUP_PENDING"}
  /\ stray \in BOOLEAN

(* No counter of tries wraps around, which would make 255 tries of a few:   *)
(* whatever comes, in which order, a registration has a try left; so has   *)
(* every request of a call, as long as no answer comes that the connection *)
(* does not wait for (a late 401 counts in any state, sip_invite.c:395).   *)
TriesInBounds ==
  /\ voip.open => voip.reg_sndTryCnt \in 1 .. SendTryCnt
  /\ ~stray => voip.inv_sndTryCnt \in 0 .. SendTryCnt

(* The bit SIPCON_STATUS_INVITED and the state of the invite transaction   *)
(* agree on whether there is a call, however the calls of the program, the *)
(* expiries, the answers and the requests of the other side interleave.    *)
(* sip_invite and the INVITE handler test the bit, the rest the state.     *)
StatusFollowsState ==
  voip.open /\ ~stray =>
    (voip.invited <=> voip.invstate \in {"INVITED", "HANGUP", "HANGUPING"})

(* The microphone is on only during a call, and a phone that says it is    *)
(* connected is in a call and is heard: although the program changes       *)
(* the state of the phone after the socket thread may have ended the call. *)
StreamOnlyInCall ==
  ~stray => /\ voip.audio => voip.invited
            /\ voip.state = "CONNECTED" => voip.invited /\ voip.audio

Pending(states) == voip.open /\ voip.invstate \in states

(* The transactions that wait for an answer, by the states they alternate  *)
(* between: INVITE, BYE, CANCEL and the 200 of an accepted call.           *)
Transactions == {{"INVITE", "INVITENING"}, {"HANGUP", "HANGUPING"},
                 {"DECLINE", "DECLINING"}, {"INCOMMING_ACCEPT", "INCOMMING_ACCEPTING"}}

(* Every one of them ends, if no answer ever comes too: the tries run out. *)
TransactionsEnd == \A states \in Transactions : Pending(states) ~> ~Pending(states)

(* voip_phone.c:136, "Make invite after hangup current call": the phone    *)
(* does not stay forever in the state in which it waits for the hangup,    *)
(* even when every answer is one it waits for.                             *)
(* It does when there was no call to hang up (sip_hangup succeeds in state *)
(* NOINVITED and no event follows), and when a CANCEL is not answered.     *)
SecondCallIsMade ==
  (voip.open /\ voip.state = "HANGUP_AND_INVITE")
    ~> (~voip.open \/ voip.state # "HANGUP_AND_INVITE" \/ stray)
=============================================================================
