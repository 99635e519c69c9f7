------------------------------ MODULE VoipPhone ------------------------------
(***************************************************************************)
(* The phone, core/net/voip/voip_phone.c: the callbacks by which the SIP   *)
(* connection reports its events.  As in SipCon, an operator maps the      *)
(* record v to what the function makes of it.  Fields of the phone:        *)
(*   state                 the voip_phone_state_e                          *)
(*   call_after_register   call as soon as the phone is registered         *)
(*   audio                 the audio stream is active                      *)
(* The video stream, opened and closed together with the audio stream, is  *)
(* left out.                                                               *)
(***************************************************************************)
EXTENDS SipCon

PhoneStates == {"IDLE", "WAITFOR_REGISTER", "READY", "CONNECTING_OUT", "CONNECTING_IN",
                "CONNECTED", "HANGUP_PENDING", "HANGUP_AND_INVITE", "ERROR"}

(* voip_phone_init. *)
InitialPhone == [state |-> "IDLE", call_after_register |-> FALSE, audio |-> FALSE,
                 open |-> FALSE, registered |-> FALSE, invited |-> FALSE,
                 regstate |-> "UNREGISTERED", invstate |-> "NOINVITED",
                 reg_sndTryCnt |-> 0, inv_sndTryCnt |-> 0, regSent |-> FALSE,
                 call |-> "none", sent |-> {}]

(* on_register; voip_phone_call in state READY makes the invite. *)
OnRegister(v) ==
  LET ready == [v EXCEPT !.state = "READY"]
      dialed == [ready EXCEPT !.call_after_register = FALSE]
  IN  CASE v.state # "WAITFOR_REGISTER" -> v
        [] v.call_after_register /\ ~v.invited ->
             [SipInvite(dialed) EXCEPT !.state = "CONNECTING_OUT"]
        [] v.call_after_register /\ v.invited -> dialed
        [] OTHER -> ready

(* on_invite: the stream is opened anew, which may fail. *)
OnInvite(v, opened) ==
  IF opened THEN [v EXCEPT !.audio = TRUE, !.state = "CONNECTED"]
            ELSE [v EXCEPT !.audio = FALSE, !.state = "ERROR"]

(* on_incomming_invite_ringing accepts, unless the phone is busy with it. *)
OnIncommingInviteRinging(v) ==
  IF v.state = "CONNECTING_IN" THEN v
  ELSE [SipAcceptInvite(v) EXCEPT !.state = "CONNECTING_IN"]

OnInviteDeclined(v) == [v EXCEPT !.state = "READY"]

(* The end of on_hangup and, for an error of the call, of on_error. *)
CallOver(v) ==
  LET quiet == [v EXCEPT !.audio = FALSE]
  IN  IF v.state = "HANGUP_AND_INVITE"
        THEN [SipInvite(quiet) EXCEPT !.state = "CONNECTING_OUT"]
        ELSE [quiet EXCEPT !.state = "READY"]

(* Mutant of OnHangup: the stream is left open. *)
OnHangupKeepsAudio(v) == [CallOver(v) EXCEPT !.audio = v.audio]

OnHangup(v) == CallOver(v)

OnInviteError(v) == CallOver(v)

(* on_error for an error of the registration: register again. *)
OnRegisterError(v) ==
  SipRegister([v EXCEPT !.state = IF @ = "READY" THEN "WAITFOR_REGISTER" ELSE @])
=============================================================================
