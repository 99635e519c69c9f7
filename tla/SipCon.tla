------------------------------- MODULE SipCon -------------------------------
(***************************************************************************)
(* The calls of a SIP connection, core/net/voip/sip/sip.c, and what the    *)
(* dialog handlers of sip_register.c and sip_invite.c share.               *)
(*                                                                         *)
(* A handler runs the callbacks of its client in the middle of its own     *)
(* work, so every function of the code is an operator that maps the phone  *)
(* and its connection, one record v, to what the function makes of it:     *)
(* f(g(v)) runs g, then f.  Fields of v:                                   *)
(*   open        the UDP socket is open                                    *)
(*   registered, invited   the bits of sip_con_t.status                    *)
(*   regstate, invstate    the transaction states, named as in sip.h       *)
(*   reg_sndTryCnt, inv_sndTryCnt   the tries left (uint8_t)               *)
(*   regSent     a REGISTER with the current regCallID was sent            *)
(*   call        where the call that invCallID names came from             *)
(*   sent        the requests sent with the current invCallID              *)
(*   state, call_after_register, audio   of voip_phone_t, see VoipPhone    *)
(***************************************************************************)
EXTENDS Naturals

CONSTANTS
  SendTryCnt,   \* SIP_SEND_TRYCNT
  TryCntMod     \* the counters count modulo TryCntMod (256 in the code)

ASSUME TryCntAssumption ==
  /\ SendTryCnt \in Nat \ {0}
  /\ TryCntMod \in Nat /\ SendTryCnt < TryCntMod

Tries == 0 .. TryCntMod - 1     \* uint8_t

RegStates == {"UNREGISTERED", "REGISTER", "REGISTERING", "REGISTERED"}

InvStates == {"NOINVITED", "INVITE", "INVITENING", "INVPENDING", "RINGING", "INVITED",
              "HANGUP", "HANGUPING", "DECLINE", "DECLINING", "INCOMMING_INVITE",
              "INCOMMING_ACCEPT", "INCOMMING_ACCEPTING", "INCOMMING_DECLINE"}

(* This side calls and has no final answer. *)
Calling == {"INVITE", "INVITENING", "INVPENDING", "RINGING"}

(* Mutant of Decremented: a counter that does not wrap. *)
DecrementedBelowZero(n) == n - 1

(* What the decrement of a uint8_t makes of n. *)
Decremented(n) == (n + TryCntMod - 1) % TryCntMod
-----------------------------------------------------------------------------
(* sip_create_con: everything is zeroed. *)
SipCreateCon(v) ==
  [v EXCEPT !.open = TRUE, !.registered = FALSE, !.invited = FALSE,
            !.regstate = "UNREGISTERED", !.invstate = "NOINVITED",
            !.reg_sndTryCnt = 0, !.inv_sndTryCnt = 0, !.regSent = FALSE,
            !.call = "none", !.sent = {}]

(* sip_destroy_con leaves the invite transaction as it is. *)
SipDestroyCon(v) ==
  [v EXCEPT !.open = FALSE, !.regstate = "UNREGISTERED",
            !.registered = FALSE, !.invited = FALSE]

(* sip_register: a new regCallID; refused while registered. *)
SipRegister(v) ==
  IF v.registered THEN v
  ELSE [v EXCEPT !.regSent = FALSE, !.reg_sndTryCnt = SendTryCnt, !.regstate = "REGISTER"]

(* sip_invite: a new invCallID; refused while invited. *)
SipInvite(v) ==
  IF v.invited THEN v
  ELSE [v EXCEPT !.call = "out", !.sent = {}, !.inv_sndTryCnt = SendTryCnt, !.invstate = "INVITE"]

(* sip_hangup, which fails in the other states. *)
CanHangup(v) == v.invstate \in Calling \cup {"INVITED", "INCOMMING_INVITE", "NOINVITED",
                                             "HANGUP", "HANGUPING"}

SipHangup(v) ==
  CASE v.invstate = "INVITED" ->
         [v EXCEPT !.inv_sndTryCnt = SendTryCnt, !.invstate = "HANGUP"]
    [] v.invstate = "INCOMMING_INVITE" -> [v EXCEPT !.invstate = "INCOMMING_DECLINE"]
    [] v.invstate \in Calling ->
         [v EXCEPT !.inv_sndTryCnt = SendTryCnt, !.invstate = "DECLINE"]
    [] OTHER -> v

(* Mutant of SipAcceptInvite: the tries of the last call are kept. *)
SipAcceptInviteKeepsTries(v) ==
  IF v.invstate = "INCOMMING_INVITE" THEN [v EXCEPT !.invstate = "INCOMMING_ACCEPT"] ELSE v

(* sip_accept_invite. *)
SipAcceptInvite(v) ==
  IF v.invstate = "INCOMMING_INVITE"
    THEN [v EXCEPT !.inv_sndTryCnt = SendTryCnt, !.invstate = "INCOMMING_ACCEPT"]
    ELSE v
-----------------------------------------------------------------------------
(* close_register. *)
CloseRegister(v) ==
  [v EXCEPT !.reg_sndTryCnt = SendTryCnt, !.registered = FALSE, !.regstate = "UNREGISTERED"]

(* Mutant of CloseInvite: the status keeps its bit. *)
CloseInviteKeepsStatus(v) == [v EXCEPT !.invstate = "NOINVITED"]

(* close_invite. *)
CloseInvite(v) == [v EXCEPT !.invited = FALSE, !.invstate = "NOINVITED"]
=============================================================================
