---------------------------- MODULE MCConversation ----------------------------
(***************************************************************************)
(* One instance of the two modules about a lead that writes and a team that   *)
(* is told: Conversation and Notifications.  They share no column.  A          *)
(* behaviour has one of three casts, so that the state spaces add up:          *)
(*   "pair"    two requests and two overlapping ticks, with faults, the        *)
(*             deletion of the lead and every change of the tenant's gate;     *)
(*   "trio"    three requests and one tick, without these;                     *)
(*   "notices" no request: the notifications and their redelivery.             *)
(***************************************************************************)
EXTENDS Conversation, Notifications

VARIABLE cast

(* Requests of the same rank are interchangeable: only ordered choices of     *)
(* their kinds and messages are enumerated.                                   *)
Rank(r) ==
    CASE kind[r] = "sms" /\ message[r] \in StopTexts -> 0
      [] kind[r] = "sms" -> 1
      [] kind[r] = "email" -> 2
      [] kind[r] = "chat" -> 3
      [] kind[r] = "reply" -> 4
      [] OTHER -> 5

(* Either three deliveries by SMS, or two inbound messages and an answer. *)
Trio ==
    \/ \A r \in Requests : kind[r] = "sms"
    \/ kind[2] \in Inbound /\ kind[3] \notin Inbound

MCConvInit ==
    /\ ConvInit
    /\ NoticeInit
    /\ \A q, r \in Requests : q < r => Rank(q) <= Rank(r)
    /\ \A r \in Requests : kind[r] # "sms" => message[r] \in StopTexts
    /\ \/ cast = "pair" /\ kind[3] = "handled"
       \/ cast = "trio" /\ Trio
       \/ cast = "notices" /\ \A r \in Requests : kind[r] = "handled"

(* In "pair" the third request never comes; the tenant is not paused together   *)
(* with a fault or after the deletion of the lead.                            *)
ConvMoves ==
    /\ ConvNext
    /\ \/ /\ cast = "pair"
          /\ stage'[3] = "idle"
          /\ gate' = "open" \/ (lead'.stored /\ convFaults' = 0)
       \/ /\ cast = "trio"
          /\ UNCHANGED <<gate, convFaults>>
          /\ lead'.stored
          /\ check'[2] = "idle"
    /\ UNCHANGED <<noticeVars, cast>>

NoticesMove ==
    /\ cast = "notices"
    /\ NoticeNext
    /\ UNCHANGED <<convVars, cast>>

MCConvNext == ConvMoves \/ NoticesMove

(* NoticeFairness, where notices move.                                        *)
MCNoticeFairness ==
    /\ \A n \in Notices : WF_noticeVars(cast = "notices" /\ Inline(n))
    /\ \A t \in Ticks : /\ WF_noticeVars(cast = "notices" /\ StartTick(t))
                        /\ WF_noticeVars(cast = "notices" /\ TickStep(t))

MCConvSpec ==
    /\ MCConvInit /\ [][MCConvNext]_<<convVars, noticeVars, cast>>
    /\ ConvFairness /\ MCNoticeFairness
===============================================================================
