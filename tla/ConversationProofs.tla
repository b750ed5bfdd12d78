-------------------------- MODULE ConversationProofs --------------------------
(***************************************************************************)
(* Proofs about Conversation: its safety properties for any number of        *)
(* requests, messages and ticks.                                            *)
(*                                                                         *)
(* The inductive invariant has three parts that share only the row's          *)
(* existence: InboundInv, about the message history and the status; FlagInv,   *)
(* about needsAttentionAt; AlertInv, about attentionAlertedAt and the ticks.   *)
(***************************************************************************)
EXTENDS Conversation, TLAPS

(* Handlers that have written the status. *)
Passed == {"closing", "closed", "flagging", "raising"}

(* The history holds what was logged, as long as the row exists; a logged        *)
(* message is past the duplicate check.                                       *)
LoggedInv ==
    /\ \A r \in logged : stage[r] \in {"logged", "done", "failed"} \cup Passed
    /\ lead.stored => \A r \in logged : kind[r] = "sms" => message[r] \in inbox

(* Whoever is past the duplicate check is recorded as beside the deliveries of   *)
(* the same message that it cannot have seen.                                 *)
BesideInv ==
    lead.stored => \A q, r \in Requests :
        /\ q # r /\ SameMessage(q, r)
        /\ stage[q] = "checked"
        /\ stage[r] = "checked" \/ r \in logged
        => {q, r} \in beside

(* A late delivery of an older message will be found in the history.           *)
OlderInv ==
    \A q, r \in Requests : <<q, r>> \in before =>
        /\ stage[q] \in {"idle", "received", "checked", "done", "failed"}
        /\ stage[q] \in {"done", "failed"} \/ kind[q] = "sms"
        /\ lead.stored => stage[q] # "checked"
        /\ lead.stored /\ stage[q] \in {"idle", "received"} => message[q] \in inbox

(* A newer message takes the status over before it is settled. *)
AuthorInv ==
    \A q, r \in Requests : q \in author /\ <<q, r>> \in before =>
        /\ stage[r] \notin Passed
        /\ stage[r] = "done" => r \notin logged

InboundInv == LoggedInv /\ BesideInv /\ LateRetryIsSkipped /\ OlderInv /\ AuthorInv

(* What a handler read of the flag is true until it is recorded as outdated.    *)
RaisingInv ==
    \A r \in Requests : stage[r] = "raising" =>
        /\ took[r] # NotFlagged
        /\ Flagged /\ r \notin outdated => took[r] = lead.needsAttentionAt

FlagInv == RaisingInv /\ WaitIsMeasuredFromStart /\ EscalationIsFlagged

(* A tick that is about to stamp the flag it alerted. *)
OnTime(c) == check[c] = "alerted" /\ ~late[c]

(* An alert of the flag is behind every stamp, and an alert that was sent is     *)
(* followed by one.                                                          *)
AlertInv ==
    /\ \A c \in Checks : OnTime(c) => told > 0
    /\ lead.stored /\ lead.alerted => told > 0 \/ misplaced
    /\ lead.stored /\ told > 0 => excused \/ lead.alerted \/ \E c \in Checks : OnTime(c)
    /\ OneAlertPerFlag

ConvInv == ConvTypeOK /\ InboundInv /\ FlagInv /\ AlertInv

-------------------------------------------------------------------------------

(* No request has begun and nothing is flagged. *)
LEMMA ConvInitially == ConvInit => ConvInv
<1> SUFFICES ASSUME ConvInit
             PROVE  ConvInv
  OBVIOUS
<1>1. ConvTypeOK
  <2> USE DEF ConvInit, NotFlagged
  <2>1. lead \in [stored : BOOLEAN,
                 status : {"contacted_no_response", "responded"} \cup HardStops,
                 needsAttentionAt : Nat, alerted : BOOLEAN]
    OBVIOUS
  <2>2. /\ clock \in Nat /\ horizon \in 0 .. clock
        /\ convFaults \in 0 .. MaxFaults
    BY ConversationAssumption
  <2>3. /\ stage \in [Requests -> {"idle", "done", "failed"} \cup Working]
        /\ check \in [Checks -> {"idle", "listed", "alerted"}]
        /\ verdict \in [Requests -> {"none", "stop", "not_interested", "escalate"}]
        /\ outbound \in [Requests -> {"none", "accepted", "stored", "reported"}]
    OBVIOUS
  <2>4. /\ took \in [Requests -> Nat] /\ listed \in [Checks -> Nat]
        /\ late \in [Checks -> BOOLEAN]
    OBVIOUS
  <2> QED BY <2>1, <2>2, <2>3, <2>4 DEF ConvTypeOK
<1>2. InboundInv
  BY DEF ConvInit, InboundInv, LoggedInv, BesideInv, LateRetryIsSkipped, OlderInv, AuthorInv
<1>3. FlagInv
  BY DEF ConvInit, FlagInv, RaisingInv, WaitIsMeasuredFromStart, EscalationIsFlagged, Flagged
<1>4. AlertInv
  BY DEF ConvInit, AlertInv, OnTime, OneAlertPerFlag
<1> QED BY <1>1, <1>2, <1>3, <1>4 DEF ConvInv

(* Types are kept by every step. *)
LEMMA ConvTypes ==
    ASSUME ConvTypeOK, [ConvNext]_convVars
    PROVE  ConvTypeOK'
<1> USE DEF ConvTypeOK, Goto, Set, UpdateLead, slaVars, inboundHistory, flagHistory,
            alertHistory, Kinds, Inbound, Providers, Working, HardStops, NotFlagged
<1>1. CASE UNCHANGED convVars
  BY <1>1 DEF convVars
<1>2. ASSUME NEW r \in Requests, RequestStep(r)
      PROVE  ConvTypeOK'
  <2>1. CASE Receive(r)
    BY <2>1 DEF Receive, OlderThan
  <2>2. CASE CheckDuplicate(r)
    BY <2>2 DEF CheckDuplicate
  <2>3. ASSUME NEW v \in Verdicts(r), LogInbound(r, v)
        PROVE  ConvTypeOK'
    BY <2>3 DEF LogInbound, Verdicts
  <2>4. CASE SetStatus(r)
    BY <2>4 DEF SetStatus, StatusFor
  <2>5. ASSUME NEW ok \in BOOLEAN, SendCloser(r, ok)
        PROVE  ConvTypeOK'
    BY <2>5 DEF SendCloser
  <2>6. CASE LogCloser(r)
    BY <2>6 DEF LogCloser, StoreOutbound
  <2>7. CASE DeliveryReport(r)
    BY <2>7 DEF DeliveryReport
  <2>8. CASE ReadFlag(r)
    BY <2>8 DEF ReadFlag, FlagStart
  <2>9. CASE RaiseFlag(r)
    BY <2>9 DEF RaiseFlag, Outdating
  <2>10. CASE StartReply(r)
    BY <2>10 DEF StartReply, BeginAnswer
  <2>11. ASSUME NEW result \in {"refused", "accepted", "chat"}, SendReply(r, result)
         PROVE  ConvTypeOK'
    BY <2>11 DEF SendReply
  <2>12. CASE LogReply(r)
    BY <2>12 DEF LogReply, StoreOutbound
  <2>13. CASE MarkHandled(r)
    BY <2>13 DEF MarkHandled, BeginAnswer
  <2>14. CASE ClearAttention(r)
    BY <2>14 DEF ClearAttention, Forget, Outdating
  <2>15. CASE Throw(r)
    BY <2>15, ConversationAssumption DEF Throw, ConvFault
  <2> QED BY <1>2, <2>1, <2>2, <2>3, <2>4, <2>5, <2>6, <2>7, <2>8, <2>9, <2>10, <2>11,
             <2>12, <2>13, <2>14, <2>15 DEF RequestStep
<1>3. ASSUME NEW c \in Checks, CheckStep(c)
      PROVE  ConvTypeOK'
  <2>1. CASE ListStale(c)
    BY <2>1 DEF ListStale
  <2>2. CASE AlertOperator(c)
    <3>1. excused' \in BOOLEAN
      BY <2>2 DEF AlertOperator
    <3>2. /\ check' \in [Checks -> {"idle", "listed", "alerted"}]
          /\ late' \in [Checks -> BOOLEAN]
          /\ told' \in Nat
      BY <2>2 DEF AlertOperator
    <3> QED BY <2>2, <3>1, <3>2 DEF AlertOperator
  <2>3. CASE StampAlerted(c)
    BY <2>3 DEF StampAlerted
  <2>4. CASE CheckThrows(c)
    <3>1. excused' \in BOOLEAN
      BY <2>4 DEF CheckThrows
    <3>2. convFaults' \in 0 .. MaxFaults
      BY <2>4, ConversationAssumption DEF CheckThrows, ConvFault
    <3> QED BY <2>4, <3>1, <3>2 DEF CheckThrows
  <2> QED BY <1>3, <2>1, <2>2, <2>3, <2>4 DEF CheckStep
<1>4. CASE TimePasses
  BY <1>4 DEF TimePasses
<1>5. CASE EraseLead
  BY <1>5 DEF EraseLead
<1>6. ASSUME NEW g \in {"open", "suspended", "terms"}, ChangeGate(g)
      PROVE  ConvTypeOK'
  BY <1>6 DEF ChangeGate
<1> QED BY <1>1, <1>2, <1>3, <1>4, <1>5, <1>6 DEF ConvNext

-------------------------------------------------------------------------------
(* InboundInv. *)

(* Nothing that InboundInv speaks of changes. *)
LEMMA InboundUntouched ==
    ASSUME InboundInv,
           lead'.stored = lead.stored,
           UNCHANGED <<inbox, stage, kind, message, inboundHistory>>
    PROVE  InboundInv'
BY DEF InboundInv, LoggedInv, BesideInv, LateRetryIsSkipped, OlderInv, AuthorInv, SameMessage,
       inboundHistory

(* A handler goes on after it wrote the status, or it is one of the team's, or   *)
(* it fails.                                                                  *)
LEMMA InboundProgress ==
    ASSUME ConvTypeOK, InboundInv, NEW r \in Requests, NEW s,
           lead'.stored = lead.stored,
           UNCHANGED <<inbox, kind, message, inboundHistory>>,
           stage' = [stage EXCEPT ![r] = s],
           \/ stage[r] \in Passed /\ s \in Passed \cup {"done"}
           \/ /\ \/ stage[r] \in {"sending", "sent", "clearing"}
                 \/ stage[r] = "idle" /\ kind[r] \notin Inbound
              /\ s \in {"sending", "sent", "clearing", "done"}
           \/ s = "failed"
    PROVE  InboundInv'
<1> USE DEF ConvTypeOK, inboundHistory
<1>1. stage'[r] = s /\ \A q \in Requests \ {r} : stage'[q] = stage[q]
  OBVIOUS
<1>2. s \notin {"idle", "received", "checked", "logged"}
  BY DEF Passed
<1>3. LoggedInv'
  BY <1>1 DEF InboundInv, LoggedInv, Passed
<1>4. BesideInv'
  BY <1>1, <1>2 DEF InboundInv, BesideInv, SameMessage
<1>5. LateRetryIsSkipped'
  BY DEF InboundInv, LateRetryIsSkipped, SameMessage
<1>6. OlderInv'
  BY <1>1, <1>2 DEF InboundInv, OlderInv, Passed, Inbound, Providers
<1>7. AuthorInv'
  BY <1>1 DEF InboundInv, LoggedInv, OlderInv, AuthorInv, Passed
<1> QED BY <1>3, <1>4, <1>5, <1>6, <1>7 DEF InboundInv

(* A message that comes in is newer than what was settled before it; every      *)
(* other delivery of that is done, or will find it in the history.             *)
LEMMA InboundReceive ==
    ASSUME ConvTypeOK, InboundInv, NEW r \in Requests, Receive(r)
    PROVE  InboundInv'
<1> USE DEF ConvTypeOK, slaVars, flagHistory, alertHistory
<1>1. /\ stage[r] = "idle" /\ lead.stored
      /\ stage'[r] = IF kind[r] = "sms" THEN "received" ELSE "checked"
      /\ \A q \in Requests \ {r} : stage'[q] = stage[q]
  BY DEF Receive, Goto
<1>2. /\ UNCHANGED <<lead, inbox, kind, message, logged, beside, author>>
      /\ before' = before \cup OlderThan(r) \X {r}
  BY DEF Receive
<1>3. r \notin logged
  BY <1>1 DEF InboundInv, LoggedInv, Passed
<1>4. LoggedInv'
  BY <1>1, <1>2, <1>3 DEF InboundInv, LoggedInv, Passed
<1>5. BesideInv'
  BY <1>1, <1>2 DEF InboundInv, BesideInv, SameMessage
<1>6. LateRetryIsSkipped'
  BY <1>2 DEF InboundInv, LateRetryIsSkipped, SameMessage
<1>7. ASSUME NEW q \in Requests, <<q, r>> \in before' \ before
      PROVE  /\ q # r
             /\ stage[q] \in {"idle", "done", "failed"}
             /\ stage[q] \in {"done", "failed"} \/ kind[q] = "sms"
             /\ stage[q] = "idle" => message[q] \in inbox
  <2>1. q \in OlderThan(r)
    BY <1>2, <1>7
  <2>2. PICK t \in Requests : Settled(t) /\ SameMessage(t, q)
    BY <2>1 DEF OlderThan
  <2>3. stage[t] = "done" /\ t \in logged /\ ~SameMessage(t, r)
    BY <2>1, <2>2 DEF OlderThan, Settled
  <2>4. q # r
    BY <2>2, <2>3 DEF SameMessage
  <2>5. stage[q] \in {"idle", "done", "failed"}
    BY <2>1 DEF OlderThan
  <2>6. CASE t = q
    BY <2>3, <2>4, <2>6
  <2>7. CASE t # q
    <3>1. kind[q] = "sms" /\ kind[t] = "sms" /\ message[q] = message[t]
      BY <2>2, <2>7 DEF SameMessage
    <3> QED BY <1>1, <2>3, <2>4, <2>5, <3>1 DEF InboundInv, LoggedInv
  <2> QED BY <2>6, <2>7
<1>8. ASSUME NEW q \in Requests, NEW x \in Requests, <<q, x>> \in before', q = r
      PROVE  kind[q] = "sms" /\ message[q] \in inbox
  <2>1. <<q, x>> \in before
    BY <1>2, <1>7, <1>8
  <2> QED BY <1>1, <1>8, <2>1 DEF InboundInv, OlderInv
<1>9. OlderInv'
  <2> SUFFICES ASSUME NEW q \in Requests, NEW x \in Requests, <<q, x>> \in before'
               PROVE  /\ stage'[q] \in {"idle", "received", "checked", "done", "failed"}
                      /\ stage'[q] \in {"done", "failed"} \/ kind[q] = "sms"
                      /\ stage'[q] # "checked"
                      /\ stage'[q] \in {"idle", "received"} => message[q] \in inbox
    BY <1>1, <1>2 DEF OlderInv
  <2>1. CASE q = r
    BY <1>1, <1>8, <2>1
  <2>2. CASE q # r /\ <<q, x>> \in before
    BY <1>1, <2>2 DEF InboundInv, OlderInv
  <2>3. CASE q # r /\ <<q, x>> \notin before
    <3>1. x = r
      BY <1>2, <2>3
    <3> QED BY <1>1, <1>7, <2>3, <3>1
  <2> QED BY <2>1, <2>2, <2>3
<1>10. AuthorInv'
  <2> SUFFICES ASSUME NEW q \in Requests, NEW x \in Requests,
                      q \in author, <<q, x>> \in before'
               PROVE  stage'[x] \notin Passed /\ (stage'[x] = "done" => x \notin logged)
    BY <1>2 DEF AuthorInv
  <2>1. CASE x = r
    BY <1>1, <2>1 DEF Passed
  <2>2. CASE x # r
    BY <1>1, <1>2, <2>2 DEF InboundInv, AuthorInv
  <2> QED BY <2>1, <2>2
<1> QED BY <1>4, <1>5, <1>6, <1>9, <1>10 DEF InboundInv

(* The duplicate check stops what the history holds. *)
LEMMA InboundCheck ==
    ASSUME ConvTypeOK, InboundInv, NEW r \in Requests, CheckDuplicate(r)
    PROVE  InboundInv'
<1> USE DEF ConvTypeOK
<1>1. UNCHANGED <<lead, inbox, kind, message, logged, before, author>>
  BY DEF CheckDuplicate
<1>2. /\ stage[r] = "received"
      /\ stage'[r] = IF message[r] \in inbox THEN "done" ELSE "checked"
      /\ \A q \in Requests \ {r} : stage'[q] = stage[q]
  BY DEF CheckDuplicate, IsDuplicate, Goto
<1>3. r \notin logged
  BY <1>2 DEF InboundInv, LoggedInv, Passed
<1>4. /\ beside \subseteq beside'
      /\ message[r] \notin inbox =>
             \A q \in Requests : stage[q] = "checked" /\ SameMessage(q, r) => {q, r} \in beside'
  BY DEF CheckDuplicate, IsDuplicate, Unlogged
<1>5. LoggedInv'
  BY <1>1, <1>2, <1>3 DEF InboundInv, LoggedInv, Passed
<1>6. BesideInv'
  <2> SUFFICES ASSUME lead.stored, NEW q \in Requests, NEW x \in Requests,
                      q # x, SameMessage(q, x), stage'[q] = "checked",
                      stage'[x] = "checked" \/ x \in logged
               PROVE  {q, x} \in beside'
    BY <1>1 DEF BesideInv, SameMessage
  <2>1. CASE q # r /\ x # r
    BY <1>2, <1>4, <2>1 DEF InboundInv, BesideInv
  <2>2. CASE q = r
    <3>1. message[r] \notin inbox
      BY <1>2, <2>2
    <3>2. x \notin logged
      BY <2>2, <3>1 DEF InboundInv, LoggedInv, SameMessage
    <3>3. stage[x] = "checked" /\ SameMessage(x, r)
      BY <1>2, <2>2, <3>2 DEF SameMessage
    <3>4. {q, x} = {x, r}
      BY <2>2
    <3> QED BY <1>4, <3>1, <3>3, <3>4
  <2>3. CASE x = r
    <3>1. message[r] \notin inbox
      BY <1>2, <1>3, <2>3
    <3>2. stage[q] = "checked"
      BY <1>2, <2>3
    <3> QED BY <1>4, <2>3, <3>1, <3>2
  <2> QED BY <2>1, <2>2, <2>3
<1>7. LateRetryIsSkipped'
  BY <1>1, <1>4 DEF InboundInv, LateRetryIsSkipped, SameMessage
<1>8. OlderInv'
  BY <1>1, <1>2 DEF InboundInv, OlderInv
<1>9. AuthorInv'
  BY <1>1, <1>2, <1>3 DEF InboundInv, AuthorInv, Passed
<1> QED BY <1>5, <1>6, <1>7, <1>8, <1>9 DEF InboundInv

(* A message is logged while the row exists: the others that are being handled   *)
(* are recorded as beside it.                                                 *)
LEMMA InboundLog ==
    ASSUME ConvTypeOK, InboundInv, NEW r \in Requests, NEW v, LogInbound(r, v)
    PROVE  InboundInv'
<1> USE DEF ConvTypeOK
<1>1. /\ UNCHANGED <<lead, kind, message, beside, before, author>>
      /\ logged' = logged \cup {r}
      /\ inbox' = IF kind[r] = "sms" THEN inbox \cup {message[r]} ELSE inbox
      /\ lead.stored
  BY DEF LogInbound
<1>2. /\ stage[r] = "checked" /\ stage'[r] = "logged"
      /\ \A q \in Requests \ {r} : stage'[q] = stage[q]
  BY DEF LogInbound, Goto
<1>3. LoggedInv'
  BY <1>1, <1>2 DEF InboundInv, LoggedInv, Passed
<1>4. BesideInv'
  BY <1>1, <1>2 DEF InboundInv, BesideInv, SameMessage
<1>5. LateRetryIsSkipped'
  <2> SUFFICES ASSUME NEW q \in logged', NEW x \in logged', SameMessage(q, x), q # x
               PROVE  {q, x} \in beside
    BY <1>1 DEF LateRetryIsSkipped, SameMessage
  <2>1. CASE q = r
    BY <1>1, <1>2, <2>1 DEF InboundInv, BesideInv
  <2>2. CASE x = r
    <3>1. {r, q} \in beside
      BY <1>1, <1>2, <2>2 DEF InboundInv, BesideInv, SameMessage
    <3>2. {r, q} = {q, x}
      BY <2>2
    <3> QED BY <3>1, <3>2
  <2>3. CASE q # r /\ x # r
    BY <1>1, <2>3 DEF InboundInv, LateRetryIsSkipped
  <2> QED BY <2>1, <2>2, <2>3
<1>6. OlderInv'
  BY <1>1, <1>2 DEF InboundInv, OlderInv
<1>7. AuthorInv'
  BY <1>1, <1>2 DEF InboundInv, AuthorInv, Passed
<1> QED BY <1>3, <1>4, <1>5, <1>6, <1>7 DEF InboundInv

(* The status is written by a handler that no newer message has overtaken.      *)
LEMMA InboundStatus ==
    ASSUME ConvTypeOK, InboundInv, NEW r \in Requests, SetStatus(r)
    PROVE  InboundInv'
<1> USE DEF ConvTypeOK
<1>1. /\ UNCHANGED <<inbox, kind, message, logged, beside, before>>
      /\ author' = {r}
      /\ lead'.stored = lead.stored
  BY DEF SetStatus, UpdateLead
<1>2. /\ stage[r] = "logged" /\ stage'[r] \in {"done", "closing", "flagging"}
      /\ \A q \in Requests \ {r} : stage'[q] = stage[q]
  BY DEF SetStatus, Goto
<1>3. LoggedInv'
  BY <1>1, <1>2 DEF InboundInv, LoggedInv, Passed
<1>4. BesideInv'
  BY <1>1, <1>2 DEF InboundInv, BesideInv, SameMessage
<1>5. LateRetryIsSkipped'
  BY <1>1 DEF InboundInv, LateRetryIsSkipped, SameMessage
<1>6. \A x \in Requests : <<r, x>> \notin before
  BY <1>2 DEF InboundInv, OlderInv
<1>7. OlderInv'
  BY <1>1, <1>2, <1>6 DEF InboundInv, OlderInv
<1>8. AuthorInv'
  BY <1>1, <1>6 DEF AuthorInv
<1> QED BY <1>3, <1>4, <1>5, <1>7, <1>8 DEF InboundInv

(* A row that is gone logs nothing any more. *)
LEMMA InboundErase ==
    ASSUME ConvTypeOK, InboundInv, EraseLead
    PROVE  InboundInv'
<1>1. ~lead'.stored
  BY DEF EraseLead, ConvTypeOK
<1> QED BY <1>1 DEF EraseLead, InboundInv, LoggedInv, BesideInv, LateRetryIsSkipped, OlderInv,
                    AuthorInv, SameMessage, inboundHistory

-------------------------------------------------------------------------------
(* FlagInv. *)

(* No handler starts to raise the flag, and the flag stays what it is. *)
LEMMA FlagUntouched ==
    ASSUME FlagInv,
           lead'.stored = lead.stored \/ ~lead'.stored,
           lead'.needsAttentionAt = lead.needsAttentionAt,
           \A r \in Requests : stage'[r] = "raising" => stage[r] = "raising",
           \A r \in Requests : stage'[r] = "raising" /\ r \in outdated => r \in outdated',
           UNCHANGED <<took, waiting, crossed, started, torn>>
    PROVE  FlagInv'
BY DEF FlagInv, RaisingInv, WaitIsMeasuredFromStart, EscalationIsFlagged, Flagged

(* The reading of flagNeedsAttention. *)
LEMMA FlagRead ==
    ASSUME ConvTypeOK, FlagInv, NEW r \in Requests, ReadFlag(r)
    PROVE  FlagInv'
<1> USE DEF ConvTypeOK, flagHistory
<1>1. UNCHANGED <<lead, waiting, crossed, started, outdated, torn>>
  BY DEF ReadFlag
<1>2. /\ took'[r] = FlagStart
      /\ \A q \in Requests \ {r} : took'[q] = took[q] /\ stage'[q] = stage[q]
  BY DEF ReadFlag, Goto, Set
<1>3. FlagStart # NotFlagged /\ (Flagged => FlagStart = lead.needsAttentionAt)
  BY DEF FlagStart, Flagged, NotFlagged
<1>4. RaisingInv'
  BY <1>1, <1>2, <1>3 DEF FlagInv, RaisingInv, Flagged
<1>5. WaitIsMeasuredFromStart' /\ EscalationIsFlagged'
  BY <1>1 DEF FlagInv, WaitIsMeasuredFromStart, EscalationIsFlagged, Flagged
<1> QED BY <1>4, <1>5 DEF FlagInv

(* Its write: from a true reading, or recorded as torn. *)
LEMMA FlagRaise ==
    ASSUME ConvTypeOK, FlagInv, NEW r \in Requests, RaiseFlag(r)
    PROVE  FlagInv'
<1> USE DEF ConvTypeOK
<1>1. /\ stage[r] = "raising" /\ stage'[r] = "done"
      /\ \A q \in Requests \ {r} : stage'[q] = stage[q]
      /\ UNCHANGED took
  BY DEF RaiseFlag, Goto
<1>2. /\ lead'.stored = lead.stored
      /\ lead.stored => lead'.needsAttentionAt = took[r]
  BY DEF RaiseFlag, UpdateLead
<1>3. took[r] # NotFlagged
  BY <1>1 DEF FlagInv, RaisingInv
<1>4. RaisingInv'
  <2> SUFFICES ASSUME NEW q \in Requests, stage'[q] = "raising"
               PROVE  /\ took[q] # NotFlagged
                      /\ Flagged' /\ q \notin outdated' => took[q] = lead'.needsAttentionAt
    BY <1>1 DEF RaisingInv
  <2>1. q # r /\ stage[q] = "raising"
    BY <1>1
  <2>2. CASE Flagged /\ lead.needsAttentionAt = took[r]
    BY <1>2, <2>1, <2>2 DEF RaiseFlag, FlagInv, RaisingInv, Flagged
  <2>3. CASE ~(Flagged /\ lead.needsAttentionAt = took[r])
    <3>1. q \in outdated'
      BY <2>1, <2>3 DEF RaiseFlag, Outdating
    <3> QED BY <2>1, <3>1 DEF FlagInv, RaisingInv
  <2> QED BY <2>2, <2>3
<1>5. WaitIsMeasuredFromStart'
  <2>1. CASE Flagged
    BY <1>1, <1>2, <2>1
    DEF RaiseFlag, FlagInv, RaisingInv, WaitIsMeasuredFromStart, Flagged
  <2>2. CASE ~Flagged
    BY <1>2, <2>2 DEF RaiseFlag, WaitIsMeasuredFromStart, Flagged
  <2> QED BY <2>1, <2>2
<1>6. EscalationIsFlagged'
  BY <1>2, <1>3 DEF EscalationIsFlagged, Flagged
<1> QED BY <1>4, <1>5, <1>6 DEF FlagInv

(* An answer or mark-handled takes the flag down. *)
LEMMA FlagClear ==
    ASSUME ConvTypeOK, FlagInv, NEW r \in Requests, ClearAttention(r)
    PROVE  FlagInv'
<1> USE DEF ConvTypeOK
<1>1. /\ ~Flagged' /\ waiting' = crossed' /\ UNCHANGED took
      /\ \A q \in Requests : stage'[q] = "raising" => stage[q] = "raising"
  BY DEF ClearAttention, UpdateLead, Flagged, Forget, Goto, NotFlagged
<1> QED BY <1>1 DEF FlagInv, RaisingInv, WaitIsMeasuredFromStart, EscalationIsFlagged

-------------------------------------------------------------------------------
(* AlertInv. *)

(* The stamp, the ticks and the record of alerts stay what they are. *)
LEMMA AlertUntouched ==
    ASSUME AlertInv,
           lead'.stored => lead.stored,
           lead'.alerted = lead.alerted,
           \A c \in Checks : check'[c] = "alerted" <=> check[c] = "alerted",
           UNCHANGED alertHistory
    PROVE  AlertInv'
<1>1. \A c \in Checks : OnTime(c)' <=> OnTime(c)
  BY DEF OnTime, alertHistory
<1> QED BY <1>1 DEF AlertInv, OneAlertPerFlag, alertHistory

(* A flag taken down, or the row gone, leaves no stamp. *)
LEMMA AlertClear ==
    ASSUME ConvTypeOK, AlertInv, NEW r \in Requests, ClearAttention(r)
    PROVE  AlertInv'
<1>1. told' = 0 /\ (lead'.stored => ~lead'.alerted)
  BY DEF ClearAttention, UpdateLead, Forget, ConvTypeOK
<1>2. \A c \in Checks : ~OnTime(c)'
  BY DEF ClearAttention, Forget, OnTime, ConvTypeOK, slaVars
<1> QED BY <1>1, <1>2 DEF AlertInv, OneAlertPerFlag

(* A tick alerts the operator of a flag that has no stamp. *)
LEMMA AlertSend ==
    ASSUME ConvTypeOK, AlertInv, NEW c \in Checks, AlertOperator(c)
    PROVE  AlertInv'
<1> USE DEF ConvTypeOK
<1>1. /\ UNCHANGED <<lead, misplaced>> /\ check[c] = "listed"
      /\ \A d \in Checks \ {c} : OnTime(d)' <=> OnTime(d)
  BY DEF AlertOperator, OnTime, Set
<1>2. ~OnTime(c)
  BY <1>1 DEF OnTime
<1>3. CASE ~IsStillListed(c)
  <2>1. UNCHANGED <<told, excused>> /\ ~OnTime(c)'
    BY <1>3 DEF AlertOperator, OnTime, Set
  <2> QED BY <1>1, <1>2, <2>1 DEF AlertInv, OneAlertPerFlag
<1>4. CASE IsStillListed(c)
  <2>1. told' = told + 1 /\ OnTime(c)' /\ lead.stored /\ ~lead.alerted
    BY <1>4 DEF AlertOperator, IsStillListed, OnTime, Set
  <2>2. excused' <=> (excused \/ \E d \in Checks : OnTime(d))
    BY <1>4 DEF AlertOperator, OnTime
  <2>3. told > 0 => excused'
    BY <2>1, <2>2 DEF AlertInv
  <2> QED BY <1>1, <2>1, <2>3 DEF AlertInv, OneAlertPerFlag
<1> QED BY <1>3, <1>4

(* It stamps the flag, or one that was raised since. *)
LEMMA AlertStamp ==
    ASSUME ConvTypeOK, AlertInv, NEW c \in Checks, StampAlerted(c)
    PROVE  AlertInv'
<1> USE DEF ConvTypeOK
<1>1. /\ UNCHANGED <<told, excused>>
      /\ lead'.stored = lead.stored
      /\ lead.stored => lead'.alerted
      /\ misplaced' <=> (misplaced \/ late[c])
  BY DEF StampAlerted, UpdateLead
<1>2. /\ check[c] = "alerted" /\ ~OnTime(c)'
      /\ \A d \in Checks \ {c} : OnTime(d)' <=> OnTime(d)
  BY DEF StampAlerted, OnTime, Set
<1>3. told > 0 \/ misplaced'
  BY <1>1, <1>2 DEF AlertInv, OnTime
<1> QED BY <1>1, <1>2, <1>3 DEF AlertInv, OneAlertPerFlag

(* A tick that breaks off between the two excuses a second alert. *)
LEMMA AlertThrows ==
    ASSUME ConvTypeOK, AlertInv, NEW c \in Checks, CheckThrows(c)
    PROVE  AlertInv'
<1> USE DEF ConvTypeOK
<1>1. /\ UNCHANGED <<lead, told, misplaced>>
      /\ excused' <=> (excused \/ OnTime(c))
  BY DEF CheckThrows, OnTime
<1>2. /\ ~OnTime(c)'
      /\ \A d \in Checks \ {c} : OnTime(d)' <=> OnTime(d)
  BY DEF CheckThrows, OnTime, Set
<1> QED BY <1>1, <1>2 DEF AlertInv, OneAlertPerFlag

-------------------------------------------------------------------------------

(* A step of a request keeps the three parts. *)
LEMMA RequestKeeps ==
    ASSUME ConvInv, NEW r \in Requests, RequestStep(r)
    PROVE  (InboundInv /\ FlagInv /\ AlertInv)'
<1> USE DEF slaVars, inboundHistory, flagHistory, alertHistory
<1>0. ConvTypeOK /\ InboundInv /\ FlagInv /\ AlertInv
  BY DEF ConvInv
<1> DEFINE Moves(s) == stage' = [stage EXCEPT ![r] = s]
           FlagStays ==
               /\ lead'.stored = lead.stored
               /\ lead'.needsAttentionAt = lead.needsAttentionAt
               /\ UNCHANGED <<took, waiting, crossed, started, outdated, torn>>
           AlertStays ==
               /\ lead'.stored = lead.stored /\ lead'.alerted = lead.alerted
               /\ UNCHANGED <<check, alertHistory>>
<1>a. ASSUME NEW s, Moves(s), s # "raising", FlagStays
      PROVE  FlagInv'
  <2>1. \A q \in Requests : stage'[q] = "raising" => stage[q] = "raising"
    BY <1>0, <1>a DEF ConvTypeOK
  <2> QED BY <1>0, <1>a, <2>1, FlagUntouched
<1>b. ASSUME AlertStays
      PROVE  AlertInv'
  BY <1>0, <1>b, AlertUntouched
<1>1. CASE Receive(r)
  <2>1. InboundInv'
    BY <1>0, <1>1, InboundReceive
  <2>2. PICK s \in {"received", "checked"} : Moves(s)
    BY <1>1 DEF Receive, Goto
  <2>3. FlagStays /\ AlertStays
    BY <1>1 DEF Receive
  <2> QED BY <1>a, <1>b, <2>1, <2>2, <2>3
<1>2. CASE CheckDuplicate(r)
  <2>1. InboundInv'
    BY <1>0, <1>2, InboundCheck
  <2>2. PICK s \in {"done", "checked"} : Moves(s)
    BY <1>2 DEF CheckDuplicate, Goto
  <2>3. FlagStays /\ AlertStays
    BY <1>2 DEF CheckDuplicate
  <2> QED BY <1>a, <1>b, <2>1, <2>2, <2>3
<1>3. ASSUME NEW v \in Verdicts(r), LogInbound(r, v)
      PROVE  (InboundInv /\ FlagInv /\ AlertInv)'
  <2>1. InboundInv'
    BY <1>0, <1>3, InboundLog
  <2>2. Moves("logged") /\ FlagStays /\ AlertStays
    BY <1>3 DEF LogInbound, Goto
  <2> QED BY <1>a, <1>b, <2>1, <2>2
<1>4. CASE SetStatus(r)
  <2>1. InboundInv'
    BY <1>0, <1>4, InboundStatus
  <2>2. PICK s \in {"done", "closing", "flagging"} : Moves(s)
    BY <1>4 DEF SetStatus, Goto
  <2>3. FlagStays /\ AlertStays
    BY <1>0, <1>4 DEF SetStatus, UpdateLead, ConvTypeOK
  <2> QED BY <1>a, <1>b, <2>1, <2>2, <2>3
<1>5. ASSUME NEW ok \in BOOLEAN, SendCloser(r, ok)
      PROVE  (InboundInv /\ FlagInv /\ AlertInv)'
  <2>1. PICK s \in {"closed", "done"} : Moves(s)
    BY <1>5 DEF SendCloser, Goto
  <2>2. InboundInv'
    BY <1>0, <1>5, <2>1, InboundProgress DEF SendCloser, Passed
  <2>3. FlagStays /\ AlertStays
    BY <1>5 DEF SendCloser
  <2> QED BY <1>a, <1>b, <2>1, <2>2, <2>3
<1>6. CASE LogCloser(r)
  <2>1. Moves("done") /\ FlagStays /\ AlertStays
    BY <1>6 DEF LogCloser, Goto
  <2>2. InboundInv'
    BY <1>0, <1>6, <2>1, InboundProgress DEF LogCloser, Passed
  <2> QED BY <1>a, <1>b, <2>1, <2>2
<1>7. CASE DeliveryReport(r)
  BY <1>0, <1>7, InboundUntouched, FlagUntouched, AlertUntouched DEF DeliveryReport
<1>8. CASE ReadFlag(r)
  <2>1. Moves("raising") /\ AlertStays
    BY <1>8 DEF ReadFlag, Goto
  <2>2. InboundInv'
    BY <1>0, <1>8, <2>1, InboundProgress DEF ReadFlag, Passed
  <2> QED BY <1>0, <1>8, <1>b, <2>1, <2>2, FlagRead
<1>9. CASE RaiseFlag(r)
  <2>1. Moves("done") /\ AlertStays
    BY <1>0, <1>9 DEF RaiseFlag, Goto, UpdateLead, ConvTypeOK
  <2>2. InboundInv'
    BY <1>0, <1>9, <2>1, InboundProgress DEF RaiseFlag, Passed
  <2> QED BY <1>0, <1>9, <1>b, <2>1, <2>2, FlagRaise
<1>10. CASE StartReply(r)
  <2>1. Moves("sending") /\ FlagStays /\ AlertStays
    BY <1>10 DEF StartReply, BeginAnswer, Goto
  <2>2. InboundInv'
    BY <1>0, <1>10, <2>1, InboundProgress DEF StartReply, Inbound, Providers
  <2> QED BY <1>a, <1>b, <2>1, <2>2
<1>11. ASSUME NEW result \in {"refused", "accepted", "chat"}, SendReply(r, result)
       PROVE  (InboundInv /\ FlagInv /\ AlertInv)'
  <2>1. PICK s \in {"done", "sent"} : Moves(s)
    BY <1>11 DEF SendReply, Goto
  <2>2. InboundInv'
    BY <1>0, <1>11, <2>1, InboundProgress DEF SendReply
  <2>3. FlagStays /\ AlertStays
    BY <1>11 DEF SendReply
  <2> QED BY <1>a, <1>b, <2>1, <2>2, <2>3
<1>12. CASE LogReply(r)
  <2>1. Moves("clearing") /\ FlagStays /\ AlertStays
    BY <1>12 DEF LogReply, Goto
  <2>2. InboundInv'
    BY <1>0, <1>12, <2>1, InboundProgress DEF LogReply
  <2> QED BY <1>a, <1>b, <2>1, <2>2
<1>13. CASE MarkHandled(r)
  <2>1. Moves("clearing") /\ FlagStays /\ AlertStays
    BY <1>13 DEF MarkHandled, BeginAnswer, Goto
  <2>2. InboundInv'
    BY <1>0, <1>13, <2>1, InboundProgress DEF MarkHandled, Inbound, Providers
  <2> QED BY <1>a, <1>b, <2>1, <2>2
<1>14. CASE ClearAttention(r)
  <2>1. Moves("done") /\ lead'.stored = lead.stored
    BY <1>0, <1>14 DEF ClearAttention, Goto, UpdateLead, ConvTypeOK
  <2>2. InboundInv'
    BY <1>0, <1>14, <2>1, InboundProgress DEF ClearAttention
  <2> QED BY <1>0, <1>14, <2>2, FlagClear, AlertClear
<1>15. CASE Throw(r)
  <2>1. Moves("failed") /\ AlertStays
    BY <1>15 DEF Throw, Goto
  <2>2. InboundInv'
    BY <1>0, <1>15, <2>1, InboundProgress DEF Throw
  <2>3. /\ \A q \in Requests : stage'[q] = "raising" => q # r /\ stage[q] = "raising"
        /\ outdated' = outdated \ {r}
        /\ UNCHANGED <<lead, took, waiting, crossed, started, torn>>
    BY <1>0, <1>15 DEF Throw, Goto, ConvTypeOK
  <2>4. FlagInv'
    BY <1>0, <2>3, FlagUntouched
  <2> QED BY <1>b, <2>1, <2>2, <2>4
<1> QED BY <1>1, <1>2, <1>3, <1>4, <1>5, <1>6, <1>7, <1>8, <1>9, <1>10, <1>11, <1>12,
           <1>13, <1>14, <1>15 DEF RequestStep

(* So does a step of a tick. *)
LEMMA CheckKeeps ==
    ASSUME ConvInv, NEW c \in Checks, CheckStep(c)
    PROVE  (InboundInv /\ FlagInv /\ AlertInv)'
<1> USE DEF slaVars, inboundHistory, flagHistory, alertHistory
<1>0. ConvTypeOK /\ InboundInv /\ FlagInv /\ AlertInv
  BY DEF ConvInv
<1>1. /\ UNCHANGED <<inbox, stage, kind, message, took, inboundHistory, flagHistory>>
      /\ lead'.stored = lead.stored
      /\ lead'.needsAttentionAt = lead.needsAttentionAt
  BY <1>0 DEF CheckStep, ListStale, AlertOperator, StampAlerted, CheckThrows, UpdateLead,
              ConvTypeOK
<1>2. InboundInv' /\ FlagInv'
  BY <1>0, <1>1, InboundUntouched, FlagUntouched
<1>3. CASE ListStale(c)
  <2>1. \A d \in Checks : check'[d] = "alerted" <=> check[d] = "alerted"
    BY <1>0, <1>3 DEF ListStale, Set, ConvTypeOK
  <2> QED BY <1>0, <1>2, <1>3, <2>1, AlertUntouched DEF ListStale
<1> QED BY <1>0, <1>2, <1>3, AlertSend, AlertStamp, AlertThrows DEF CheckStep

(* The inductive invariant of the conversation: what the history holds, what    *)
(* handlers have read of the flag, and what ticks have told the operator.      *)
THEOREM ConversationIsConsistent == ConvSpec => []ConvInv
<1>1. ASSUME ConvInv, [ConvNext]_convVars
      PROVE  ConvInv'
  <2> USE DEF slaVars, inboundHistory, flagHistory, alertHistory
  <2>1. ConvTypeOK'
    BY <1>1, ConvTypes DEF ConvInv
  <2>2. SUFFICES (InboundInv /\ FlagInv /\ AlertInv)'
    BY <2>1 DEF ConvInv
  <2>3. CASE UNCHANGED convVars
    BY <1>1, <2>3, InboundUntouched, FlagUntouched, AlertUntouched DEF convVars, ConvInv
  <2>4. CASE TimePasses
    BY <1>1, <2>4, InboundUntouched, FlagUntouched, AlertUntouched DEF TimePasses, ConvInv
  <2>5. CASE EraseLead
    <3>1. /\ ~lead'.stored
          /\ lead'.needsAttentionAt = lead.needsAttentionAt
          /\ lead'.alerted = lead.alerted
      BY <1>1, <2>5 DEF EraseLead, ConvInv, ConvTypeOK
    <3> QED BY <1>1, <2>5, <3>1, InboundErase, FlagUntouched, AlertUntouched
            DEF EraseLead, ConvInv
  <2>6. ASSUME NEW g, ChangeGate(g)
        PROVE  (InboundInv /\ FlagInv /\ AlertInv)'
    BY <1>1, <2>6, InboundUntouched, FlagUntouched, AlertUntouched DEF ChangeGate, ConvInv
  <2> QED BY <1>1, <2>3, <2>4, <2>5, <2>6, RequestKeeps, CheckKeeps DEF ConvNext
<1> QED BY <1>1, ConvInitially, PTL DEF ConvSpec

(* LateRetryIsSkipped: a delivery that comes after its message was logged is     *)
(* not handled again (webhooks/index.ts).  One that comes before may be.        *)
THEOREM LateRetriesAreSkipped == ConvSpec => []LateRetryIsSkipped
BY ConversationIsConsistent, PTL DEF ConvInv, InboundInv

(* LatestReplyDecides: a late delivery of an older message does not take the     *)
(* status back (webhooks/index.ts).                                              *)
THEOREM NewerRepliesWin == ConvSpec => []LatestReplyDecides
<1>1. ConvInv => LatestReplyDecides
  BY DEF ConvInv, ConvTypeOK, InboundInv, LoggedInv, AuthorInv, LatestReplyDecides, Settled
<1> QED BY <1>1, ConversationIsConsistent, PTL

(* EscalationIsFlagged: a message nobody answered is in the inbox, unless an       *)
(* answer that had begun before it cleared the flag (notify.ts, routes/leads.ts). *)
THEOREM UnansweredStaysFlagged == ConvSpec => []EscalationIsFlagged
BY ConversationIsConsistent, PTL DEF ConvInv, FlagInv

(* WaitIsMeasuredFromStart: further messages of a lead that waits do not move    *)
(* the time since when it waits (notify.ts).                           *)
THEOREM WaitIsNotRestarted == ConvSpec => []WaitIsMeasuredFromStart
BY ConversationIsConsistent, PTL DEF ConvInv, FlagInv

(* StampHasAlert: a flag that counts as alerted was reported, or a stamp came     *)
(* after its flag had been cleared, and there was no clearing since: such a stamp *)
(* is the only way for a flag to be silenced unreported (attentionSlaAlert.ts).   *)
THEOREM StampsAreAccountedFor == ConvSpec => []StampHasAlert
<1>1. ConvInv => StampHasAlert
  BY DEF ConvInv, AlertInv, StampHasAlert, Flagged
<1> QED BY <1>1, ConversationIsConsistent, PTL

(* OneAlertPerFlag: the ticks of the worker tell the operator of a flag once     *)
(* (attentionSlaAlert.ts).                                                     *)
THEOREM FlagsAreAlertedOnce == ConvSpec => []OneAlertPerFlag
BY ConversationIsConsistent, PTL DEF ConvInv, AlertInv
===============================================================================
