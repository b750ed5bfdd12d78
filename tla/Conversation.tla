----------------------------- MODULE Conversation -----------------------------
(***************************************************************************)
(* One lead writes to a tenant, by SMS, e-mail or the chat widget, and the   *)
(* tenant's team answers.  A reply is classified and sets the status of the  *)
(* lead; what a human must see raises the needs-attention flag, which a      *)
(* manual reply or "mark handled" clears; every tick of the worker tells the *)
(* operator once of a flag that has been up for longer than the tenant's SLA.*)
(*                                                                         *)
(* Every handler is cut at its awaits.  A request is one HTTP request; two   *)
(* requests with the same message are two deliveries of it.                  *)
(*                                                                         *)
(* A flag is identified by needsAttentionAt.  The clock counts the values of  *)
(* new Date() that were taken for one, so later flags have later times, and   *)
(* horizon is the latest of them that is attentionSlaHours old by now.        *)
(***************************************************************************)
EXTENDS Naturals, FiniteSets

CONSTANTS
    Requests,   \* HTTP requests about the lead
    Messages,   \* messages of the lead that a provider gave an id
    StopTexts,  \* those of them the keyword classifier knows for a stop
    Checks,     \* ticks of the worker that can overlap
    MaxFaults   \* bound: store calls that throw

ASSUME ConversationAssumption ==
    /\ StopTexts \subseteq Messages
    /\ MaxFaults \in Nat

VARIABLES
    lead,      \* the row: does it exist, its status and its attention columns
    inbox,     \* providerMessageIds in the message history of the lead
    gate,      \* the tenant: "open", "suspended" or without accepted "terms"
    stage,     \* request -> how far its handler is
    kind,      \* request -> the endpoint it is sent to
    message,   \* request -> the message it delivers, if that has an id
    verdict,   \* request -> the classification of its text
    took,      \* request -> the needsAttentionAt it is about to write
    outbound,  \* request -> the message it sends: row in the store, its status
    clock,
    horizon,
    check,     \* tick -> how far alertStaleAttentionItems is with this lead
    listed,    \* tick -> needsAttentionAt in the list the tick read
    convFaults

(* History variables.                                                        *)
VARIABLES
    logged,    \* the requests that logged an inbound message
    beside,    \* pairs that were both between duplicate check and log
    before,    \* <<q, r>>: r's message is newer than the one q delivers
    author,    \* the request that wrote the status, if one did
    waiting,   \* requests that raised the flag and were not answered since
    known,     \* answer -> the requests waiting when it began
    crossed,   \* requests waiting although the flag was cleared
    started,   \* when the flag that is up was first raised
    outdated,  \* requests about to raise it from a reading no longer true
    torn,      \* the flag that is up was written from such a reading
    told,      \* alerts about the flag that is up
    excused,   \* two ticks were about to stamp it at once, or a stamp failed
    late,      \* tick -> the flag was cleared since the tick's second reading
    misplaced  \* a stamp came after its flag was cleared, and no clearing since

inboundHistory == <<logged, beside, before, author>>
flagHistory == <<waiting, known, crossed, started, outdated, torn>>
alertHistory == <<told, excused, late, misplaced>>
slaVars == <<horizon, check, listed>>
convVars ==
    <<lead, inbox, gate, stage, kind, message, verdict, took, outbound, clock,
      slaVars, convFaults, inboundHistory, flagHistory, alertHistory>>

Providers == {"sms", "email"}
Inbound == Providers \cup {"chat"}
Kinds == Inbound \cup {"reply", "handled"}
Working == {"received", "checked", "logged", "closing", "closed", "flagging",
            "raising", "sending", "sent", "clearing"}
HardStops == {"opted_out", "do_not_contact", "fraudulent"}

ConvTypeOK ==
    /\ lead \in [stored : BOOLEAN,
                 status : {"contacted_no_response", "responded"} \cup HardStops,
                 needsAttentionAt : Nat, alerted : BOOLEAN]
    /\ inbox \subseteq Messages
    /\ gate \in {"open", "suspended", "terms"}
    /\ stage \in [Requests -> {"idle", "done", "failed"} \cup Working]
    /\ kind \in [Requests -> Kinds]
    /\ message \in [Requests -> Messages]
    /\ verdict \in [Requests -> {"none", "stop", "not_interested", "escalate"}]
    /\ took \in [Requests -> Nat]
    /\ outbound \in [Requests -> {"none", "accepted", "stored", "reported"}]
    /\ clock \in Nat /\ horizon \in 0 .. clock
    /\ check \in [Checks -> {"idle", "listed", "alerted"}]
    /\ listed \in [Checks -> Nat]
    /\ convFaults \in 0 .. MaxFaults
    /\ logged \subseteq Requests
    /\ beside \subseteq SUBSET Requests
    /\ before \subseteq Requests \X Requests
    /\ author \subseteq Requests
    /\ waiting \subseteq Requests /\ known \in [Requests -> SUBSET Requests]
    /\ crossed \subseteq Requests /\ outdated \subseteq Requests
    /\ started \in Nat /\ torn \in BOOLEAN
    /\ told \in Nat /\ excused \in BOOLEAN /\ misplaced \in BOOLEAN
    /\ late \in [Checks -> BOOLEAN]

(* needsAttentionAt of a lead that is not in the inbox. *)
NotFlagged == 0

ConvInit ==
    /\ lead = [stored |-> TRUE, status |-> "contacted_no_response",
               needsAttentionAt |-> NotFlagged, alerted |-> FALSE]
    /\ inbox = {} /\ gate = "open"
    /\ stage = [r \in Requests |-> "idle"]
    /\ kind \in [Requests -> Kinds]
    /\ message \in [Requests -> Messages]
    /\ verdict = [r \in Requests |-> "none"]
    /\ took = [r \in Requests |-> NotFlagged]
    /\ outbound = [r \in Requests |-> "none"]
    /\ clock = 0 /\ horizon = 0
    /\ check = [c \in Checks |-> "idle"]
    /\ listed = [c \in Checks |-> NotFlagged]
    /\ convFaults = 0
    /\ logged = {} /\ beside = {} /\ before = {} /\ author = {}
    /\ waiting = {} /\ known = [r \in Requests |-> {}] /\ crossed = {}
    /\ outdated = {} /\ started = NotFlagged /\ torn = FALSE
    /\ told = 0 /\ excused = FALSE /\ misplaced = FALSE
    /\ late = [c \in Checks |-> FALSE]

Flagged == lead.stored /\ lead.needsAttentionAt # NotFlagged

Goto(r, s) == stage' = [stage EXCEPT ![r] = s]

Set(f, r, v) == [f EXCEPT ![r] = v]

(* updateLead: one statement over the columns of the patch; none of them is    *)
(* written if the row is gone.                                               *)
UpdateLead(patched) == lead' = IF lead.stored THEN patched ELSE lead

-------------------------------------------------------------------------------
(* Inbound messages: recordInboundAndClassify and answerChatMessage. *)

(* Two deliveries of one message: only a Twilio delivery carries an id.       *)
SameMessage(q, r) ==
    q = r \/ (kind[q] = "sms" /\ kind[r] = "sms" /\ message[q] = message[r])

(* A message of the lead that has been handled to the end. *)
Settled(r) == r \in logged /\ stage[r] = "done"

(* A delivery, perhaps one to come, of a message that was handled before r    *)
(* came in; r is the first delivery of its own.                              *)
OlderThan(r) ==
    {q \in Requests :
        /\ stage[q] \notin Working
        /\ \E s \in Requests : Settled(s) /\ SameMessage(s, q)
        /\ \A s \in Requests : SameMessage(s, r) => stage[s] = "idle"}

(* POST /webhooks/.../twilio/sms, .../sendgrid/email and the chat's message:   *)
(* the tenant is not paused and the lead is found.                            *)
Receive(r) ==
    /\ stage[r] = "idle"
    /\ kind[r] \in Inbound
    /\ gate = "open"
    /\ lead.stored
    /\ Goto(r, IF kind[r] = "sms" THEN "received" ELSE "checked")
    /\ before' = before \cup OlderThan(r) \X {r}
    /\ UNCHANGED <<lead, inbox, gate, kind, message, verdict, took, outbound, clock,
                   slaVars, convFaults, logged, beside, author, flagHistory,
                   alertHistory>>

(* Faulty variant of IsDuplicate: only an unbroken repetition is recognised.   *)
IsRepeat(m) == inbox = {m}

(* history.some(m => m.providerMessageId === providerMessageId).              *)
IsDuplicate(m) == m \in inbox

(* Between its duplicate check and its log. *)
Unlogged(q, r) == stage[q] = "checked" /\ SameMessage(q, r)

CheckDuplicate(r) ==
    /\ stage[r] = "received"
    /\ IF IsDuplicate(message[r])
       THEN Goto(r, "done") /\ UNCHANGED beside
       ELSE /\ Goto(r, "checked")
            /\ beside' = beside \cup
                   {{q, r} : q \in {q \in Requests : Unlogged(q, r)}}
    /\ UNCHANGED <<lead, inbox, gate, kind, message, verdict, took, outbound, clock,
                   slaVars, convFaults, logged, before, author, flagHistory,
                   alertHistory>>

(* classifyReply: the keywords decide alone on a stop; on any other text the  *)
(* optional language model may say anything.                                *)
Verdicts(r) ==
    IF kind[r] = "sms" /\ message[r] \in StopTexts THEN {"stop"}
    ELSE {"stop", "not_interested", "escalate"}

(* Faulty variant of LogInbound: the row is stored without the provider's id.   *)
LogWithoutId(r, v) ==
    /\ stage[r] = "checked"
    /\ lead.stored
    /\ v \in Verdicts(r)
    /\ Goto(r, "logged")
    /\ verdict' = Set(verdict, r, v)
    /\ logged' = logged \cup {r}
    /\ UNCHANGED <<lead, inbox, gate, kind, message, took, outbound, clock, slaVars,
                   convFaults, beside, before, author, flagHistory, alertHistory>>

LogInbound(r, v) ==
    /\ stage[r] = "checked"
    /\ lead.stored                       \* messages.lead_id is a foreign key
    /\ v \in Verdicts(r)
    /\ Goto(r, "logged")
    /\ verdict' = Set(verdict, r, v)
    /\ inbox' = IF kind[r] = "sms" THEN inbox \cup {message[r]} ELSE inbox
    /\ logged' = logged \cup {r}
    /\ UNCHANGED <<lead, gate, kind, message, took, outbound, clock, slaVars,
                   convFaults, beside, before, author, flagHistory, alertHistory>>

StatusFor(v) ==
    CASE v = "stop" -> "opted_out"
      [] v = "not_interested" -> "do_not_contact"
      [] OTHER -> "responded"

SetStatus(r) ==
    /\ stage[r] = "logged"
    /\ UpdateLead([lead EXCEPT !.status = StatusFor(verdict[r])])
    /\ author' = {r}
    /\ Goto(r, CASE verdict[r] = "stop" -> "done"
                 [] verdict[r] = "not_interested" -> "closing"
                 [] OTHER -> "flagging")
    /\ UNCHANGED <<inbox, gate, kind, message, verdict, took, outbound, clock,
                   slaVars, convFaults, logged, beside, before, flagHistory,
                   alertHistory>>

(* safeSend of the closer, unless the carrier's approval is missing; a chat    *)
(* shows the closer in its response and only logs it.                         *)
SendCloser(r, ok) ==
    /\ stage[r] = "closing"
    /\ kind[r] \in Providers
    /\ Goto(r, IF ok THEN "closed" ELSE "done")
    /\ outbound' = Set(outbound, r, IF ok THEN "accepted" ELSE "none")
    /\ UNCHANGED <<lead, inbox, gate, kind, message, verdict, took, clock, slaVars,
                   convFaults, inboundHistory, flagHistory, alertHistory>>

(* The row of a message a provider accepted. *)
StoreOutbound(r) ==
    outbound' = [outbound EXCEPT ![r] = IF @ = "accepted" THEN "stored" ELSE @]

LogCloser(r) ==
    /\ stage[r] = IF kind[r] = "chat" THEN "closing" ELSE "closed"
    /\ lead.stored
    /\ Goto(r, "done")
    /\ StoreOutbound(r)
    /\ UNCHANGED <<lead, inbox, gate, kind, message, verdict, took, clock, slaVars,
                   convFaults, inboundHistory, flagHistory, alertHistory>>

(* POST /webhooks/.../twilio/status and .../sendgrid/events, which find the    *)
(* message by its id once its row is there.                                   *)
DeliveryReport(r) ==
    /\ gate = "open"
    /\ outbound[r] = "stored"
    /\ outbound' = Set(outbound, r, "reported")
    /\ UNCHANGED <<lead, inbox, gate, stage, kind, message, verdict, took, clock,
                   slaVars, convFaults, inboundHistory, flagHistory, alertHistory>>

-------------------------------------------------------------------------------
(* flagNeedsAttention. *)

(* Faulty variant of FlagStart: a new message restarts the clock.             *)
RestartedFlag == clock + 1

(* current.needsAttentionAt ?? new Date().                                   *)
FlagStart == IF Flagged THEN lead.needsAttentionAt ELSE clock + 1

ReadFlag(r) ==
    /\ stage[r] = "flagging"
    /\ Goto(r, "raising")
    /\ took' = Set(took, r, FlagStart)
    /\ clock' = IF FlagStart > clock THEN FlagStart ELSE clock
    /\ UNCHANGED <<lead, inbox, gate, kind, message, verdict, outbound, slaVars,
                   convFaults, inboundHistory, flagHistory, alertHistory>>

(* The requests whose reading of the flag is no longer true after a write.     *)
Outdating(r) == outdated \cup {q \in Requests \ {r} : stage[q] = "raising"}

(* Faulty variant of RaiseFlag: it does not write when it read a flag that    *)
(* was up.                                                                   *)
RaiseUnlessUp(r) ==
    /\ stage[r] = "raising"
    /\ UpdateLead([lead EXCEPT !.needsAttentionAt =
                      IF took[r] > started THEN took[r] ELSE @])
    /\ Goto(r, "done")
    /\ waiting' = waiting \cup {r}
    /\ started' = IF Flagged THEN started ELSE took[r]
    /\ outdated' = Outdating(r)
    /\ UNCHANGED <<inbox, gate, kind, message, verdict, took, outbound, clock,
                   slaVars, convFaults, inboundHistory, known, crossed, torn,
                   alertHistory>>

RaiseFlag(r) ==
    /\ stage[r] = "raising"
    /\ UpdateLead([lead EXCEPT !.needsAttentionAt = took[r]])
    /\ Goto(r, "done")
    /\ waiting' = waiting \cup {r}
    /\ started' = IF Flagged THEN started ELSE took[r]
    /\ torn' = (torn \/ r \in outdated)
    /\ outdated' = IF Flagged /\ lead.needsAttentionAt = took[r]
                   THEN outdated ELSE Outdating(r)
    /\ UNCHANGED <<inbox, gate, kind, message, verdict, took, outbound, clock,
                   slaVars, convFaults, inboundHistory, known, crossed,
                   alertHistory>>

-------------------------------------------------------------------------------
(* The team's side: POST /leads/:id/reply and /mark-handled. *)

(* What the team can see when it answers. *)
BeginAnswer(r) ==
    /\ known' = Set(known, r, waiting)
    /\ UNCHANGED <<waiting, crossed, started, outdated, torn>>

(* The tenant accepted the terms, the row is not hard-stopped when it is read. *)
StartReply(r) ==
    /\ stage[r] = "idle"
    /\ kind[r] = "reply"
    /\ gate = "open"
    /\ lead.stored
    /\ lead.status \notin HardStops
    /\ Goto(r, "sending")
    /\ BeginAnswer(r)
    /\ UNCHANGED <<lead, inbox, gate, kind, message, verdict, took, outbound, clock,
                   slaVars, convFaults, inboundHistory, alertHistory>>

(* No channel, quiet hours, a missing approval or a failed send end the        *)
(* request; a chat reply is only logged.                                      *)
SendReply(r, result) ==
    /\ stage[r] = "sending"
    /\ Goto(r, IF result = "refused" THEN "done" ELSE "sent")
    /\ outbound' = Set(outbound, r, IF result = "accepted" THEN result ELSE "none")
    /\ UNCHANGED <<lead, inbox, gate, kind, message, verdict, took, clock, slaVars,
                   convFaults, inboundHistory, flagHistory, alertHistory>>

LogReply(r) ==
    /\ stage[r] = "sent"
    /\ lead.stored
    /\ Goto(r, "clearing")
    /\ StoreOutbound(r)
    /\ UNCHANGED <<lead, inbox, gate, kind, message, verdict, took, clock, slaVars,
                   convFaults, inboundHistory, flagHistory, alertHistory>>

MarkHandled(r) ==
    /\ stage[r] = "idle"
    /\ kind[r] = "handled"
    /\ gate # "suspended"
    /\ lead.stored
    /\ Goto(r, "clearing")
    /\ BeginAnswer(r)
    /\ UNCHANGED <<lead, inbox, gate, kind, message, verdict, took, outbound, clock,
                   slaVars, convFaults, inboundHistory, alertHistory>>

(* What a clearing means to the history: nothing is left of the flag, and who   *)
(* raised it after the answer had begun still waits.                           *)
Forget(r) ==
    /\ waiting' = waiting \ known[r]
    /\ crossed' = waiting \ known[r]
    /\ known' = Set(known, r, {})
    /\ torn' = FALSE /\ UNCHANGED started
    /\ outdated' = Outdating(r)
    /\ told' = 0 /\ excused' = FALSE /\ misplaced' = FALSE
    /\ late' = [c \in Checks |-> late[c] \/ check[c] = "alerted"]

(* Faulty variant of ClearAttention: attentionAlertedAt stays set.             *)
ClearFlagOnly(r) ==
    /\ stage[r] = "clearing"
    /\ UpdateLead([lead EXCEPT !.needsAttentionAt = NotFlagged])
    /\ Goto(r, "done")
    /\ Forget(r)
    /\ UNCHANGED <<inbox, gate, kind, message, verdict, took, outbound, clock,
                   slaVars, convFaults, inboundHistory>>

(* The update with CLEAR_ATTENTION. *)
ClearAttention(r) ==
    /\ stage[r] = "clearing"
    /\ UpdateLead([lead EXCEPT !.needsAttentionAt = NotFlagged, !.alerted = FALSE])
    /\ Goto(r, "done")
    /\ Forget(r)
    /\ UNCHANGED <<inbox, gate, kind, message, verdict, took, outbound, clock,
                   slaVars, convFaults, inboundHistory>>

-------------------------------------------------------------------------------
(* alertStaleAttentionItems, which runs for paused tenants too. *)

(* attentionSlaHours pass for one more of the flags raised so far. *)
TimePasses ==
    /\ horizon < clock
    /\ horizon' = horizon + 1
    /\ UNCHANGED <<lead, inbox, gate, stage, kind, message, verdict, took, outbound,
                   clock, check, listed, convFaults, inboundHistory, flagHistory,
                   alertHistory>>

(* Faulty variant of IsStale: the flag must be older than the SLA.             *)
IsOverdue == Flagged /\ ~lead.alerted /\ lead.needsAttentionAt < horizon

(* isStaleAttentionItem. *)
IsStale == Flagged /\ ~lead.alerted /\ lead.needsAttentionAt <= horizon

(* getAllLeads, and the filter. *)
ListStale(c) ==
    /\ check[c] = "idle"
    /\ IsStale
    /\ check' = Set(check, c, "listed")
    /\ listed' = Set(listed, c, lead.needsAttentionAt)
    /\ UNCHANGED <<lead, inbox, gate, stage, kind, message, verdict, took, outbound,
                   clock, horizon, convFaults, inboundHistory, flagHistory,
                   alertHistory>>

(* Faulty variant of IsStillListed: another tick's stamp is not looked at.     *)
IsSameFlag(c) == Flagged /\ lead.needsAttentionAt = listed[c]

(* The second reading, right before the alert. *)
IsStillListed(c) ==
    /\ lead.stored
    /\ lead.needsAttentionAt = listed[c]
    /\ ~lead.alerted

(* sendOperatorAlert, about the flag the tick listed. *)
AlertOperator(c) ==
    /\ check[c] = "listed"
    /\ IF IsStillListed(c)
       THEN /\ check' = Set(check, c, "alerted")
            /\ told' = IF lead.needsAttentionAt = listed[c] THEN told + 1 ELSE told
            /\ excused' = (excused \/
                   \E d \in Checks : check[d] = "alerted" /\ ~late[d])
       ELSE /\ check' = Set(check, c, "idle")
            /\ UNCHANGED <<told, excused>>
    /\ late' = Set(late, c, FALSE)
    /\ UNCHANGED <<lead, inbox, gate, stage, kind, message, verdict, took, outbound,
                   clock, horizon, listed, convFaults, inboundHistory, flagHistory,
                   misplaced>>

(* The update of attentionAlertedAt. *)
StampAlerted(c) ==
    /\ check[c] = "alerted"
    /\ UpdateLead([lead EXCEPT !.alerted = TRUE])
    /\ check' = Set(check, c, "idle")
    /\ misplaced' = (misplaced \/ late[c])
    /\ UNCHANGED <<inbox, gate, stage, kind, message, verdict, took, outbound, clock,
                   horizon, listed, convFaults, inboundHistory, flagHistory, told,
                   excused, late>>

ConvFault ==
    /\ convFaults < MaxFaults
    /\ convFaults' = convFaults + 1

(* The second reading or the stamp throws, which is logged; the tick goes on.   *)
CheckThrows(c) ==
    /\ check[c] # "idle"
    /\ ConvFault
    /\ check' = Set(check, c, "idle")
    /\ excused' = (excused \/ (check[c] = "alerted" /\ ~late[c]))
    /\ UNCHANGED <<lead, inbox, gate, stage, kind, message, verdict, took, outbound,
                   clock, horizon, listed, inboundHistory, flagHistory, told, late,
                   misplaced>>

-------------------------------------------------------------------------------
(* The surroundings. *)

(* The handler awaits the store, not a provider: safeSend never throws.         *)
AwaitsStore(r) ==
    /\ stage[r] \in Working \ {"sending"}
    /\ ~(stage[r] = "closing" /\ kind[r] \in Providers)

(* A store call of the handler throws, or the row its message belongs to has   *)
(* been deleted: the request is answered with an error and ends.               *)
Throw(r) ==
    /\ AwaitsStore(r)
    /\ \/ ConvFault
       \/ /\ ~lead.stored /\ stage[r] \in {"checked", "closing", "closed", "sent"}
          /\ UNCHANGED convFaults
    /\ Goto(r, "failed")
    /\ outdated' = outdated \ {r}
    /\ UNCHANGED <<lead, inbox, gate, kind, message, verdict, took, outbound, clock,
                   slaVars, inboundHistory, waiting, known, crossed, started, torn,
                   alertHistory>>

(* DELETE /leads/:id takes the message history with it (ON DELETE CASCADE).    *)
EraseLead ==
    /\ lead.stored
    /\ lead' = [lead EXCEPT !.stored = FALSE]
    /\ inbox' = {}
    /\ outbound' = [r \in Requests |->
           IF outbound[r] = "accepted" THEN "accepted" ELSE "none"]
    /\ UNCHANGED <<gate, stage, kind, message, verdict, took, clock, slaVars,
                   convFaults, inboundHistory, flagHistory, alertHistory>>

(* Billing or an administrator suspends or reactivates the tenant; a new one   *)
(* has yet to accept the terms.                                               *)
ChangeGate(g) ==
    /\ gate # g
    /\ gate' = g
    /\ UNCHANGED <<lead, inbox, stage, kind, message, verdict, took, outbound, clock,
                   slaVars, convFaults, inboundHistory, flagHistory, alertHistory>>

RequestStep(r) ==
    \/ Receive(r) \/ CheckDuplicate(r)
    \/ \E v \in Verdicts(r) : LogInbound(r, v)
    \/ SetStatus(r)
    \/ \E ok \in BOOLEAN : SendCloser(r, ok)
    \/ LogCloser(r) \/ DeliveryReport(r)
    \/ ReadFlag(r) \/ RaiseFlag(r)
    \/ StartReply(r)
    \/ \E result \in {"refused", "accepted", "chat"} : SendReply(r, result)
    \/ LogReply(r) \/ MarkHandled(r) \/ ClearAttention(r)
    \/ Throw(r)

CheckStep(c) ==
    \/ ListStale(c) \/ AlertOperator(c) \/ StampAlerted(c) \/ CheckThrows(c)

ConvNext ==
    \/ \E r \in Requests : RequestStep(r)
    \/ \E c \in Checks : CheckStep(c)
    \/ TimePasses
    \/ EraseLead
    \/ \E g \in {"open", "suspended", "terms"} : ChangeGate(g)

CheckGoesOn(c) == ListStale(c) \/ AlertOperator(c) \/ StampAlerted(c)

(* cron starts a tick every few minutes, and a store call settles; nobody      *)
(* promises that a request comes, or that a tenant is reactivated.             *)
ConvFairness ==
    /\ WF_convVars(TimePasses)
    /\ WF_convVars(\E c \in Checks : CheckGoesOn(c))

ConvSpec == ConvInit /\ [][ConvNext]_convVars
FairConvSpec == ConvSpec /\ ConvFairness

-------------------------------------------------------------------------------
(* Properties. *)

(* A retry of a Twilio message that comes after its log is neither classified  *)
(* nor reported again: both of two deliveries are logged only if the second     *)
(* was checked before the first was logged.  That is less than is promised of    *)
(* the check, see RetryIsSkipped.                                             *)
LateRetryIsSkipped ==
    \A q, r \in logged : SameMessage(q, r) /\ q # r => {q, r} \in beside

(* The MessageSid guards "against processing the same inbound delivery twice",  *)
(* in particular when a slow classification makes Twilio retry                  *)
(* (webhooks/index.ts, 136-142).                                              *)
RetryIsSkipped == \A q, r \in logged : SameMessage(q, r) => q = r

(* Once a newer message has been handled, the status is never that of a late   *)
(* delivery of an older one: a retried question does not undo a STOP.          *)
LatestReplyDecides ==
    \A q \in author, r \in Requests : Settled(r) => <<q, r>> \notin before

(* The wait the team and the SLA are measured by starts when the flag that is  *)
(* up was first raised, whatever messages came since, unless the flag moved    *)
(* between a handler's reading of it and its writing.                         *)
WaitIsMeasuredFromStart ==
    Flagged => lead.needsAttentionAt = started \/ torn

(* A message that needs a human is in the inbox until an answer or mark-handled *)
(* that begins after it clears it, through answers that are refused or fail; but *)
(* an answer that began before it was raised clears its flag all the same        *)
(* (routes/leads.ts, 396), and only that can take it out of the inbox.         *)
EscalationIsFlagged ==
    lead.stored => Flagged \/ waiting \subseteq crossed

(* attentionAlertedAt is only ever set by a tick that has told the operator: of *)
(* the flag that is up, or of one that was cleared before the stamp came.  The   *)
(* stamp of the second kind stays, on the empty row and on whatever flag is     *)
(* raised there next, until the next clearing.                               *)
StampHasAlert ==
    Flagged /\ lead.alerted => told > 0 \/ misplaced

(* The second reading keeps a stamp from suppressing "the SLA alert for a       *)
(* genuinely new, separate occurrence" (attentionSlaAlert.ts, 37-46): a flag    *)
(* with a start of its own counts as alerted only after an alert about it.      *)
NewOccurrenceIsAlerted == Flagged /\ ~torn /\ lead.alerted => told > 0

(* The operator hears of a flag once, unless two ticks pass the check together *)
(* or a stamp fails.                                                          *)
OneAlertPerFlag == told > 1 => excused

(* A flag that stays up is stamped as alerted in the end.                     *)
FlagIsAlerted == Flagged ~> (~Flagged \/ lead.alerted)
===============================================================================
