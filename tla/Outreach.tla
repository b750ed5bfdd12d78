------------------------------- MODULE Outreach -------------------------------
(***************************************************************************)
(* One tenant's recovery workflow and everything that writes to its leads   *)
(* while a run is in flight.                                                *)
(*                                                                         *)
(* A run (runRecoveryWorkflow, started by a worker tick or by POST          *)
(* /workflow/run) takes the tenant's lock, reads every lead once, builds    *)
(* all four lists of plans from that snapshot and then works through them:  *)
(* send, log the message, stamp the lead.  Each of these is an await, so    *)
(* webhooks and dashboard requests interleave with every one of them.  They *)
(* do not take the lock: the lock serialises runs, not writers.             *)
(*                                                                         *)
(* The four lists share one shape here: a plan carries the fields of its    *)
(* lead snapshot that are used after the snapshot was taken.                *)
(*                                                                         *)
(* The tenant lock is the abstract mutex of RunMutex: a run enters when no  *)
(* other run of the tenant is inside.                                       *)
(***************************************************************************)
EXTENDS LeadPolicy

CONSTANTS
    Leads,           \* lead ids
    Ticks,           \* runs of the worker's cron tick
    ManualRuns,      \* runs of POST /workflow/run
    NoRun,           \* nobody holds the tenant lock
    NoPlan,          \* the run has no delivered message to account for
    Slots,           \* the appointment times the business offers
    Horizon,         \* bound: the clock stops here
    MaxReplies,      \* bound: inbound replies, over all leads
    MaxOperatorActs, \* bound: conversions, edits, bookings and deletions
    MaxFaults        \* bound: crashes and failed store writes

Runs == Ticks \cup ManualRuns

ASSUME OutreachAssumption ==
    /\ Ticks \cap ManualRuns = {}
    /\ NoRun \notin Runs
    /\ Slots \subseteq Nat
    /\ Horizon \in Nat
    /\ MaxReplies \in Nat
    /\ MaxOperatorActs \in Nat
    /\ MaxFaults \in Nat

Kinds == {"initial", "follow_up", "appointment_reminder", "win_back"}
OutreachKinds == {"initial", "follow_up"}

(* RecoveryPlan, reduced to the snapshot fields that outlive the snapshot.  *)
Plan ==
    [kind : Kinds,
     lead : Leads,
     status : Statuses,                   \* the value sendPlans guards on
     followUpCount : 0 .. MaxFollowUps,   \* the value sendPlans increments
     appointmentAt : Times]               \* the time a reminder announces

ASSUME PlanAssumption == NoPlan \notin Plan

VARIABLES
    leads,   \* the leads table: lead id -> LeadRecord
    clock,   \* wall-clock time
    holder,  \* the run inside the tenant's lock, or NoRun
    pc,      \* run -> where it is between two awaits
    now,     \* run -> the "now" it was given, fixed for the whole run
    todo,    \* run -> plans of the snapshot not yet sent
    current, \* run -> the delivered plan whose bookkeeping is not done yet
    intakes, \* lead -> appointment times read by intake calls still in flight
    spent    \* how much of each bound has been used

(* History variables: they record what happened and guard nothing.           *)
VARIABLES
    delivered,       \* initial and follow-up messages the provider accepted
    slips,           \* accepted messages whose stamp never reached the row, by kind
    afterStop,       \* outreach and win-backs accepted since the lead hard-stopped
    reminders,       \* reminders accepted for the lead's present appointment
    winBacks,        \* win-back check-ins accepted
    answered,        \* the lead replied after a first automated message
    tried            \* some run attempted an outreach send to the lead

rowVars == <<leads, clock>>
runVars == <<holder, pc, now, todo, current>>
history == <<delivered, slips, afterStop, reminders, winBacks, answered, tried>>
vars == <<leads, clock, holder, pc, now, todo, current, intakes, spent,
          delivered, slips, afterStop, reminders, winBacks, answered, tried>>

Spent ==
    [replies : 0 .. MaxReplies,
     operator : 0 .. MaxOperatorActs,
     faults : 0 .. MaxFaults]

TypeOK ==
    /\ leads \in [Leads -> LeadRecord]
    /\ clock \in Nat
    /\ holder \in Runs \cup {NoRun}
    /\ pc \in [Runs -> {"idle", "waiting", "sending", "delivered", "logged"}]
    /\ now \in [Runs -> Times]
    /\ todo \in [Runs -> SUBSET Plan]
    /\ current \in [Runs -> Plan \cup {NoPlan}]
    /\ intakes \in [Leads -> SUBSET Times]
    /\ spent \in Spent
    /\ delivered \in [Leads -> Nat]
    /\ slips \in [Leads -> [Kinds -> Nat]]
    /\ afterStop \in [Leads -> Nat]
    /\ reminders \in [Leads -> Nat]
    /\ winBacks \in [Leads -> Nat]
    /\ answered \in [Leads -> BOOLEAN]
    /\ tried \in [Leads -> BOOLEAN]

Init ==
    /\ leads = [l \in Leads |-> BlankLead]
    /\ clock = 0
    /\ holder = NoRun
    /\ pc = [r \in Runs |-> "idle"]
    /\ now = [r \in Runs |-> Never]
    /\ todo = [r \in Runs |-> {}]
    /\ current = [r \in Runs |-> NoPlan]
    /\ intakes = [l \in Leads |-> {}]
    /\ spent = [replies |-> 0, operator |-> 0, faults |-> 0]
    /\ delivered = [l \in Leads |-> 0]
    /\ slips = [l \in Leads |-> [k \in Kinds |-> 0]]
    /\ afterStop = [l \in Leads |-> 0]
    /\ reminders = [l \in Leads |-> 0]
    /\ winBacks = [l \in Leads |-> 0]
    /\ answered = [l \in Leads |-> FALSE]
    /\ tried = [l \in Leads |-> FALSE]

-------------------------------------------------------------------------------
(* Planning. *)

PlanFor(kind, l) ==
    [kind |-> kind, lead |-> l, status |-> leads[l].status,
     followUpCount |-> leads[l].followUpCount,
     appointmentAt |-> leads[l].appointmentAt]

Stored == {l \in Leads : leads[l].row = "stored"}

(* The four lists.  A lead without a usable channel gets no plan: to the     *)
(* state that is the same as a send that fails, see SendFails.               *)
BuiltPlans(t) ==
    {PlanFor("initial", l) : l \in {m \in Stored : IsDueForInitial(leads[m])}}
    \cup
    {PlanFor("follow_up", l) :
        l \in {m \in Stored : IsDueForFollowUp(leads[m], t)}}
    \cup
    {PlanFor("appointment_reminder", l) :
        l \in {m \in Stored : IsDueForReminder(leads[m], t)}}
    \cup
    {PlanFor("win_back", l) :
        l \in {m \in Stored : IsDueForWinBack(leads[m], t)}}

(* Quiet hours defer a plan to a later run; only a reminder in its last      *)
(* chance window is sent anyway.  Both depend on the snapshot and on the     *)
(* run's fixed now, so deferred plans are dropped as the run begins.         *)
IsDeferred(p, t) ==
    /\ t \in QuietTimes
    /\ ~(p.kind = "appointment_reminder" /\ IsLastChance(leads[p.lead], t))

Rank(kind) ==
    CASE kind = "initial" -> 1
      [] kind = "follow_up" -> 2
      [] kind = "appointment_reminder" -> 3
      [] kind = "win_back" -> 4

(* The lists are sent one after the other; the order within a list is the    *)
(* priority sort, which no property here depends on.                         *)
IsNext(r, p) == p \in todo[r] /\ \A q \in todo[r] : Rank(p.kind) <= Rank(q.kind)

-------------------------------------------------------------------------------
(* The row updates of a run: what the patch of each send function does.      *)

(* Faulty variant of Stamped: a first message leaves firstOutreachSentAt unset. *)
StampedWithoutFirstMark(lead, p, t) ==
    CASE p.kind = "initial" ->
           [lead EXCEPT !.status = "contacted_no_response",
                        !.lastContactedAt = t,
                        !.followUpCount = 0]
      [] p.kind = "follow_up" ->
           [lead EXCEPT !.status = "contacted_no_response",
                        !.lastContactedAt = t,
                        !.followUpCount = p.followUpCount + 1]
      [] p.kind = "appointment_reminder" ->
           [lead EXCEPT !.reminderSent = TRUE]
      [] p.kind = "win_back" ->
           [lead EXCEPT !.lastWinBackAt = t]

(* Faulty variant of Stamped: the reminder's own flag is not written.         *)
StampedWithoutReminderFlag(lead, p, t) ==
    CASE p.kind = "initial" ->
           [lead EXCEPT !.status = "contacted_no_response",
                        !.lastContactedAt = t,
                        !.firstOutreachSent = TRUE,
                        !.followUpCount = 0]
      [] p.kind = "follow_up" ->
           [lead EXCEPT !.status = "contacted_no_response",
                        !.lastContactedAt = t,
                        !.followUpCount = p.followUpCount + 1]
      [] p.kind = "appointment_reminder" -> lead
      [] p.kind = "win_back" -> [lead EXCEPT !.lastWinBackAt = t]

Stamped(lead, p, t) ==
    CASE p.kind = "initial" ->
           [lead EXCEPT !.status = "contacted_no_response",
                        !.lastContactedAt = t,
                        !.firstOutreachSent = TRUE,
                        !.followUpCount = 0]
      [] p.kind = "follow_up" ->
           [lead EXCEPT !.status = "contacted_no_response",
                        !.lastContactedAt = t,
                        !.followUpCount = p.followUpCount + 1]
      [] p.kind = "appointment_reminder" ->
           [lead EXCEPT !.reminderSent = TRUE]
      [] p.kind = "win_back" ->
           [lead EXCEPT !.lastWinBackAt = t]

(* Faulty variant of GuardHolds: the patch is written whatever came between.  *)
Unguarded(lead, p) == TRUE

(* UpdateLeadGuard: onlyIfStatusIn, absent for a reminder. *)
GuardHolds(lead, p) ==
    CASE p.kind \in OutreachKinds -> lead.status = p.status
      [] p.kind = "appointment_reminder" -> TRUE
      [] p.kind = "win_back" -> lead.status = "converted"

(* updateLead is one UPDATE statement: no row, or a guard that misses, and   *)
(* nothing changes.                                                          *)
StampApplies(p) == leads[p.lead].row = "stored" /\ GuardHolds(leads[p.lead], p)

(* Faulty variant of LockFree: runs of one tenant overlap.                    *)
NoTenantLock == TRUE

LockFree == holder = NoRun

(* Faulty variant of Leave: the lock outlives the run that took it.           *)
LeaveLocked(r) ==
    /\ UNCHANGED holder
    /\ pc' = [pc EXCEPT ![r] = "idle"]
    /\ now' = [now EXCEPT ![r] = Never]
    /\ todo' = [todo EXCEPT ![r] = {}]
    /\ current' = [current EXCEPT ![r] = NoPlan]

(* A run ends, well or badly: the lock is free and its snapshot is gone.      *)
Leave(r) ==
    /\ holder' = IF holder = r THEN NoRun ELSE holder
    /\ pc' = [pc EXCEPT ![r] = "idle"]
    /\ now' = [now EXCEPT ![r] = Never]
    /\ todo' = [todo EXCEPT ![r] = {}]
    /\ current' = [current EXCEPT ![r] = NoPlan]

-------------------------------------------------------------------------------
(* A run. *)

(* The worker fixes "now" before it queues for the lock; a manual run's      *)
(* "now" is only read once it is inside.                                     *)
RequestRun(r) ==
    /\ pc[r] = "idle"
    /\ pc' = [pc EXCEPT ![r] = "waiting"]
    /\ now' = [now EXCEPT ![r] = IF r \in Ticks THEN clock ELSE Never]
    /\ UNCHANGED <<leads, clock, holder, todo, current, intakes, spent>>
    /\ UNCHANGED history

BeginRun(r) ==
    LET t == IF r \in Ticks THEN now[r] ELSE clock IN
    /\ pc[r] = "waiting"
    /\ LockFree
    /\ holder' = r
    /\ pc' = [pc EXCEPT ![r] = "sending"]
    /\ now' = [now EXCEPT ![r] = t]
    /\ todo' = [todo EXCEPT ![r] = {p \in BuiltPlans(t) : ~IsDeferred(p, t)}]
    /\ UNCHANGED <<leads, clock, current, intakes, spent>>
    /\ UNCHANGED history

(* safeSend resolves to {ok: true}: the provider has the message.  The row   *)
(* is not read again first, so the lead may have changed since the snapshot. *)
Deliver(r, p) ==
    /\ pc[r] = "sending"
    /\ IsNext(r, p)
    /\ pc' = [pc EXCEPT ![r] = "delivered"]
    /\ todo' = [todo EXCEPT ![r] = @ \ {p}]
    /\ current' = [current EXCEPT ![r] = p]
    /\ UNCHANGED <<leads, clock, holder, now, intakes, spent>>
    /\ LET l == p.lead
           outreach == p.kind \in OutreachKinds
           counts == p.kind # "appointment_reminder"
       IN  /\ delivered' = [delivered EXCEPT ![l] = IF outreach THEN @ + 1 ELSE @]
           /\ tried' = [tried EXCEPT ![l] = @ \/ outreach]
           /\ afterStop' = [afterStop EXCEPT ![l] =
                  IF counts /\ leads[l].status \in HardStopStatuses
                  THEN @ + 1 ELSE @]
           /\ reminders' = [reminders EXCEPT ![l] =
                  IF /\ p.kind = "appointment_reminder"
                     /\ p.appointmentAt = leads[l].appointmentAt
                  THEN @ + 1 ELSE @]
           /\ winBacks' = [winBacks EXCEPT ![l] =
                  IF p.kind = "win_back" THEN @ + 1 ELSE @]
    /\ UNCHANGED <<slips, answered>>

(* safeSend resolves to {ok: false}: nothing is written, a later run retries. *)
SendFails(r, p) ==
    /\ pc[r] = "sending"
    /\ IsNext(r, p)
    /\ todo' = [todo EXCEPT ![r] = @ \ {p}]
    /\ tried' = [tried EXCEPT ![p.lead] = @ \/ p.kind \in OutreachKinds]
    /\ UNCHANGED <<leads, clock, holder, pc, now, current, intakes, spent,
                   delivered, slips, afterStop, reminders, winBacks, answered>>

(* messages.logMessage succeeds: the lead's row is there to refer to. *)
LogMessage(r) ==
    /\ pc[r] = "delivered"
    /\ leads[current[r].lead].row = "stored"
    /\ pc' = [pc EXCEPT ![r] = "logged"]
    /\ UNCHANGED <<leads, clock, holder, now, todo, current, intakes, spent>>
    /\ UNCHANGED history

Slip(r) ==
    slips' = IF pc[r] \in {"delivered", "logged"}
             THEN [slips EXCEPT ![current[r].lead][current[r].kind] = @ + 1]
             ELSE slips

(* The lead was deleted while its message was being sent: messages.lead_id   *)
(* refers to no row, the insert throws, and the whole run ends with it.      *)
LogRejected(r) ==
    /\ pc[r] = "delivered"
    /\ leads[current[r].lead].row = "deleted"
    /\ Leave(r)
    /\ Slip(r)
    /\ UNCHANGED <<leads, clock, intakes, spent, delivered, afterStop,
                   reminders, winBacks, answered, tried>>

(* store.updateLead with the send's patch and guard. *)
StampLead(r) ==
    LET p == current[r] IN
    /\ pc[r] = "logged"
    /\ leads' = IF StampApplies(p)
                THEN [leads EXCEPT ![p.lead] = Stamped(@, p, now[r])]
                ELSE leads
    /\ IF StampApplies(p) THEN UNCHANGED slips ELSE Slip(r)
    /\ pc' = [pc EXCEPT ![r] = "sending"]
    /\ current' = [current EXCEPT ![r] = NoPlan]
    /\ UNCHANGED <<clock, holder, now, todo, intakes, spent, delivered,
                   afterStop, reminders, winBacks, answered,
                   tried>>

FinishRun(r) ==
    /\ pc[r] = "sending"
    /\ todo[r] = {}
    /\ Leave(r)
    /\ UNCHANGED <<leads, clock, intakes, spent>>
    /\ UNCHANGED history

(* The process dies, or a store call throws: whatever the run still had to   *)
(* do is forgotten and the lock is released.                                 *)
AbortRun(r) ==
    /\ pc[r] # "idle"
    /\ spent.faults < MaxFaults
    /\ spent' = [spent EXCEPT !.faults = @ + 1]
    /\ Leave(r)
    /\ Slip(r)
    /\ UNCHANGED <<leads, clock, intakes, delivered, afterStop, reminders,
                   winBacks, answered, tried>>

RunStep(r) ==
    \/ \E p \in todo[r] : Deliver(r, p) \/ SendFails(r, p)
    \/ LogMessage(r)
    \/ LogRejected(r)
    \/ StampLead(r)
    \/ FinishRun(r)

-------------------------------------------------------------------------------
(* The other writers of the leads table. *)

UseOperatorAct ==
    /\ spent.operator < MaxOperatorActs
    /\ spent' = [spent EXCEPT !.operator = @ + 1]

(* Every intake path stores a new lead as "new", never contacted.  Only an    *)
(* import carries consent, and it takes an appointment as booked; the intake  *)
(* webhook stores whatever status and time it is given.  Nothing is booked    *)
(* with a business that offers no appointments.                              *)
CreateLead(l, withdrawn, booked, at) ==
    /\ leads[l].row = "none"
    /\ withdrawn => booked = (at # Never)
    /\ booked => Slots # {}
    /\ leads' = [leads EXCEPT ![l] = [@ EXCEPT !.row = "stored",
                                               !.withdrawn = withdrawn,
                                               !.booked = booked,
                                               !.appointmentAt = at]]
    /\ UNCHANGED <<clock, intakes, spent>>
    /\ UNCHANGED runVars
    /\ UNCHANGED <<delivered, slips, afterStop, reminders, winBacks, answered,
                   tried>>

(* Status after a reply of each class. *)
StatusAfter(class) ==
    CASE class = "stop" -> "opted_out"
      [] class = "not_interested" -> "do_not_contact"
      [] class \in {"interested", "question", "unknown"} -> "responded"

ReplyClasses == {"stop", "not_interested", "interested", "question", "unknown"}

(* The one write of an inbound reply, by webhook or chat widget, that a run  *)
(* can see: it carries no guard, whatever the status was.                    *)
InboundReply(l, class) ==
    LET s == StatusAfter(class) IN
    /\ leads[l].row = "stored"
    /\ spent.replies < MaxReplies
    /\ spent' = [spent EXCEPT !.replies = @ + 1]
    /\ leads' = [leads EXCEPT ![l].status = s]
    /\ answered' = [answered EXCEPT ![l] = @ \/ delivered[l] > 0]
    /\ afterStop' = [afterStop EXCEPT ![l] = IF s \in HardStopStatuses THEN @ ELSE 0]
    /\ UNCHANGED <<clock, intakes>>
    /\ UNCHANGED runVars
    /\ UNCHANGED <<delivered, slips, reminders, winBacks, tried>>

(* POST /leads/:id/convert. *)
Convert(l, optIn) ==
    /\ leads[l].row = "stored"
    /\ UseOperatorAct
    /\ leads' = [leads EXCEPT ![l] = [@ EXCEPT !.status = "converted",
                                               !.convertedAt = clock,
                                               !.marketingOptIn = optIn]]
    /\ afterStop' = [afterStop EXCEPT ![l] = 0]
    /\ UNCHANGED <<clock, intakes>>
    /\ UNCHANGED runVars
    /\ UNCHANGED <<delivered, slips, reminders, winBacks, answered, tried>>

(* PATCH /leads/:id with consentStatus and marketingOptIn. *)
PatchConsent(l, withdrawn, optIn) ==
    /\ leads[l].row = "stored"
    /\ UseOperatorAct
    /\ leads' = [leads EXCEPT ![l] = [@ EXCEPT !.withdrawn = withdrawn,
                                               !.marketingOptIn = optIn]]
    /\ UNCHANGED <<clock, intakes>>
    /\ UNCHANGED runVars
    /\ UNCHANGED <<delivered, slips, afterStop, reminders, winBacks, answered,
                   tried>>

(* PATCH /leads/:id with an appointmentAt, or a public booking: the reminder *)
(* sent for the date it had before is forgotten.                             *)
SetAppointment(l, booked, at) ==
    /\ leads[l].row = "stored"
    /\ UseOperatorAct
    /\ leads' = [leads EXCEPT ![l] = [@ EXCEPT !.booked = booked,
                                               !.appointmentAt = at,
                                               !.reminderSent = FALSE]]
    /\ reminders' = [reminders EXCEPT ![l] = 0]
    /\ UNCHANGED <<clock, intakes>>
    /\ UNCHANGED runVars
    /\ UNCHANGED <<delivered, slips, afterStop, winBacks,
                   answered, tried>>

(* PATCH /leads/:id of appointmentStatus alone. *)
SetBooked(l, booked) ==
    /\ leads[l].row = "stored"
    /\ UseOperatorAct
    /\ leads' = [leads EXCEPT ![l].booked = booked]
    /\ UNCHANGED <<clock, intakes>>
    /\ UNCHANGED runVars
    /\ UNCHANGED history

(* POST /webhooks/lead for a contact already known reads the lead, and after  *)
(* that await writes back what it read wherever the caller names no value.   *)
IntakeRead(l) ==
    /\ leads[l].row = "stored"
    /\ UseOperatorAct
    /\ intakes' = [intakes EXCEPT ![l] = @ \cup {leads[l].appointmentAt}]
    /\ UNCHANGED <<leads, clock>>
    /\ UNCHANGED runVars
    /\ UNCHANGED history

(* appointmentReminderSentAt is not part of the patch.  A lead deleted in     *)
(* between is not updated.                                                   *)
IntakeWrite(l, seen, booked, at) ==
    /\ seen \in intakes[l]
    /\ at \in Slots \cup {seen}
    /\ intakes' = [intakes EXCEPT ![l] = @ \ {seen}]
    /\ IF leads[l].row = "stored"
       THEN /\ leads' = [leads EXCEPT ![l] = [@ EXCEPT !.booked = booked,
                                               !.appointmentAt = at]]
            /\ reminders' = [reminders EXCEPT ![l] =
                                IF at = leads[l].appointmentAt THEN @ ELSE 0]
       ELSE UNCHANGED <<leads, reminders>>
    /\ UNCHANGED <<clock, spent>>
    /\ UNCHANGED runVars
    /\ UNCHANGED <<delivered, slips, afterStop, winBacks,
                   answered, tried>>

(* DELETE /leads/:id and the worker's retention purge. *)
DeleteLead(l) ==
    /\ leads[l].row = "stored"
    /\ UseOperatorAct
    /\ leads' = [leads EXCEPT ![l].row = "deleted"]
    /\ UNCHANGED <<clock, intakes>>
    /\ UNCHANGED runVars
    /\ UNCHANGED history

AdvanceClock ==
    /\ clock < Horizon
    /\ clock' = clock + 1
    /\ UNCHANGED <<leads, intakes, spent>>
    /\ UNCHANGED runVars
    /\ UNCHANGED history

Writer(l) ==
    \/ \E withdrawn, booked \in BOOLEAN, at \in Slots \cup {Never} :
           CreateLead(l, withdrawn, booked, at)
    \/ \E class \in ReplyClasses : InboundReply(l, class)
    \/ \E optIn \in BOOLEAN : Convert(l, optIn)
    \/ \E withdrawn, optIn \in BOOLEAN : PatchConsent(l, withdrawn, optIn)
    \/ \E booked \in BOOLEAN, at \in Slots \cup {Never} :
           SetAppointment(l, booked, at)
    \/ \E booked \in BOOLEAN : SetBooked(l, booked)
    \/ IntakeRead(l)
    \/ \E seen \in intakes[l], booked \in BOOLEAN, at \in Slots \cup intakes[l] :
           IntakeWrite(l, seen, booked, at)
    \/ DeleteLead(l)

Next ==
    \/ \E r \in Runs :
           RequestRun(r) \/ BeginRun(r) \/ RunStep(r) \/ AbortRun(r)
    \/ \E l \in Leads : Writer(l)
    \/ AdvanceClock

Spec == Init /\ [][Next]_vars

(* What keeps the system going: cron fires whatever happened before, every    *)
(* await of a run settles, and time passes.  Waiters of the tenant lock are   *)
(* queued in order, so a run that waits is not overtaken for ever: strong     *)
(* fairness.  Nothing obliges an operator to start a manual run or a lead to  *)
(* reply.                                                                    *)
Fairness ==
    /\ \A r \in Ticks : WF_vars(RequestRun(r))
    /\ \A r \in Runs : SF_vars(BeginRun(r)) /\ WF_vars(RunStep(r))
    /\ WF_vars(AdvanceClock)

FairSpec == Spec /\ Fairness

-------------------------------------------------------------------------------
(* Safety. *)

OutreachSlips(l) == slips[l]["initial"] + slips[l]["follow_up"]

(* A lead gets one first message and at most MAX_FOLLOWUPS nudges, however    *)
(* ticks, manual runs, replies and edits interleave.  Every message beyond    *)
(* that is one whose bookkeeping was lost: a crash between the send and the   *)
(* stamp, or a status guard that missed because the lead had just changed.    *)
BoundedOutreach ==
    \A l \in Leads : delivered[l] <= 1 + MaxFollowUps + OutreachSlips(l)

(* Once a lead is opted out, do-not-contact or fraudulent, no automated       *)
(* outreach or win-back reaches it, but for the one message that was already  *)
(* planned when the status was written.                                      *)
AtMostOneAfterStop == \A l \in Leads : afterStop[l] <= 1

(* Nobody is reminded twice of one appointment, unless the first reminder's   *)
(* bookkeeping was lost.                                                     *)
NoDuplicateReminder ==
    \A l \in Leads : reminders[l] <= 1 + slips[l]["appointment_reminder"]

(* A past customer hears from the business at most once per cooldown: the     *)
(* n-th win-back whose bookkeeping survived is not sent before n cooldowns.   *)
WinBackRateBounded ==
    \A l \in Leads :
        winBacks[l] - slips[l]["win_back"] <= clock \div WinBackCooldownDays

(* A run decides from a snapshot, sends, and writes its stamp several awaits    *)
(* later; replies, conversions, bookings and deletions write in between.  Yet   *)
(* every row behaves as if each stamp had read and written it in one step: no   *)
(* count, time or flag is a lost update, and no stamp says of a row what the    *)
(* row did not permit.                                                        *)
Lifecycle == INSTANCE LeadLifecycle

ImplementsLifecycle == Lifecycle!Spec

(* The stamp of a send that was in flight never reopens a lead that a reply,  *)
(* a conversion or a suppression closed meanwhile.                           *)
ClosedLeadsStayClosed ==
    [][\A l \in Leads :
          leads[l].status \in SuppressedStatuses
              => leads'[l].status # "contacted_no_response"]_vars

-------------------------------------------------------------------------------
(* The inductive invariant behind these.                                     *)

InFlight(l, kinds) ==
    \E r \in Runs :
        /\ pc[r] \in {"delivered", "logged"}
        /\ current[r].lead = l
        /\ current[r].kind \in kinds

(* Exactly the run inside the lock has a snapshot and may be sending.         *)
LockInv ==
    /\ \A r \in Runs :
           pc[r] \in {"sending", "delivered", "logged"} <=> holder = r
    /\ \A r \in Runs : holder # r => todo[r] = {}
    /\ \A r \in Runs :
           pc[r] \in {"delivered", "logged"} <=> current[r] # NoPlan

(* A run's plans: those it has yet to send and the one it is accounting for.  *)
Pending(r) == todo[r] \cup ({current[r]} \ {NoPlan})

(* A snapshot plans at most one counted message, and one reminder, per lead.  *)
Distinct ==
    \A r \in Runs :
        /\ current[r] \notin todo[r]
        /\ \A p, q \in Pending(r) :
               /\ p.lead = q.lead
               /\ (p.kind = "appointment_reminder")
                      <=> (q.kind = "appointment_reminder")
               => p = q

(* What a pending plan says of its lead is still so, in the columns only a    *)
(* run writes: nothing the other writers do makes a stamp a lost update.      *)
PlansCurrent ==
    \A r \in Runs : \A p \in Pending(r) :
        /\ leads[p.lead].row # "none"
        /\ p.kind \in OutreachKinds => p.status \notin SuppressedStatuses
        /\ p.kind = "initial" => ~leads[p.lead].firstOutreachSent
        /\ p.kind = "follow_up" =>
               /\ leads[p.lead].firstOutreachSent
               /\ leads[p.lead].followUpCount = p.followUpCount
               /\ p.followUpCount < MaxFollowUps
        /\ p.kind = "appointment_reminder" => ~leads[p.lead].reminderSent

(* Messages a lead may still be sent, by its own bookkeeping. *)
Remaining(l) ==
    IF leads[l].firstOutreachSent
    THEN MaxFollowUps - leads[l].followUpCount
    ELSE 1 + MaxFollowUps

OutreachBudget ==
    \A l \in Leads :
        delivered[l] + Remaining(l) <=
            1 + MaxFollowUps + OutreachSlips(l)
              + (IF InFlight(l, OutreachKinds) THEN 1 ELSE 0)

StopBudget ==
    /\ \A l \in Leads : afterStop[l] <= 1
    /\ \A l \in Leads :
           leads[l].status \notin HardStopStatuses => afterStop[l] = 0
    /\ \A r \in Runs : \A p \in todo[r] :
           p.kind # "appointment_reminder" => afterStop[p.lead] = 0

ReminderBudget ==
    \A l \in Leads :
        reminders[l] <=
            slips[l]["appointment_reminder"]
              + (IF \/ leads[l].reminderSent
                    \/ InFlight(l, {"appointment_reminder"})
                 THEN 1 ELSE 0)

RunsAreCurrent ==
    /\ LockInv
    /\ Distinct
    /\ PlansCurrent
    /\ OutreachBudget
    /\ StopBudget
    /\ ReminderBudget

(* A run's time has come, and what a pending nudge or check-in waited for is     *)
(* still over: no other write moves the time it was counted from.              *)
PlansPaced ==
    \A r \in Runs :
        /\ now[r] <= clock
        /\ now[r] = Never => pc[r] = "idle" \/ (pc[r] = "waiting" /\ r \in ManualRuns)
        /\ \A p \in Pending(r) :
               /\ p.kind = "follow_up" =>
                      /\ p.status = "contacted_no_response"
                      /\ leads[p.lead].lastContactedAt # Never
                      /\ now[r] - leads[p.lead].lastContactedAt
                             >= FollowUpIntervalDays[p.followUpCount]
               /\ p.kind = "win_back" =>
                      now[r] - Lifecycle!LastCheckIn(leads[p.lead]) >= WinBackCooldownDays

(* Customers have a time of conversion, and appointments are at offered times.  *)
RowsInv ==
    \A l \in Leads :
        /\ leads[l].status = "converted" => leads[l].convertedAt # Never
        /\ {leads[l].appointmentAt} \cup intakes[l] \subseteq Slots \cup {Never}

(* Every check-in whose stamp was written moved lastWinBackAt by a cooldown.     *)
WinBackBudget ==
    \A l \in Leads :
        /\ Lifecycle!LastCheckIn(leads[l]) <= clock
        /\ (winBacks[l] - slips[l]["win_back"]
               - (IF InFlight(l, {"win_back"}) THEN 1 ELSE 0)) * WinBackCooldownDays
             <= Lifecycle!LastCheckIn(leads[l])

RunsArePaced == PlansPaced /\ RowsInv /\ WinBackBudget

-------------------------------------------------------------------------------
(* Liveness. *)

Awaiting(l) == leads[l].row = "stored" /\ IsDueForInitial(leads[l])

(* A lead that waits for its first message is tried by some run, or stops     *)
(* waiting: no crash, deletion, quiet hour or other run can starve it.        *)
DueLeadIsTried == \A l \in Leads : Awaiting(l) ~> (tried[l] \/ ~Awaiting(l))

(* A run that queues for the tenant lock gets in, or dies waiting: a crash    *)
(* or a failing run before it never leaves the lock taken.                   *)
WaitingRunGetsIn ==
    \A r \in Runs : pc[r] = "waiting" ~> pc[r] # "waiting"

-------------------------------------------------------------------------------
(* What comments and documents say of the program, and it does not do.       *)

(* "Any reply immediately and permanently removes a lead" from the follow-up  *)
(* list (followup.ts): a lead that answered is not due for a nudge.           *)
RepliedLeadsLeaveFollowUps ==
    \A l \in Leads :
        answered[l] /\ leads[l].row = "stored"
            => ~IsDueForFollowUp(leads[l], clock)

(* "The reminder for whatever time was previously booked should no longer be  *)
(* treated as already sent" (routes/publicBooking.ts): a run records a        *)
(* reminder only against the time that the reminder announced.               *)
ReminderStampMatchesAppointment ==
    [][\A r \in Runs :
          /\ pc[r] = "logged"
          /\ pc'[r] = "sending"
          /\ current[r].kind = "appointment_reminder"
          => current[r].appointmentAt = leads[current[r].lead].appointmentAt]_vars

===============================================================================
