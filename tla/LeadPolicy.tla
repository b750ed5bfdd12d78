------------------------------ MODULE LeadPolicy ------------------------------
(***************************************************************************)
(* The rules that decide, from one lead row and a point in time, whether    *)
(* the recovery workflow may write to that lead: the status sets and the    *)
(* suppression checks of compliance.ts, and the four "is it due" predicates *)
(* of workflow.ts, followup.ts, winback.ts and appointmentReminder.ts.      *)
(* Everything here is a constant-level operator over a lead record, so the  *)
(* state machines and the proofs share one definition of each rule.         *)
(*                                                                         *)
(* Time is a natural number of abstract ticks.  The intervals are constants *)
(* so that an instance can shrink 3/7/14 days, 24/2 hours and 180 days to    *)
(* the few ticks a model needs.                                             *)
(***************************************************************************)
EXTENDS Integers

CONSTANTS
    MaxFollowUps,          \* MAX_FOLLOWUPS, the length of FOLLOWUP_INTERVAL_DAYS
    FollowUpIntervalDays,  \* interval before follow-up k+1, k \in 0..MaxFollowUps-1
    WinBackCooldownDays,   \* winBackCooldownDays ?? 180
    ReminderWindow,        \* APPOINTMENT_REMINDER_HOURS_BEFORE
    LastChanceWindow,      \* APPOINTMENT_REMINDER_LAST_CHANCE_HOURS
    QuietTimes             \* the ticks that fall in the tenant's quiet hours

ASSUME PolicyAssumption ==
    /\ MaxFollowUps \in Nat
    /\ FollowUpIntervalDays \in [0 .. MaxFollowUps - 1 -> Nat]
    /\ WinBackCooldownDays \in Nat \ {0}
    /\ ReminderWindow \in Nat
    /\ LastChanceWindow \in 0 .. ReminderWindow
    /\ QuietTimes \subseteq Nat

(* An optional ISO date that is not set. *)
Never == -1
Times == Nat \cup {Never}

Statuses ==
    {"new", "contacted_no_response", "responded", "booked", "converted",
     "do_not_contact", "unqualified", "fraudulent", "active_conversation",
     "opted_out"}

(* Faulty variant of SuppressedStatuses: opting out suppresses nothing.       *)
SuppressedWithoutOptOut ==
    {"do_not_contact", "unqualified", "fraudulent", "active_conversation",
     "booked", "converted"}

(* SUPPRESSED_STATUSES. *)
SuppressedStatuses ==
    {"do_not_contact", "unqualified", "fraudulent", "active_conversation",
     "booked", "converted", "opted_out"}

(* HARD_STOP_STATUSES. *)
HardStopStatuses == {"opted_out", "do_not_contact", "fraudulent"}

(* The columns of a lead row the workflow reads or writes.  "row" says       *)
(* whether the row exists: ids are generated and never used again.           *)
LeadRecord ==
    [row : {"none", "stored", "deleted"},
     status : Statuses,
     withdrawn : BOOLEAN,          \* consentStatus = "withdrawn"
     firstOutreachSent : BOOLEAN,  \* firstOutreachSentAt is set
     lastContactedAt : Times,
     followUpCount : 0 .. MaxFollowUps,
     marketingOptIn : BOOLEAN,
     convertedAt : Times,
     lastWinBackAt : Times,
     booked : BOOLEAN,             \* appointmentStatus = "booked"
     appointmentAt : Times,
     reminderSent : BOOLEAN]       \* appointmentReminderSentAt is set

(* A row nobody has created yet; an intake stores it as "new".               *)
BlankLead ==
    [row |-> "none", status |-> "new", withdrawn |-> FALSE,
     firstOutreachSent |-> FALSE, lastContactedAt |-> Never,
     followUpCount |-> 0, marketingOptIn |-> FALSE, convertedAt |-> Never,
     lastWinBackAt |-> Never, booked |-> FALSE, appointmentAt |-> Never,
     reminderSent |-> FALSE]

(* checkSuppression(lead).suppressed: no automated outreach to this lead. *)
IsSuppressed(lead) ==
    lead.status \in SuppressedStatuses \/ lead.withdrawn

(* isHardStopped(lead): nobody may write to this person at all. *)
IsHardStopped(lead) ==
    lead.status \in HardStopStatuses \/ lead.withdrawn

(* The filter of buildRecoveryPlans. *)
IsDueForInitial(lead) ==
    ~lead.firstOutreachSent /\ ~IsSuppressed(lead)

(* Faulty variant of IsDueForFollowUp: past the last interval, the last one    *)
(* is used again.                                                            *)
FollowUpForever(lead, now) ==
    /\ ~IsSuppressed(lead)
    /\ lead.status = "contacted_no_response"
    /\ lead.firstOutreachSent
    /\ lead.lastContactedAt # Never
    /\ LET k == IF lead.followUpCount < MaxFollowUps
               THEN lead.followUpCount ELSE MaxFollowUps - 1
       IN  now - lead.lastContactedAt >= FollowUpIntervalDays[k]

(* isDueForFollowUp.  nextFollowUpAt is left out: no code path under src/    *)
(* gives it a value, sendPlans only clears it.                               *)
IsDueForFollowUp(lead, now) ==
    /\ ~IsSuppressed(lead)
    /\ lead.status = "contacted_no_response"
    /\ lead.firstOutreachSent
    /\ lead.followUpCount < MaxFollowUps
    /\ lead.lastContactedAt # Never
    /\ now - lead.lastContactedAt >= FollowUpIntervalDays[lead.followUpCount]

(* Faulty variant of WinBackBase: a win-back does not start a new cooldown.   *)
ConversionOnly(lead) == lead.convertedAt

(* lastWinBackAt ?? convertedAt, the base of the win-back cooldown.          *)
WinBackBase(lead) ==
    IF lead.lastWinBackAt # Never THEN lead.lastWinBackAt ELSE lead.convertedAt

(* Faulty variant of IsDueForWinBack: the status the lead has now is ignored. *)
WinBackAnyStatus(lead, now) ==
    /\ lead.convertedAt # Never
    /\ lead.marketingOptIn
    /\ now - WinBackBase(lead) >= WinBackCooldownDays

(* isDueForWinBack for a tenant that turned win-backs on. *)
IsDueForWinBack(lead, now) ==
    /\ lead.status = "converted"
    /\ lead.marketingOptIn
    /\ now - WinBackBase(lead) >= WinBackCooldownDays

(* isDueForAppointmentReminder. *)
IsDueForReminder(lead, now) ==
    /\ ~IsHardStopped(lead)
    /\ lead.booked
    /\ lead.appointmentAt # Never
    /\ ~lead.reminderSent
    /\ now < lead.appointmentAt
    /\ lead.appointmentAt - now <= ReminderWindow

(* isLastChanceForAppointmentReminder. *)
IsLastChance(lead, now) ==
    IsDueForReminder(lead, now) /\ lead.appointmentAt - now <= LastChanceWindow

===============================================================================
