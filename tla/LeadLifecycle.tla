----------------------------- MODULE LeadLifecycle -----------------------------
(***************************************************************************)
(* What the leads table looks like to somebody who reads one row again and    *)
(* again: every change of the row is one atomic step on the row as it is at    *)
(* that moment.  In particular a message that left its stamp was permitted by  *)
(* the row it was stamped on: one first message, nudges one by one and each    *)
(* after its interval, one reminder, check-ins a cooldown apart.              *)
(*                                                                         *)
(* There are no runs, snapshots, locks or sends here.  Outreach implements     *)
(* this: its runs decide from snapshots and write after several awaits, and    *)
(* its webhooks and requests write in between without taking the lock.        *)
(***************************************************************************)
EXTENDS LeadPolicy

CONSTANTS
    Leads,  \* lead ids
    Slots   \* the appointment times the business offers

VARIABLES
    leads,  \* lead id -> LeadRecord
    clock

Init ==
    /\ leads = [l \in Leads |-> BlankLead]
    /\ clock = 0

IsStored(l) == leads[l].row = "stored"

(* The row of l becomes row. *)
Put(l, row) == UNCHANGED clock /\ leads' = [leads EXCEPT ![l] = row]

(* When the business last checked in with a past customer. *)
LastCheckIn(lead) == IF lead.lastWinBackAt = Never THEN 0 ELSE lead.lastWinBackAt

-------------------------------------------------------------------------------
(* What runs do.  The stamp bears the run's now, a time that has come.        *)

FirstMessage(l, t) ==
    /\ IsStored(l)
    /\ ~leads[l].firstOutreachSent
    /\ leads[l].status \notin SuppressedStatuses
    /\ Put(l, [leads[l] EXCEPT !.status = "contacted_no_response",
                               !.lastContactedAt = t,
                               !.firstOutreachSent = TRUE,
                               !.followUpCount = 0])

(* The next message of the sequence, when its interval is over. *)
Nudge(l, t) ==
    /\ IsStored(l)
    /\ leads[l].firstOutreachSent
    /\ leads[l].status = "contacted_no_response"
    /\ leads[l].followUpCount < MaxFollowUps
    /\ leads[l].lastContactedAt # Never
    /\ t - leads[l].lastContactedAt >= FollowUpIntervalDays[leads[l].followUpCount]
    /\ Put(l, [leads[l] EXCEPT !.lastContactedAt = t,
                               !.followUpCount = leads[l].followUpCount + 1])

Remind(l) ==
    /\ IsStored(l)
    /\ ~leads[l].reminderSent
    /\ Put(l, [leads[l] EXCEPT !.reminderSent = TRUE])

CheckIn(l, t) ==
    /\ IsStored(l)
    /\ leads[l].status = "converted"
    /\ t - LastCheckIn(leads[l]) >= WinBackCooldownDays
    /\ Put(l, [leads[l] EXCEPT !.lastWinBackAt = t])

-------------------------------------------------------------------------------
(* What everybody else does. *)

Create(l, withdrawn, booked, at) ==
    /\ leads[l].row = "none"
    /\ Put(l, [leads[l] EXCEPT !.row = "stored", !.withdrawn = withdrawn,
                               !.booked = booked, !.appointmentAt = at])

(* The lead writes. *)
Reply(l, status) ==
    /\ IsStored(l)
    /\ Put(l, [leads[l] EXCEPT !.status = status])

Convert(l, optIn) ==
    /\ IsStored(l)
    /\ Put(l, [leads[l] EXCEPT !.status = "converted", !.convertedAt = clock,
                               !.marketingOptIn = optIn])

SetConsent(l, withdrawn, optIn) ==
    /\ IsStored(l)
    /\ Put(l, [leads[l] EXCEPT !.withdrawn = withdrawn, !.marketingOptIn = optIn])

(* A new appointment is one nobody was reminded of; the intake webhook and a    *)
(* change of the appointment's status alone leave that flag as it is.          *)
SetAppointment(l, booked, at, reminderSent) ==
    /\ IsStored(l)
    /\ Put(l, [leads[l] EXCEPT !.booked = booked, !.appointmentAt = at,
                               !.reminderSent = reminderSent])

Delete(l) ==
    /\ IsStored(l)
    /\ Put(l, [leads[l] EXCEPT !.row = "deleted"])

Tick == clock' = clock + 1 /\ UNCHANGED leads

LeadStep(l) ==
    \/ \E booked \in BOOLEAN, at \in Slots \cup {Never},
          reminderSent \in {FALSE, leads[l].reminderSent} :
           SetAppointment(l, booked, at, reminderSent)
    \/ \E withdrawn, optIn \in BOOLEAN : SetConsent(l, withdrawn, optIn)
    \/ \E optIn \in BOOLEAN : Convert(l, optIn)
    \/ \E status \in {"opted_out", "do_not_contact", "responded"} : Reply(l, status)
    \/ Delete(l)
    \/ Remind(l)
    \/ \E t \in 0 .. clock : FirstMessage(l, t) \/ Nudge(l, t) \/ CheckIn(l, t)
    \/ \E withdrawn, booked \in BOOLEAN, at \in Slots \cup {Never} :
           Create(l, withdrawn, booked, at)

(* A write that changes nothing is a stutter. *)
Next == Tick \/ \E l \in Leads : leads'[l] # leads[l] /\ LeadStep(l)

Spec == Init /\ [][Next]_<<leads, clock>>
===============================================================================
