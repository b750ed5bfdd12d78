---------------------------- MODULE LifecycleProofs ----------------------------
(***************************************************************************)
(* Proofs that Outreach implements LeadLifecycle, and that win-backs keep      *)
(* their cooldown, for any number of leads and runs.                          *)
(*                                                                         *)
(* A stamp is written from a snapshot.  That it is nevertheless a step on the   *)
(* row as it is now rests on OutreachProofs (a pending plan is still right      *)
(* about the columns only runs write) and on RunsArePaced: the times it was     *)
(* planned by are still those of the row.                                     *)
(***************************************************************************)
EXTENDS OutreachProofs

(* Both modules go by the same rules. *)
LEMMA SameRules ==
    /\ Lifecycle!Never = Never
    /\ Lifecycle!SuppressedStatuses = SuppressedStatuses
    /\ Lifecycle!BlankLead = BlankLead
BY DEF Never, Lifecycle!Never, SuppressedStatuses, Lifecycle!SuppressedStatuses,
       BlankLead, Lifecycle!BlankLead

(* The lifecycle's step on one row is a step or a stutter of the lifecycle.     *)
LEMMA LeadStepIsStep ==
    ASSUME TypeOK, NEW l \in Leads, Lifecycle!LeadStep(l)
    PROVE  [Lifecycle!Next]_<<leads, clock>>
<1>1. PICK row : leads' = [leads EXCEPT ![l] = row] /\ clock' = clock
  BY Zenon DEF Lifecycle!LeadStep, Lifecycle!SetAppointment, Lifecycle!SetConsent,
         Lifecycle!Convert, Lifecycle!Reply, Lifecycle!Delete, Lifecycle!Remind, Lifecycle!FirstMessage,
         Lifecycle!Nudge, Lifecycle!CheckIn, Lifecycle!Create, Lifecycle!Put
<1>2. CASE leads'[l] = leads[l]
  BY <1>1, <1>2 DEF TypeOK
<1>3. CASE leads'[l] # leads[l]
  BY <1>3 DEF Lifecycle!Next
<1> QED BY <1>2, <1>3, Zenon

-------------------------------------------------------------------------------
(* The writers that do not take the lock. *)

LEMMA CreateIsStep ==
    ASSUME NEW l \in Leads, NEW withdrawn \in BOOLEAN, NEW booked \in BOOLEAN,
           NEW at \in Slots \cup {Never}, CreateLead(l, withdrawn, booked, at)
    PROVE  Lifecycle!LeadStep(l)
<1>1. Lifecycle!Create(l, withdrawn, booked, at)
  BY DEF CreateLead, Lifecycle!Create, Lifecycle!Put
<1>2. \E w, b \in BOOLEAN, a \in Slots \cup {Never} : Lifecycle!Create(l, w, b, a)
  BY <1>1
<1> QED BY <1>2, SameRules DEF Lifecycle!LeadStep

LEMMA ReplyIsStep ==
    ASSUME TypeOK, NEW l \in Leads, NEW class \in ReplyClasses, InboundReply(l, class)
    PROVE  Lifecycle!LeadStep(l)
<1>1. StatusAfter(class) \in {"opted_out", "do_not_contact", "responded"}
  BY DEF StatusAfter, ReplyClasses
<1>2. /\ leads' = [leads EXCEPT ![l] = [leads[l] EXCEPT !.status = StatusAfter(class)]]
      /\ leads[l].row = "stored" /\ clock' = clock
  BY DEF InboundReply
<1>3. Lifecycle!Reply(l, StatusAfter(class))
  BY <1>2 DEF Lifecycle!Reply, Lifecycle!Put, Lifecycle!IsStored
<1> QED BY <1>1, <1>3 DEF Lifecycle!LeadStep

LEMMA ConvertIsStep ==
    ASSUME NEW l \in Leads, NEW optIn \in BOOLEAN, Convert(l, optIn)
    PROVE  Lifecycle!LeadStep(l)
<1>1. Lifecycle!Convert(l, optIn)
  BY DEF Convert, Lifecycle!Convert, Lifecycle!Put, Lifecycle!IsStored
<1> QED BY <1>1 DEF Lifecycle!LeadStep

LEMMA ConsentIsStep ==
    ASSUME NEW l \in Leads, NEW withdrawn \in BOOLEAN, NEW optIn \in BOOLEAN,
           PatchConsent(l, withdrawn, optIn)
    PROVE  Lifecycle!LeadStep(l)
<1>1. Lifecycle!SetConsent(l, withdrawn, optIn)
  BY DEF PatchConsent, Lifecycle!SetConsent, Lifecycle!Put, Lifecycle!IsStored
<1> QED BY <1>1 DEF Lifecycle!LeadStep

(* What an appointment is set to, with or without forgetting the reminder. *)
LEMMA AppointmentIsStep ==
    ASSUME NEW l \in Leads, NEW booked \in BOOLEAN, NEW at \in Slots \cup {Never},
           NEW reminded \in {FALSE, leads[l].reminderSent},
           Lifecycle!SetAppointment(l, booked, at, reminded)
    PROVE  Lifecycle!LeadStep(l)
<1>1. \E b \in BOOLEAN, a \in Slots \cup {Never}, r \in {FALSE, leads[l].reminderSent} :
          Lifecycle!SetAppointment(l, b, a, r)
  OBVIOUS
<1> QED BY <1>1, SameRules DEF Lifecycle!LeadStep

(* Rows that agree with the patched row in every column are that row. *)
LEMMA PatchedBooking ==
    ASSUME NEW lead \in LeadRecord, NEW booked \in BOOLEAN, NEW at \in Times
    PROVE  /\ [lead EXCEPT !.booked = booked, !.appointmentAt = at]
                = [lead EXCEPT !.booked = booked, !.appointmentAt = at,
                               !.reminderSent = lead.reminderSent]
           /\ [lead EXCEPT !.booked = booked]
                = [lead EXCEPT !.booked = booked, !.appointmentAt = lead.appointmentAt,
                               !.reminderSent = lead.reminderSent]
<1> DEFINE a == [lead EXCEPT !.booked = booked]
           b == [a EXCEPT !.appointmentAt = at]
           c == [a EXCEPT !.appointmentAt = lead.appointmentAt]
<1>1. /\ a \in LeadRecord
      /\ a.appointmentAt = lead.appointmentAt /\ a.reminderSent = lead.reminderSent
  BY DEF LeadRecord
<1> HIDE DEF a
<1>2. b \in LeadRecord /\ b.reminderSent = lead.reminderSent
  BY <1>1 DEF LeadRecord
<1>3. c = a
  BY <1>1 DEF LeadRecord
<1> HIDE DEF b, c
<1>4. [b EXCEPT !.reminderSent = lead.reminderSent] = b
  BY <1>2 DEF LeadRecord
<1>5. [c EXCEPT !.reminderSent = lead.reminderSent] = a
  BY <1>1, <1>3 DEF LeadRecord
<1> USE DEF a, b, c
<1> QED BY <1>4, <1>5

LEMMA WriterIsStep ==
    ASSUME TypeOK, RowsInv, NEW l \in Leads, Writer(l)
    PROVE  clock' = clock /\ (Lifecycle!LeadStep(l) \/ leads' = leads)
<1>0. leads[l] \in LeadRecord /\ leads \in [Leads -> LeadRecord] /\ Slots \cup {Never} \subseteq Times
  BY OutreachAssumption DEF TypeOK, Times, OutreachAssumption
<1>1. ASSUME NEW withdrawn \in BOOLEAN, NEW booked \in BOOLEAN, NEW at \in Slots \cup {Never},
             CreateLead(l, withdrawn, booked, at)
      PROVE  clock' = clock /\ Lifecycle!LeadStep(l)
  BY <1>1, CreateIsStep, Zenon DEF CreateLead
<1>2. ASSUME NEW class \in ReplyClasses, InboundReply(l, class)
      PROVE  clock' = clock /\ Lifecycle!LeadStep(l)
  BY <1>2, ReplyIsStep DEF InboundReply
<1>3. ASSUME NEW optIn \in BOOLEAN, Convert(l, optIn)
      PROVE  clock' = clock /\ Lifecycle!LeadStep(l)
  BY <1>3, ConvertIsStep, Zenon DEF Convert
<1>4. ASSUME NEW withdrawn \in BOOLEAN, NEW optIn \in BOOLEAN, PatchConsent(l, withdrawn, optIn)
      PROVE  clock' = clock /\ Lifecycle!LeadStep(l)
  BY <1>4, ConsentIsStep, Zenon DEF PatchConsent
<1>5. ASSUME NEW booked \in BOOLEAN, NEW at \in Slots \cup {Never}, SetAppointment(l, booked, at)
      PROVE  clock' = clock /\ Lifecycle!LeadStep(l)
  <2>1. Lifecycle!SetAppointment(l, booked, at, FALSE)
    BY <1>5 DEF SetAppointment, Lifecycle!SetAppointment, Lifecycle!Put, Lifecycle!IsStored
  <2> QED BY <1>5, <2>1, AppointmentIsStep DEF SetAppointment
<1>6. ASSUME NEW booked \in BOOLEAN, SetBooked(l, booked)
      PROVE  clock' = clock /\ Lifecycle!LeadStep(l)
  <2>1. leads[l].appointmentAt \in Slots \cup {Never}
    BY DEF RowsInv
  <2>2. leads' = [leads EXCEPT ![l] = [leads[l] EXCEPT !.booked = booked]]
    BY <1>6 DEF SetBooked
  <2>3. Lifecycle!SetAppointment(l, booked, leads[l].appointmentAt, leads[l].reminderSent)
    BY <1>0, <1>6, <2>1, <2>2, PatchedBooking, Zenon
       DEF SetBooked, Lifecycle!SetAppointment, Lifecycle!Put, Lifecycle!IsStored
  <2> QED BY <1>6, <2>1, <2>3, AppointmentIsStep DEF SetBooked
<1>7. CASE IntakeRead(l)
  BY <1>7 DEF IntakeRead
<1>8. ASSUME NEW seen \in intakes[l], NEW booked \in BOOLEAN, NEW at \in Slots \cup intakes[l],
             IntakeWrite(l, seen, booked, at)
      PROVE  clock' = clock /\ (Lifecycle!LeadStep(l) \/ leads' = leads)
  <2>1. at \in Slots \cup {Never}
    BY DEF RowsInv
  <2>2. CASE leads[l].row # "stored"
    BY <1>8, <2>2 DEF IntakeWrite
  <2>3. CASE leads[l].row = "stored"
    <3>1. leads' = [leads EXCEPT ![l] = [leads[l] EXCEPT !.booked = booked,
                                                        !.appointmentAt = at]]
      BY <1>8, <2>3 DEF IntakeWrite
    <3>2. Lifecycle!SetAppointment(l, booked, at, leads[l].reminderSent)
      BY <1>0, <1>8, <2>1, <2>3, <3>1, PatchedBooking, Zenon
         DEF IntakeWrite, Lifecycle!SetAppointment, Lifecycle!Put, Lifecycle!IsStored
    <3> QED BY <1>8, <2>1, <3>2, AppointmentIsStep, Zenon DEF IntakeWrite
  <2> QED BY <2>2, <2>3
<1>9. CASE DeleteLead(l)
  <2>1. Lifecycle!Delete(l)
    BY <1>9 DEF DeleteLead, Lifecycle!Delete, Lifecycle!Put, Lifecycle!IsStored
  <2> QED BY <1>9, <2>1 DEF DeleteLead, Lifecycle!LeadStep
<1> QED BY <1>1, <1>2, <1>3, <1>4, <1>5, <1>6, <1>7, <1>8, <1>9 DEF Writer

-------------------------------------------------------------------------------
(* Runs. *)

(* A time that has come. *)
LEMMA NowHasCome ==
    ASSUME TypeOK, PlansPaced, NEW r \in Runs, now[r] # Never
    PROVE  now[r] \in 0 .. clock
BY DEF TypeOK, PlansPaced, Times

LEMMA RunSteps ==
    ASSUME NEW l, NEW t \in 0 .. clock,
           \/ Lifecycle!FirstMessage(l, t) \/ Lifecycle!Nudge(l, t) \/ Lifecycle!CheckIn(l, t)
           \/ Lifecycle!Remind(l)
    PROVE  Lifecycle!LeadStep(l)
<1>1. CASE Lifecycle!Remind(l)
  BY <1>1 DEF Lifecycle!LeadStep
<1>2. CASE ~Lifecycle!Remind(l)
  <2>1. \E s \in 0 .. clock : \/ Lifecycle!FirstMessage(l, s)
                              \/ Lifecycle!Nudge(l, s) \/ Lifecycle!CheckIn(l, s)
    BY <1>2
  <2> QED BY <2>1 DEF Lifecycle!LeadStep
<1> QED BY <1>1, <1>2

(* A stamp that applies is a step of the row it is written on. *)
LEMMA StampIsStep ==
    ASSUME TypeOK, LockInv, PlansCurrent, PlansPaced, NEW r \in Runs, StampLead(r),
           StampApplies(current[r])
    PROVE  Lifecycle!LeadStep(current[r].lead)
<1> DEFINE p == current[r]
           l == p.lead
           t == now[r]
<1>1. /\ p \in Plan /\ p \in Pending(r) /\ l \in Leads /\ p.kind \in Kinds
      /\ p.followUpCount \in 0 .. MaxFollowUps
  BY StampEffect DEF Plan
<1>2. t \in 0 .. clock
  <2>1. pc[r] = "logged"
    BY DEF StampLead
  <2>2. now[r] # Never
    BY <2>1 DEF PlansPaced
  <2> QED BY <2>2, NowHasCome
<1>3. /\ leads' = [leads EXCEPT ![l] = Stamped(leads[l], p, t)] /\ clock' = clock
      /\ leads[l].row = "stored" /\ leads[l] \in LeadRecord
  BY <1>1 DEF StampLead, StampApplies, TypeOK
<1> SUFFICES Lifecycle!LeadStep(l)
  OBVIOUS
<1> HIDE DEF p, l, t
<1>4. CASE p.kind = "initial"
  <2>1. ~leads[l].firstOutreachSent /\ leads[l].status \notin SuppressedStatuses
    BY <1>1, <1>4 DEF PlansCurrent, StampApplies, GuardHolds, OutreachKinds, p, l
  <2>2. Stamped(leads[l], p, t) = [leads[l] EXCEPT !.status = "contacted_no_response",
                                                  !.lastContactedAt = t,
                                                  !.firstOutreachSent = TRUE,
                                                  !.followUpCount = 0]
    BY <1>4 DEF Stamped
  <2>3. Lifecycle!FirstMessage(l, t)
    BY <1>3, <2>1, <2>2, SameRules
       DEF Lifecycle!FirstMessage, Lifecycle!Put, Lifecycle!IsStored
  <2> QED BY <1>2, <2>3, RunSteps
<1>5. CASE p.kind = "follow_up"
  <2>1. /\ leads[l].firstOutreachSent /\ leads[l].followUpCount = p.followUpCount
        /\ p.followUpCount < MaxFollowUps
    BY <1>1, <1>5 DEF PlansCurrent, l
  <2>2. /\ leads[l].status = "contacted_no_response"
        /\ leads[l].lastContactedAt # Never
        /\ t - leads[l].lastContactedAt >= FollowUpIntervalDays[leads[l].followUpCount]
    BY <1>1, <1>5, <2>1 DEF PlansPaced, StampApplies, GuardHolds, OutreachKinds, p, l, t
  <2>3. Stamped(leads[l], p, t) = [leads[l] EXCEPT !.lastContactedAt = t,
                                                  !.followUpCount = leads[l].followUpCount + 1]
    <3>1. Stamped(leads[l], p, t) = [leads[l] EXCEPT !.status = "contacted_no_response",
                                                    !.lastContactedAt = t,
                                                    !.followUpCount = p.followUpCount + 1]
      BY <1>5 DEF Stamped
    <3>2. [leads[l] EXCEPT !.status = "contacted_no_response"] = leads[l]
      BY <1>3, <2>2 DEF LeadRecord
    <3> QED BY <2>1, <3>1, <3>2
  <2>4. Lifecycle!Nudge(l, t)
    BY <1>3, <2>1, <2>2, <2>3, SameRules
       DEF Lifecycle!Nudge, Lifecycle!Put, Lifecycle!IsStored
  <2> QED BY <1>2, <2>4, RunSteps
<1>6. CASE p.kind = "appointment_reminder"
  <2>1. ~leads[l].reminderSent
    BY <1>1, <1>6 DEF PlansCurrent, l
  <2>2. Stamped(leads[l], p, t) = [leads[l] EXCEPT !.reminderSent = TRUE]
    BY <1>6 DEF Stamped
  <2>3. Lifecycle!Remind(l)
    BY <1>3, <2>1, <2>2 DEF Lifecycle!Remind, Lifecycle!Put, Lifecycle!IsStored
  <2> QED BY <1>2, <2>3, RunSteps
<1>7. CASE p.kind = "win_back"
  <2>1. /\ leads[l].status = "converted"
        /\ t - Lifecycle!LastCheckIn(leads[l]) >= WinBackCooldownDays
    BY <1>1, <1>7 DEF PlansPaced, StampApplies, GuardHolds, OutreachKinds, p, l, t
  <2>2. Stamped(leads[l], p, t) = [leads[l] EXCEPT !.lastWinBackAt = t]
    BY <1>7 DEF Stamped
  <2>3. Lifecycle!CheckIn(l, t)
    BY <1>3, <2>1, <2>2 DEF Lifecycle!CheckIn, Lifecycle!Put, Lifecycle!IsStored
  <2> QED BY <1>2, <2>3, RunSteps
<1> QED BY <1>1, <1>4, <1>5, <1>6, <1>7 DEF Kinds

LEMMA RunIsStep ==
    ASSUME TypeOK, LockInv, Distinct, PlansCurrent, PlansPaced, NEW r \in Runs, RunAction(r)
    PROVE  [Lifecycle!Next]_<<leads, clock>>
<1>1. clock' = clock
  BY DEF RunAction, RequestRun, BeginRun, RunStep, Deliver, SendFails, LogMessage, LogRejected,
         StampLead, FinishRun, AbortRun
<1>2. CASE leads' = leads
  BY <1>1, <1>2
<1>3. CASE leads' # leads
  <2>1. ~BeginRun(r)
    BY <1>3 DEF BeginRun
  <2>2. StampLead(r)
    BY <1>3, <2>1, PendingShrinks
  <2>3. StampApplies(current[r]) /\ current[r].lead \in Leads
    BY <1>3, <2>2, StampEffect DEF Plan
  <2> QED BY <2>2, <2>3, StampIsStep, LeadStepIsStep
<1> QED BY <1>2, <1>3

(* Every step of Outreach is a step or a stutter of the lifecycle. *)
LEMMA StepIsStep ==
    ASSUME TypeOK, LockInv, Distinct, PlansCurrent, PlansPaced, RowsInv, [Next]_vars
    PROVE  [Lifecycle!Next]_<<leads, clock>>
<1>1. ASSUME NEW l \in Leads, Writer(l)
      PROVE  [Lifecycle!Next]_<<leads, clock>>
  <2>1. clock' = clock /\ (Lifecycle!LeadStep(l) \/ leads' = leads)
    BY <1>1, WriterIsStep
  <2> QED BY <2>1, LeadStepIsStep
<1>2. CASE AdvanceClock
  <2>1. Lifecycle!Tick
    BY <1>2 DEF AdvanceClock, Lifecycle!Tick
  <2> QED BY <2>1 DEF Lifecycle!Next
<1>3. CASE UNCHANGED vars
  BY <1>3 DEF vars
<1>4. ASSUME NEW r \in Runs, RunAction(r)
      PROVE  [Lifecycle!Next]_<<leads, clock>>
  BY <1>4, RunIsStep
<1> QED BY <1>1, <1>2, <1>3, <1>4 DEF Next, RunAction

-------------------------------------------------------------------------------
(* Pace: the times pending plans were made by are still those of the rows.     *)

(* What one row keeps when somebody who does not take the lock writes it.       *)
KeepsTimes(old, new) ==
    /\ new.lastContactedAt = old.lastContactedAt
    /\ new.lastWinBackAt = old.lastWinBackAt

(* What RowsInv says of one row. *)
RowIsSound(lead) ==
    /\ lead.status = "converted" => lead.convertedAt # Never
    /\ lead.appointmentAt \in Slots \cup {Never}

PaceFrame ==
    /\ UNCHANGED runVars
    /\ UNCHANGED <<slips, winBacks>>
    /\ clock' \in {clock, clock + 1}
    /\ \A m \in Leads : KeepsTimes(leads[m], leads'[m])

(* One row is written, and soundly; the others stay. *)
LEMMA OneRowWritten ==
    ASSUME TypeOK, RowsInv, NEW l \in Leads, NEW row,
           leads' = [leads EXCEPT ![l] = row],
           RowIsSound(leads[l]) => RowIsSound(row),
           intakes' = intakes
    PROVE  /\ RowsInv'
           /\ KeepsTimes(leads[l], row) =>
                  \A m \in Leads : KeepsTimes(leads[m], leads'[m])
<1>1. \A m \in Leads : leads'[m] = IF m = l THEN row ELSE leads[m]
  BY DEF TypeOK
<1>2. \A m \in Leads : RowIsSound(leads[m])
  BY DEF RowsInv, RowIsSound
<1>3. \A m \in Leads : RowIsSound(leads'[m])
  BY <1>1, <1>2
<1> QED BY <1>1, <1>3 DEF RowsInv, RowIsSound, KeepsTimes

LEMMA WriterPace ==
    ASSUME TypeOK, RowsInv, NEW l \in Leads, Writer(l)
    PROVE  PaceFrame /\ RowsInv'
<1>0. /\ UNCHANGED runVars
      /\ leads[l] \in LeadRecord /\ leads \in [Leads -> LeadRecord]
      /\ clock \in Nat /\ clock # Never
  BY WriterKeepsRuns DEF TypeOK, Never
<1>a. ASSUME NEW row, leads' = [leads EXCEPT ![l] = row], KeepsTimes(leads[l], row),
             RowIsSound(leads[l]) => RowIsSound(row),
             UNCHANGED <<clock, slips, winBacks, intakes>>
      PROVE  PaceFrame /\ RowsInv'
  BY <1>0, <1>a, OneRowWritten DEF PaceFrame
<1>b. ASSUME leads' = leads, UNCHANGED <<clock, slips, winBacks>>,
             \A m \in Leads : intakes'[m] \subseteq intakes[m] \cup {leads[m].appointmentAt}
      PROVE  PaceFrame /\ RowsInv'
  BY <1>0, <1>b DEF PaceFrame, RowsInv, KeepsTimes
<1> USE DEF KeepsTimes, RowIsSound, history
<1>1. ASSUME NEW withdrawn \in BOOLEAN, NEW booked \in BOOLEAN, NEW at \in Slots \cup {Never},
             CreateLead(l, withdrawn, booked, at)
      PROVE  PaceFrame /\ RowsInv'
  <2> DEFINE row == [leads[l] EXCEPT !.row = "stored", !.withdrawn = withdrawn,
                                     !.booked = booked, !.appointmentAt = at]
  <2>1. /\ row.lastContactedAt = leads[l].lastContactedAt
        /\ row.lastWinBackAt = leads[l].lastWinBackAt
        /\ row.status = leads[l].status /\ row.convertedAt = leads[l].convertedAt
        /\ row.appointmentAt = at
    BY <1>0 DEF LeadRecord
  <2>2. leads' = [leads EXCEPT ![l] = row] /\ UNCHANGED <<clock, slips, winBacks, intakes>>
    BY <1>1 DEF CreateLead
  <2> HIDE DEF row
  <2> QED BY <1>a, <2>1, <2>2
<1>2. ASSUME NEW class \in ReplyClasses, InboundReply(l, class)
      PROVE  PaceFrame /\ RowsInv'
  <2> DEFINE row == [leads[l] EXCEPT !.status = StatusAfter(class)]
  <2>1. StatusAfter(class) # "converted"
    BY DEF StatusAfter, ReplyClasses
  <2>2. /\ row.lastContactedAt = leads[l].lastContactedAt
        /\ row.lastWinBackAt = leads[l].lastWinBackAt
        /\ row.status # "converted" /\ row.appointmentAt = leads[l].appointmentAt
    BY <1>0, <2>1 DEF LeadRecord
  <2>3. leads' = [leads EXCEPT ![l] = row] /\ UNCHANGED <<clock, slips, winBacks, intakes>>
    BY <1>2 DEF InboundReply
  <2> HIDE DEF row
  <2> QED BY <1>a, <2>2, <2>3
<1>3. ASSUME NEW optIn \in BOOLEAN, Convert(l, optIn)
      PROVE  PaceFrame /\ RowsInv'
  <2> DEFINE row == [leads[l] EXCEPT !.status = "converted", !.convertedAt = clock,
                                     !.marketingOptIn = optIn]
  <2>1. /\ row.lastContactedAt = leads[l].lastContactedAt
        /\ row.lastWinBackAt = leads[l].lastWinBackAt
        /\ row.convertedAt = clock /\ row.appointmentAt = leads[l].appointmentAt
    BY <1>0 DEF LeadRecord
  <2>2. leads' = [leads EXCEPT ![l] = row] /\ UNCHANGED <<clock, slips, winBacks, intakes>>
    BY <1>3 DEF Convert
  <2> HIDE DEF row
  <2> QED BY <1>0, <1>a, <2>1, <2>2
<1>4. ASSUME NEW withdrawn \in BOOLEAN, NEW optIn \in BOOLEAN, PatchConsent(l, withdrawn, optIn)
      PROVE  PaceFrame /\ RowsInv'
  <2> DEFINE row == [leads[l] EXCEPT !.withdrawn = withdrawn, !.marketingOptIn = optIn]
  <2>1. /\ row.lastContactedAt = leads[l].lastContactedAt
        /\ row.lastWinBackAt = leads[l].lastWinBackAt
        /\ row.status = leads[l].status /\ row.convertedAt = leads[l].convertedAt
        /\ row.appointmentAt = leads[l].appointmentAt
    BY <1>0 DEF LeadRecord
  <2>2. leads' = [leads EXCEPT ![l] = row] /\ UNCHANGED <<clock, slips, winBacks, intakes>>
    BY <1>4 DEF PatchConsent
  <2> HIDE DEF row
  <2> QED BY <1>a, <2>1, <2>2
<1>5. ASSUME NEW booked \in BOOLEAN, NEW at \in Slots \cup {Never}, SetAppointment(l, booked, at)
      PROVE  PaceFrame /\ RowsInv'
  <2> DEFINE row == [leads[l] EXCEPT !.booked = booked, !.appointmentAt = at,
                                     !.reminderSent = FALSE]
  <2>1. /\ row.lastContactedAt = leads[l].lastContactedAt
        /\ row.lastWinBackAt = leads[l].lastWinBackAt
        /\ row.status = leads[l].status /\ row.convertedAt = leads[l].convertedAt
        /\ row.appointmentAt = at
    BY <1>0 DEF LeadRecord
  <2>2. leads' = [leads EXCEPT ![l] = row] /\ UNCHANGED <<clock, slips, winBacks, intakes>>
    BY <1>5 DEF SetAppointment
  <2> HIDE DEF row
  <2> QED BY <1>a, <2>1, <2>2
<1>6. ASSUME NEW booked \in BOOLEAN, SetBooked(l, booked)
      PROVE  PaceFrame /\ RowsInv'
  <2> DEFINE row == [leads[l] EXCEPT !.booked = booked]
  <2>1. /\ row.lastContactedAt = leads[l].lastContactedAt
        /\ row.lastWinBackAt = leads[l].lastWinBackAt
        /\ row.status = leads[l].status /\ row.convertedAt = leads[l].convertedAt
        /\ row.appointmentAt = leads[l].appointmentAt
    BY <1>0 DEF LeadRecord
  <2>2. leads' = [leads EXCEPT ![l] = row] /\ UNCHANGED <<clock, slips, winBacks, intakes>>
    BY <1>6 DEF SetBooked
  <2> HIDE DEF row
  <2> QED BY <1>a, <2>1, <2>2
<1>7. CASE IntakeRead(l)
  <2>1. \A m \in Leads : intakes'[m] \subseteq intakes[m] \cup {leads[m].appointmentAt}
    BY <1>7 DEF IntakeRead, TypeOK
  <2> QED BY <1>7, <1>b, <2>1 DEF IntakeRead
<1>8. ASSUME NEW seen \in intakes[l], NEW booked \in BOOLEAN, NEW at \in Slots \cup intakes[l],
             IntakeWrite(l, seen, booked, at)
      PROVE  PaceFrame /\ RowsInv'
  <2>1. /\ \A m \in Leads : intakes'[m] \subseteq intakes[m]
        /\ UNCHANGED <<clock, slips, winBacks>>
    BY <1>8 DEF IntakeWrite, TypeOK
  <2>2. CASE leads[l].row # "stored"
    BY <1>8, <1>b, <2>1, <2>2 DEF IntakeWrite
  <2>3. CASE leads[l].row = "stored"
    <3> DEFINE row == [leads[l] EXCEPT !.booked = booked, !.appointmentAt = at]
    <3>1. /\ row.lastContactedAt = leads[l].lastContactedAt
          /\ row.lastWinBackAt = leads[l].lastWinBackAt
          /\ row.status = leads[l].status /\ row.convertedAt = leads[l].convertedAt
          /\ row.appointmentAt = at
      BY <1>0 DEF LeadRecord
    <3>2. at \in Slots \cup {Never}
      BY DEF RowsInv
    <3>3. leads' = [leads EXCEPT ![l] = row]
      BY <1>8, <2>3 DEF IntakeWrite
    <3> HIDE DEF row
    <3>4. \A m \in Leads : leads'[m] = IF m = l THEN row ELSE leads[m]
      BY <1>0, <3>3
    <3>5. RowsInv'
      BY <2>1, <3>1, <3>2, <3>4 DEF RowsInv
    <3> QED BY <1>0, <2>1, <3>1, <3>4, <3>5 DEF PaceFrame
  <2> QED BY <2>2, <2>3
<1>9. CASE DeleteLead(l)
  <2> DEFINE row == [leads[l] EXCEPT !.row = "deleted"]
  <2>1. /\ row.lastContactedAt = leads[l].lastContactedAt
        /\ row.lastWinBackAt = leads[l].lastWinBackAt
        /\ row.status = leads[l].status /\ row.convertedAt = leads[l].convertedAt
        /\ row.appointmentAt = leads[l].appointmentAt
    BY <1>0 DEF LeadRecord
  <2>2. leads' = [leads EXCEPT ![l] = row] /\ UNCHANGED <<clock, slips, winBacks, intakes>>
    BY <1>9 DEF DeleteLead
  <2> HIDE DEF row
  <2> QED BY <1>a, <2>1, <2>2
<1> QED BY <1>1, <1>2, <1>3, <1>4, <1>5, <1>6, <1>7, <1>8, <1>9 DEF Writer

(* A step is a step of a run, or leaves the runs and these times alone. *)
LEMMA PaceCases ==
    ASSUME TypeOK, RowsInv, [Next]_vars
    PROVE  (PaceFrame /\ RowsInv') \/ \E r \in Runs : RunAction(r)
<1>1. CASE AdvanceClock \/ UNCHANGED vars
  <2>1. UNCHANGED <<leads, intakes, slips, winBacks, runVars>> /\ clock' \in {clock, clock + 1}
    BY <1>1 DEF AdvanceClock, vars, runVars, history
  <2> QED BY <2>1 DEF PaceFrame, RowsInv, KeepsTimes
<1>2. CASE \E l \in Leads : Writer(l)
  BY <1>2, WriterPace
<1>3. CASE \E r \in Runs : RunAction(r)
  BY <1>3
<1> QED BY <1>1, <1>2, <1>3 DEF Next, RunAction

(* What a stamp does to the times of the rows. *)
LEMMA StampTimes ==
    ASSUME TypeOK, LockInv, PlansCurrent, NEW r \in Runs, StampLead(r),
           NEW p, p = current[r]
    PROVE  /\ \A m \in Leads :
                  /\ leads'[m].convertedAt = leads[m].convertedAt
                  /\ leads'[m].appointmentAt = leads[m].appointmentAt
                  /\ leads'[m].status = "converted" => leads[m].status = "converted"
           /\ \A m \in Leads \ {p.lead} : leads'[m] = leads[m]
           /\ p.kind = "appointment_reminder" =>
                  KeepsTimes(leads[p.lead], leads'[p.lead])
           /\ p.kind # "win_back" =>
                  leads'[p.lead].lastWinBackAt = leads[p.lead].lastWinBackAt
           /\ p.kind = "win_back" /\ StampApplies(p) =>
                  leads'[p.lead].lastWinBackAt = now[r]
<1>1. p \in Plan /\ p.lead \in Leads /\ p.kind \in Kinds
  BY StampEffect DEF Plan
<1>2. leads[p.lead] \in LeadRecord /\ leads \in [Leads -> LeadRecord]
  BY <1>1 DEF TypeOK
<1>3. CASE ~StampApplies(p)
  BY <1>1, <1>3, StampEffect DEF KeepsTimes
<1>4. CASE StampApplies(p)
  <2> DEFINE row == Stamped(leads[p.lead], p, now[r])
  <2>1. \A m \in Leads : leads'[m] = IF m = p.lead THEN row ELSE leads[m]
    BY <1>1, <1>2, <1>4 DEF StampLead
  <2>2. /\ row.convertedAt = leads[p.lead].convertedAt
        /\ row.appointmentAt = leads[p.lead].appointmentAt
        /\ row.status = "converted" => leads[p.lead].status = "converted"
        /\ p.kind = "appointment_reminder" => KeepsTimes(leads[p.lead], row)
        /\ p.kind # "win_back" => row.lastWinBackAt = leads[p.lead].lastWinBackAt
        /\ p.kind = "win_back" => row.lastWinBackAt = now[r]
    <3>1. CASE p.kind = "initial"
      BY <1>2, <3>1 DEF Stamped, LeadRecord
    <3>2. CASE p.kind = "follow_up"
      BY <1>2, <3>2 DEF Stamped, LeadRecord
    <3>3. CASE p.kind = "appointment_reminder"
      BY <1>2, <3>3 DEF Stamped, LeadRecord, KeepsTimes
    <3>4. CASE p.kind = "win_back"
      BY <1>2, <3>4 DEF Stamped, LeadRecord
    <3> QED BY <1>1, <3>1, <3>2, <3>3, <3>4 DEF Kinds
  <2> HIDE DEF row
  <2> QED BY <1>1, <2>1, <2>2
<1> QED BY <1>3, <1>4

(* What PlansPaced says of one plan of a run that was given the time t. *)
PlanIsPaced(p, t) ==
    /\ p.kind = "follow_up" =>
           /\ p.status = "contacted_no_response"
           /\ leads[p.lead].lastContactedAt # Never
           /\ t - leads[p.lead].lastContactedAt >= FollowUpIntervalDays[p.followUpCount]
    /\ p.kind = "win_back" =>
           t - Lifecycle!LastCheckIn(leads[p.lead]) >= WinBackCooldownDays

(* The plans of a snapshot are paced: a customer's conversion is not before 0.   *)
LEMMA BuiltPaced ==
    ASSUME TypeOK, RowsInv, NEW t \in Nat, NEW p \in BuiltPlans(t)
    PROVE  PlanIsPaced(p, t)
<1>1. p.lead \in Leads /\ p = PlanFor(p.kind, p.lead)
  BY BuiltCurrent
<1>2. /\ p.status = leads[p.lead].status /\ p.followUpCount = leads[p.lead].followUpCount
      /\ leads[p.lead] \in LeadRecord
  BY <1>1 DEF PlanFor, TypeOK
<1>3. CASE p.kind = "follow_up"
  <2>1. IsDueForFollowUp(leads[p.lead], t)
    BY <1>3 DEF BuiltPlans, PlanFor
  <2> QED BY <1>2, <1>3, <2>1 DEF IsDueForFollowUp, PlanIsPaced
<1>4. CASE p.kind = "win_back"
  <2>1. IsDueForWinBack(leads[p.lead], t)
    BY <1>4 DEF BuiltPlans, PlanFor
  <2>2. /\ leads[p.lead].convertedAt \in Nat
        /\ leads[p.lead].lastWinBackAt \in Times
    BY <1>1, <1>2, <2>1 DEF IsDueForWinBack, RowsInv, LeadRecord, Times
  <2>3. t - Lifecycle!LastCheckIn(leads[p.lead]) >= WinBackCooldownDays
    BY <2>1, <2>2, SameRules, PolicyAssumption
       DEF IsDueForWinBack, WinBackBase, Lifecycle!LastCheckIn, PolicyAssumption, Times
  <2> QED BY <1>4, <2>3 DEF PlanIsPaced
<1> QED BY <1>3, <1>4 DEF PlanIsPaced

(* PlansPaced without its plans. *)
NowInv ==
    \A r \in Runs :
        /\ now[r] <= clock
        /\ now[r] = Never => pc[r] = "idle" \/ (pc[r] = "waiting" /\ r \in ManualRuns)

LEMMA PacedSplits ==
    PlansPaced <=> NowInv /\ \A r \in Runs : \A p \in Pending(r) : PlanIsPaced(p, now[r])
BY DEF PlansPaced, NowInv, PlanIsPaced

(* The time a run begins with has come. *)
LEMMA BeginNow ==
    ASSUME TypeOK, NowInv, NEW r \in Runs, BeginRun(r)
    PROVE  /\ now'[r] \in 0 .. clock /\ now'[r] # Never
           /\ todo'[r] \subseteq BuiltPlans(now'[r])
           /\ \A s \in Runs \ {r} : now'[s] = now[s]
<1> DEFINE t == IF r \in Ticks THEN now[r] ELSE clock
<1>1. now'[r] = t /\ \A s \in Runs \ {r} : now'[s] = now[s]
  BY DEF BeginRun, TypeOK
<1>2. t \in 0 .. clock /\ t # Never
  <2>1. r \in Ticks => now[r] # Never
    BY OutreachAssumption DEF BeginRun, NowInv, OutreachAssumption
  <2> QED BY <2>1 DEF TypeOK, NowInv, Times, Never, Runs
<1>3. todo'[r] \subseteq BuiltPlans(t)
  BY DEF BeginRun, TypeOK
<1> QED BY <1>1, <1>2, <1>3

(* A run's time changes only when it has no plans, but for BeginRun. *)
LEMMA NowKept ==
    ASSUME TypeOK, LockInv, NEW r \in Runs, RunAction(r), ~BeginRun(r)
    PROVE  /\ \A s \in Runs \ {r} : now'[s] = now[s]
           /\ (now'[r] = now[r] \/ Pending(r)' = {})
<1>1. CASE RequestRun(r)
  <2>1. holder # r
    BY <1>1 DEF RequestRun, LockInv
  <2>2. todo'[r] = {} /\ current'[r] = NoPlan
    BY <1>1, <2>1, OutsideIsEmpty DEF RequestRun, LockInv
  <2> QED BY <1>1, <2>2 DEF RequestRun, TypeOK, Pending
<1>2. CASE Leave(r)
  BY <1>2 DEF Leave, TypeOK, Pending
<1>3. CASE now' = now
  BY <1>3
<1>4. RequestRun(r) \/ Leave(r) \/ now' = now
  BY DEF RunAction, RunStep, Deliver, SendFails, LogMessage, LogRejected, StampLead, FinishRun,
         AbortRun
<1> QED BY <1>1, <1>2, <1>3, <1>4

LEMMA NowStep ==
    ASSUME TypeOK, LockInv, NowInv, RowsInv, [Next]_vars
    PROVE  NowInv'
<1>0. now \in [Runs -> Times] /\ clock \in Nat /\ Never <= 0
  BY DEF TypeOK, Never
<1>1. CASE PaceFrame
  <2>1. now' = now /\ pc' = pc /\ clock' \in {clock, clock + 1}
    BY <1>1 DEF PaceFrame, runVars
  <2> QED BY <1>0, <2>1 DEF NowInv, Times, Never
<1>2. ASSUME NEW r \in Runs, RunAction(r)
      PROVE  NowInv'
  <2>0. clock' = clock
    BY <1>2 DEF RunAction, RequestRun, BeginRun, RunStep, Deliver, SendFails, LogMessage,
                LogRejected, StampLead, FinishRun, AbortRun
  <2>1. \A s \in Runs \ {r} : pc'[s] = pc[s] /\ now'[s] = now[s]
    BY <1>2 DEF RunAction, RequestRun, BeginRun, RunStep, Deliver, SendFails, LogMessage,
                LogRejected, StampLead, FinishRun, AbortRun, Leave, TypeOK
  <2>2. /\ now'[r] <= clock
        /\ now'[r] = Never => pc'[r] = "idle" \/ (pc'[r] = "waiting" /\ r \in ManualRuns)
    <3>1. CASE RequestRun(r)
      BY <1>0, <3>1 DEF RequestRun, TypeOK, Runs, Never
    <3>2. CASE BeginRun(r)
      BY <1>0, <3>2, BeginNow
    <3>3. CASE Leave(r)
      <4>1. now'[r] = Never /\ pc'[r] = "idle"
        BY <3>3 DEF Leave, TypeOK
      <4>2. Never <= clock
        BY <1>0 DEF Never
      <4> QED BY <4>1, <4>2
    <3>4. CASE now' = now /\ pc[r] \in {"sending", "delivered", "logged"}
      BY <3>4 DEF NowInv
    <3>5. \/ RequestRun(r) \/ BeginRun(r) \/ Leave(r)
          \/ now' = now /\ pc[r] \in {"sending", "delivered", "logged"}
      <4>1. ASSUME NEW p \in todo[r], Deliver(r, p) \/ SendFails(r, p)
            PROVE  now' = now /\ pc[r] = "sending"
        BY <4>1 DEF Deliver, SendFails
      <4>2. LogMessage(r) \/ StampLead(r) =>
                now' = now /\ pc[r] \in {"sending", "delivered", "logged"}
        BY DEF LogMessage, StampLead
      <4>3. LogRejected(r) \/ FinishRun(r) \/ AbortRun(r) => Leave(r)
        BY DEF LogRejected, FinishRun, AbortRun
      <4> QED BY <1>2, <4>1, <4>2, <4>3 DEF RunAction, RunStep
    <3> QED BY <3>1, <3>2, <3>3, <3>4, <3>5
  <2> QED BY <2>0, <2>1, <2>2 DEF NowInv
<1> QED BY <1>1, <1>2, PaceCases


-------------------------------------------------------------------------------
(* The pace of pending plans. *)

LEMMA PendingType ==
    ASSUME TypeOK, NEW r \in Runs, NEW p \in Pending(r)
    PROVE  p \in Plan /\ p.lead \in Leads /\ p.kind \in Kinds
BY DEF TypeOK, Pending, Plan

(* A plan whose lead keeps its times stays paced. *)
LEMMA PacedKept ==
    ASSUME NEW p, NEW t, PlanIsPaced(p, t), KeepsTimes(leads[p.lead], leads'[p.lead])
    PROVE  PlanIsPaced(p, t)'
BY DEF PlanIsPaced, KeepsTimes, Lifecycle!LastCheckIn

(* A stamp leaves the times of the other plans: only a reminder can be pending  *)
(* beside a message to the same lead, and a reminder goes by no such time.      *)
LEMMA StampPaced ==
    ASSUME TypeOK, LockInv, Distinct, PlansCurrent, PlansPaced, NEW r \in Runs, StampLead(r),
           NEW q \in Pending(r)'
    PROVE  PlanIsPaced(q, now[r])'
<1> DEFINE p == current[r]
<1>1. /\ p \in Pending(r) /\ p \in Plan
      /\ p.kind = "appointment_reminder" => KeepsTimes(leads[p.lead], leads'[p.lead])
      /\ \A m \in Leads \ {p.lead} : leads'[m] = leads[m]
  BY StampEffect, StampTimes
<1>2. now'[r] = now[r] /\ q \in todo[r] /\ q \in Pending(r)
  BY DEF StampLead, TypeOK, Pending
<1>3. PlanIsPaced(q, now[r]) /\ q.lead \in Leads /\ q.kind \in Kinds
  BY <1>2, PacedSplits, PendingType
<1>4. CASE q.lead # p.lead
  BY <1>1, <1>2, <1>3, <1>4, PacedKept DEF KeepsTimes
<1>5. CASE q.lead = p.lead /\ p.kind = "appointment_reminder"
  BY <1>1, <1>2, <1>3, <1>5, PacedKept
<1>6. CASE q.lead = p.lead /\ p.kind # "appointment_reminder"
  <2>1. q # p
    BY <1>2 DEF Distinct
  <2>2. q.kind = "appointment_reminder"
    BY <1>1, <1>2, <1>6, <2>1 DEF Distinct
  <2> QED BY <2>2 DEF PlanIsPaced
<1> QED BY <1>4, <1>5, <1>6

LEMMA PlansPacedStep ==
    ASSUME TypeOK, LockInv, Distinct, PlansCurrent, PlansPaced, RowsInv, [Next]_vars
    PROVE  PlansPaced'
<1>0. NowInv /\ NowInv' /\ \A s \in Runs : \A p \in Pending(s) : PlanIsPaced(p, now[s])
  BY PacedSplits, NowStep
<1> SUFFICES ASSUME NEW s \in Runs, NEW q \in Pending(s)'
             PROVE  PlanIsPaced(q, now[s])'
  BY <1>0, PacedSplits DEF PlanIsPaced, NowInv, PlansPaced
<1>1. CASE PaceFrame
  <2>1. q \in Pending(s) /\ now' = now
    BY <1>1 DEF PaceFrame, runVars, Pending
  <2>2. q.lead \in Leads
    BY <2>1, PendingType
  <2> QED BY <1>0, <1>1, <2>1, <2>2, PacedKept DEF PaceFrame
<1>2. ASSUME NEW r \in Runs, RunAction(r)
      PROVE  PlanIsPaced(q, now[s])'
  <2>1. CASE BeginRun(r) /\ s = r
    <3>1. /\ q \in todo'[r] /\ leads' = leads
      BY <2>1, BeginPending DEF Pending
    <3>2. now'[r] \in Nat /\ q \in BuiltPlans(now'[r])
      BY <1>0, <2>1, <3>1, BeginNow DEF TypeOK
    <3>3. PlanIsPaced(q, now'[r])
      BY <3>2, BuiltPaced
    <3> QED BY <2>1, <3>1, <3>3 DEF PlanIsPaced
  <2>2. CASE s # r /\ leads' = leads
    <3>1. q \in Pending(s) /\ now'[s] = now[s]
      BY <1>0, <1>2, <2>2, PendingOthers, NowKept, BeginNow
    <3> QED BY <1>0, <2>2, <3>1 DEF PlanIsPaced
  <2>3. CASE s = r /\ leads' = leads /\ ~BeginRun(r)
    <3>1. q \in Pending(s) /\ now'[s] = now[s]
      BY <1>2, <2>3, PendingShrinks, NowKept
    <3> QED BY <1>0, <2>3, <3>1 DEF PlanIsPaced
  <2>4. CASE StampLead(r)
    <3>1. s = r
      <4>1. holder = r
        BY <2>4 DEF StampLead, LockInv
      <4>2. s # r => Pending(s) = {}
        BY <4>1, OutsideIsEmpty
      <4> QED BY <1>2, <4>2, PendingOthers
    <3> QED BY <2>4, <3>1, StampPaced
  <2>5. leads' = leads \/ (StampLead(r) /\ ~BeginRun(r))
    BY <1>2, PendingShrinks, BeginPending DEF BeginRun, StampLead
  <2> QED BY <2>1, <2>2, <2>3, <2>4, <2>5
<1> QED BY <1>1, <1>2, PaceCases

LEMMA RowsStep ==
    ASSUME TypeOK, LockInv, Distinct, PlansCurrent, RowsInv, [Next]_vars
    PROVE  RowsInv'
<1>1. ASSUME NEW r \in Runs, RunAction(r)
      PROVE  RowsInv'
  <2>1. intakes' = intakes
    BY <1>1 DEF RunAction, RequestRun, BeginRun, RunStep, Deliver, SendFails, LogMessage,
                LogRejected, StampLead, FinishRun, AbortRun
  <2>2. CASE leads' = leads
    BY <2>1, <2>2 DEF RowsInv
  <2>3. CASE StampLead(r)
    BY <2>1, <2>3, StampTimes DEF RowsInv
  <2>4. leads' = leads \/ StampLead(r)
    BY <1>1, PendingShrinks, BeginPending
  <2> QED BY <2>2, <2>3, <2>4
<1> QED BY <1>1, PaceCases


-------------------------------------------------------------------------------
(* The budget of check-ins: each stamp takes a cooldown out of the time so far. *)

CheckIns == {"win_back"}

(* The check-ins of l whose stamp was written. *)
StampedCheckIns(l) ==
    winBacks[l] - slips[l]["win_back"] - (IF InFlight(l, CheckIns) THEN 1 ELSE 0)

LEMMA CheckInType ==
    ASSUME TypeOK, NEW l \in Leads
    PROVE  /\ winBacks[l] \in Nat /\ slips[l]["win_back"] \in Nat
           /\ StampedCheckIns(l) \in Int
           /\ leads[l].lastWinBackAt \in Times
           /\ Lifecycle!LastCheckIn(leads[l]) \in Nat
           /\ WinBackCooldownDays \in Nat \ {0}
<1>1. leads[l] \in LeadRecord /\ slips[l] \in [Kinds -> Nat] /\ winBacks[l] \in Nat
  BY DEF TypeOK
<1>2. leads[l].lastWinBackAt \in Times
  BY <1>1 DEF LeadRecord
<1>3. Lifecycle!LastCheckIn(leads[l]) \in Nat
  BY <1>2, SameRules DEF Lifecycle!LastCheckIn, Times
<1>4. slips[l]["win_back"] \in Nat
  BY <1>1 DEF Kinds
<1> QED BY <1>1, <1>2, <1>3, <1>4, PolicyAssumption DEF StampedCheckIns, PolicyAssumption

LEMMA CheckInSlip ==
    ASSUME TypeOK, NEW p \in Plan, NEW l \in Leads,
           slips' = [slips EXCEPT ![p.lead][p.kind] = @ + 1]
    PROVE  slips'[l]["win_back"] = slips[l]["win_back"]
               + (IF p.lead = l /\ p.kind = "win_back" THEN 1 ELSE 0)
<1>1. p.lead \in Leads /\ p.kind \in Kinds /\ slips \in [Leads -> [Kinds -> Nat]]
  BY DEF Plan, TypeOK
<1>2. \A k \in Kinds : slips'[l][k] = IF p.lead = l /\ p.kind = k
                                      THEN slips[l][k] + 1 ELSE slips[l][k]
  BY <1>1
<1> QED BY <1>1, <1>2 DEF Kinds

(* Only a check-in's stamp counts, and it bears a time a cooldown later.        *)
LEMMA CheckInCounts ==
    ASSUME TypeOK, TypeOK', LockInv, Distinct, PlansCurrent, PlansPaced, RowsInv, [Next]_vars,
           NEW l \in Leads
    PROVE  \/ /\ StampedCheckIns(l)' = StampedCheckIns(l)
              /\ leads'[l].lastWinBackAt = leads[l].lastWinBackAt
           \/ /\ StampedCheckIns(l)' = StampedCheckIns(l) + 1
              /\ leads'[l].lastWinBackAt \in 0 .. clock
              /\ leads'[l].lastWinBackAt
                     >= Lifecycle!LastCheckIn(leads[l]) + WinBackCooldownDays
<1>0. /\ winBacks[l] \in Nat /\ slips[l]["win_back"] \in Nat
      /\ StampedCheckIns(l) \in Int
  BY CheckInType
<1>1. CASE PaceFrame
  <2>1. winBacks' = winBacks /\ slips' = slips
        /\ (InFlight(l, CheckIns)' <=> InFlight(l, CheckIns))
        /\ leads'[l].lastWinBackAt = leads[l].lastWinBackAt
    BY <1>1 DEF PaceFrame, runVars, InFlight, KeepsTimes
  <2> QED BY <2>1 DEF StampedCheckIns
<1>2. ASSUME NEW r \in Runs, RunAction(r), leads' = leads,
             winBacks'[l] - slips'[l]["win_back"]
                 - (IF InFlight(l, CheckIns)' THEN 1 ELSE 0) = StampedCheckIns(l)
      PROVE  /\ StampedCheckIns(l)' = StampedCheckIns(l)
             /\ leads'[l].lastWinBackAt = leads[l].lastWinBackAt
  BY <1>2 DEF StampedCheckIns
<1>3. ASSUME NEW r \in Runs, RunAction(r),
             \/ RequestRun(r)
             \/ BeginRun(r)
             \/ \E p \in todo[r] : SendFails(r, p)
             \/ LogMessage(r)
             \/ FinishRun(r)
             \/ AbortRun(r) /\ pc[r] \notin Accounting
      PROVE  /\ StampedCheckIns(l)' = StampedCheckIns(l)
             /\ leads'[l].lastWinBackAt = leads[l].lastWinBackAt
  <2>1. /\ UNCHANGED <<leads, slips>>
        /\ InFlight(l, CheckIns)' <=> InFlight(l, CheckIns)
    BY <1>3, QuietStep
  <2>2. winBacks' = winBacks
    BY <1>3 DEF RequestRun, BeginRun, SendFails, LogMessage, FinishRun, AbortRun, history
  <2> QED BY <2>1, <2>2 DEF StampedCheckIns
<1>4. ASSUME NEW r \in Runs, NEW p \in todo[r], Deliver(r, p)
      PROVE  /\ StampedCheckIns(l)' = StampedCheckIns(l)
             /\ leads'[l].lastWinBackAt = leads[l].lastWinBackAt
  <2>1. /\ UNCHANGED <<leads, slips>> /\ p.lead \in Leads
        /\ ~InFlight(l, CheckIns)
        /\ InFlight(l, CheckIns)' <=> p.lead = l /\ p.kind \in CheckIns
    BY <1>4, DeliverStep
  <2>2. winBacks'[l] = IF p.lead = l /\ p.kind = "win_back"
                       THEN winBacks[l] + 1 ELSE winBacks[l]
    BY <1>4, <2>1 DEF Deliver, TypeOK
  <2> QED BY <1>0, <2>1, <2>2 DEF StampedCheckIns, CheckIns
<1>5. ASSUME NEW r \in Runs,
             \/ LogRejected(r)
             \/ StampLead(r)
             \/ AbortRun(r) /\ pc[r] \in Accounting
      PROVE  \/ /\ StampedCheckIns(l)' = StampedCheckIns(l)
                /\ leads'[l].lastWinBackAt = leads[l].lastWinBackAt
             \/ /\ StampedCheckIns(l)' = StampedCheckIns(l) + 1
                /\ leads'[l].lastWinBackAt \in 0 .. clock
                /\ leads'[l].lastWinBackAt
                       >= Lifecycle!LastCheckIn(leads[l]) + WinBackCooldownDays
  <2> DEFINE p == current[r]
  <2>1. /\ p \in Plan /\ p \in Pending(r) /\ p.lead \in Leads /\ p.kind \in Kinds
        /\ InFlight(l, CheckIns) <=> p.lead = l /\ p.kind \in CheckIns
        /\ ~InFlight(l, CheckIns)'
        /\ \/ /\ leads' = leads
              /\ slips' = [slips EXCEPT ![p.lead][p.kind] = @ + 1]
           \/ /\ StampLead(r) /\ StampApplies(p)
              /\ slips' = slips
    BY <1>5, AccountStep
  <2>2. winBacks' = winBacks
    BY <1>5 DEF LogRejected, StampLead, AbortRun
  <2>3. CASE leads' = leads /\ slips' = [slips EXCEPT ![p.lead][p.kind] = @ + 1]
    <3> HIDE DEF p
    <3>1. slips'[l]["win_back"] = slips[l]["win_back"]
              + (IF p.lead = l /\ p.kind = "win_back" THEN 1 ELSE 0)
      BY <2>1, <2>3, CheckInSlip
    <3> QED BY <1>0, <2>1, <2>2, <2>3, <3>1 DEF StampedCheckIns, CheckIns
  <2>4. CASE StampLead(r) /\ StampApplies(p) /\ slips' = slips
    <3>1. /\ p.lead = l /\ p.kind = "win_back" => leads'[l].lastWinBackAt = now[r]
          /\ ~(p.lead = l /\ p.kind = "win_back") =>
                 leads'[l].lastWinBackAt = leads[l].lastWinBackAt
      BY <2>1, <2>4, StampTimes
    <3>2. CASE p.lead = l /\ p.kind = "win_back"
      <4>1. now[r] - Lifecycle!LastCheckIn(leads[l]) >= WinBackCooldownDays
        BY <2>1, <3>2 DEF PlansPaced
      <4>2. now[r] \in 0 .. clock
        <5>1. now[r] # Never
          BY <2>4 DEF StampLead, PlansPaced
        <5> QED BY <5>1, NowHasCome
      <4>3. StampedCheckIns(l)' = StampedCheckIns(l) + 1
        BY <1>0, <2>1, <2>2, <2>4, <3>2 DEF StampedCheckIns, CheckIns
      <4> QED BY <3>1, <3>2, <4>1, <4>2, <4>3, CheckInType
    <3>3. CASE ~(p.lead = l /\ p.kind = "win_back")
      <4>1. StampedCheckIns(l)' = StampedCheckIns(l)
        BY <1>0, <2>1, <2>2, <2>4, <3>3 DEF StampedCheckIns, CheckIns
      <4> QED BY <3>1, <3>3, <4>1
    <3> QED BY <3>2, <3>3
  <2> QED BY <2>1, <2>3, <2>4
<1> QED BY <1>1, <1>3, <1>4, <1>5, PaceCases, RunCases

LEMMA WinBackBudgetStep ==
    ASSUME TypeOK, TypeOK', LockInv, Distinct, PlansCurrent, PlansPaced, RowsInv, WinBackBudget,
           [Next]_vars
    PROVE  WinBackBudget'
<1> SUFFICES ASSUME NEW l \in Leads
             PROVE  /\ Lifecycle!LastCheckIn(leads'[l]) <= clock'
                    /\ StampedCheckIns(l)' * WinBackCooldownDays
                           <= Lifecycle!LastCheckIn(leads'[l])
  BY DEF WinBackBudget, StampedCheckIns, CheckIns
<1>0. /\ Lifecycle!LastCheckIn(leads[l]) <= clock
      /\ StampedCheckIns(l) * WinBackCooldownDays <= Lifecycle!LastCheckIn(leads[l])
      /\ StampedCheckIns(l) \in Int
      /\ Lifecycle!LastCheckIn(leads[l]) \in Nat /\ leads[l].lastWinBackAt \in Times
      /\ WinBackCooldownDays \in Nat
  BY CheckInType DEF WinBackBudget, StampedCheckIns, CheckIns
<1>1. clock \in Nat /\ clock' \in Nat /\ clock' >= clock
  <2>1. ASSUME NEW r \in Runs, RunAction(r)
        PROVE  clock' = clock
    BY <2>1 DEF RunAction, RequestRun, BeginRun, RunStep, Deliver, SendFails, LogMessage,
                LogRejected, StampLead, FinishRun, AbortRun
  <2>2. clock' \in {clock, clock + 1}
    BY <2>1, PaceCases DEF PaceFrame
  <2> QED BY <2>2 DEF TypeOK
<1>2. CASE /\ StampedCheckIns(l)' = StampedCheckIns(l)
           /\ leads'[l].lastWinBackAt = leads[l].lastWinBackAt
  <2>1. Lifecycle!LastCheckIn(leads'[l]) = Lifecycle!LastCheckIn(leads[l])
    BY <1>2 DEF Lifecycle!LastCheckIn
  <2> QED BY <1>0, <1>1, <1>2, <2>1
<1>3. CASE /\ StampedCheckIns(l)' = StampedCheckIns(l) + 1
           /\ leads'[l].lastWinBackAt \in 0 .. clock
           /\ leads'[l].lastWinBackAt
                  >= Lifecycle!LastCheckIn(leads[l]) + WinBackCooldownDays
  <2>1. Lifecycle!LastCheckIn(leads'[l]) = leads'[l].lastWinBackAt
    BY <1>1, <1>3, SameRules DEF Lifecycle!LastCheckIn, Never
  <2>2. (StampedCheckIns(l) + 1) * WinBackCooldownDays
            = StampedCheckIns(l) * WinBackCooldownDays + WinBackCooldownDays
    <3>1. \A s \in Int, c \in Nat : (s + 1) * c = s * c + c
      OBVIOUS
    <3> QED BY <1>0, <3>1
  <2>3. StampedCheckIns(l) * WinBackCooldownDays \in Int
    BY <1>0
  <2> QED BY <1>0, <1>1, <1>3, <2>1, <2>2, <2>3
<1> QED BY <1>2, <1>3, CheckInCounts


-------------------------------------------------------------------------------
(* The theorems. *)

LEMMA InitPaced == Init => TypeOK /\ RunsAreCurrent /\ RunsArePaced /\ Lifecycle!Init
<1> SUFFICES ASSUME Init
             PROVE  TypeOK /\ RunsAreCurrent /\ RunsArePaced /\ Lifecycle!Init
  OBVIOUS
<1>1. TypeOK /\ RunsAreCurrent
  BY InitInv
<1>2. /\ \A r \in Runs : now[r] = Never /\ pc[r] = "idle" /\ Pending(r) = {}
      /\ clock = 0 /\ leads = [l \in Leads |-> BlankLead]
      /\ \A l \in Leads : /\ intakes[l] = {} /\ winBacks[l] = 0
                          /\ slips[l]["win_back"] = 0 /\ ~InFlight(l, {"win_back"})
  BY DEF Init, Pending, InFlight, Kinds
<1>3. PlansPaced
  BY <1>2 DEF PlansPaced, Never
<1>4. RowsInv
  BY <1>2 DEF RowsInv, BlankLead
<1>5. WinBackBudget
  <2>1. \A l \in Leads : Lifecycle!LastCheckIn(leads[l]) = 0
    BY <1>2, SameRules DEF Lifecycle!LastCheckIn, BlankLead
  <2> QED BY <1>2, <2>1, PolicyAssumption DEF WinBackBudget, PolicyAssumption
<1>6. Lifecycle!Init
  BY <1>2, SameRules DEF Lifecycle!Init
<1> QED BY <1>1, <1>3, <1>4, <1>5, <1>6 DEF RunsArePaced

(* The inductive invariant: what runs hold, and the pace they keep.             *)
PacedInv == TypeOK /\ RunsAreCurrent /\ RunsArePaced

LEMMA PacedStep ==
    PacedInv /\ [Next]_vars => PacedInv' /\ [Lifecycle!Next]_<<leads, clock>>
<1> SUFFICES ASSUME PacedInv, [Next]_vars
             PROVE  PacedInv' /\ [Lifecycle!Next]_<<leads, clock>>
  OBVIOUS
<1>1. TypeOK' /\ RunsAreCurrent'
  BY InvStep DEF PacedInv
<1>2. RunsArePaced'
  BY <1>1, PlansPacedStep, RowsStep, WinBackBudgetStep
     DEF PacedInv, RunsAreCurrent, RunsArePaced
<1>3. [Lifecycle!Next]_<<leads, clock>>
  BY StepIsStep DEF PacedInv, RunsAreCurrent, RunsArePaced
<1> QED BY <1>1, <1>2, <1>3 DEF PacedInv

LEMMA PacedAlways == Spec => []PacedInv
<1>1. Init => PacedInv
  BY InitPaced DEF PacedInv
<1>2. PacedInv /\ [Next]_vars => PacedInv'
  BY PacedStep
<1> QED BY <1>1, <1>2, PTL DEF Spec

(* The times a run decided by are still the row's when it writes its stamp:      *)
(* nothing but a run moves lastContactedAt and lastWinBackAt, and a run holds    *)
(* the tenant lock from its snapshot to its last stamp (workflow.ts runTenant).  *)
(* So the intervals and cooldowns its filters judged are over for the row, too.  *)
THEOREM PaceIsKept == Spec => []RunsArePaced
<1>1. PacedInv => RunsArePaced
  BY DEF PacedInv
<1> QED BY <1>1, PacedAlways, PTL

(* The workflow decides from a snapshot, sends, logs and then stamps, while       *)
(* replies, requests, bookings and deletions write the same rows without the     *)
(* lock.  Every row nevertheless goes through the steps of LeadLifecycle only,   *)
(* each as if it had read and written the row at once.                           *)
THEOREM OutreachImplementsLifecycle == Spec => ImplementsLifecycle
<1>1. Init => Lifecycle!Init
  BY InitPaced
<1>2. PacedInv /\ [Next]_vars => [Lifecycle!Next]_<<leads, clock>>
  BY PacedStep
<1> QED BY <1>1, <1>2, PacedAlways, PTL DEF Spec, ImplementsLifecycle, Lifecycle!Spec

(* A past customer hears no more than one check-in per cooldown (workflow.ts      *)
(* sendWinBackPlans, winback.ts isDueForWinBack), however many runs there are,    *)
(* but for check-ins whose stamp was lost.                                       *)
THEOREM WinBacksKeepTheirCooldown == Spec => []WinBackRateBounded
<1>1. PacedInv => WinBackRateBounded
  <2> SUFFICES ASSUME PacedInv, NEW l \in Leads
               PROVE  winBacks[l] - slips[l]["win_back"] <= clock \div WinBackCooldownDays
    BY DEF WinBackRateBounded
  <2> DEFINE n == StampedCheckIns(l)
             last == Lifecycle!LastCheckIn(leads[l])
             c == WinBackCooldownDays
  <2>0. /\ n \in Int /\ last \in Nat /\ c \in Nat \ {0} /\ clock \in Nat
        /\ last <= clock /\ n * c <= last
        /\ winBacks[l] \in Nat /\ slips[l]["win_back"] \in Nat
    BY CheckInType DEF PacedInv, RunsArePaced, WinBackBudget, StampedCheckIns, CheckIns, TypeOK
  <2>1. \A s \in Int, d \in Nat \ {0}, x \in Nat : s * d <= x => s <= x \div d
    OBVIOUS
  <2>2. CASE ~InFlight(l, CheckIns)
    <3>1. winBacks[l] - slips[l]["win_back"] = n
      BY <2>0, <2>2 DEF StampedCheckIns
    <3> HIDE DEF n, last, c
    <3>2. n * c \in Int
      BY <2>0
    <3>3. n * c <= clock
      BY <2>0, <3>2
    <3>4. n <= clock \div c
      BY <2>0, <2>1, <3>3
    <3> QED BY <3>1, <3>4 DEF c
  <2>3. CASE InFlight(l, CheckIns)
    <3>1. winBacks[l] - slips[l]["win_back"] = n + 1
      BY <2>0, <2>3 DEF StampedCheckIns
    <3>2. PICK r \in Runs : /\ pc[r] \in Accounting
                            /\ current[r].lead = l /\ current[r].kind = "win_back"
      BY <2>3 DEF InFlight, CheckIns, Accounting
    <3>3. current[r] \in Pending(r)
      BY <3>2, CurrentType DEF Accounting, PacedInv, RunsAreCurrent
    <3>4. now[r] - last >= c /\ now[r] <= clock /\ now[r] \in Int
      BY <3>2, <3>3 DEF PacedInv, RunsArePaced, PlansPaced, TypeOK, Times, Never
    <3> HIDE DEF n, last, c
    <3>5. last + c <= clock
      BY <2>0, <3>4
    <3>6. (n + 1) * c = n * c + c
      <4>1. \A s \in Int, d \in Nat : (s + 1) * d = s * d + d
        OBVIOUS
      <4> QED BY <2>0, <4>1
    <3>7. n * c \in Int
      BY <2>0
    <3>8. (n + 1) * c <= clock
      BY <2>0, <3>5, <3>6, <3>7
    <3>9. n + 1 <= clock \div c
      BY <2>0, <2>1, <3>8
    <3> QED BY <3>1, <3>9 DEF c
  <2> QED BY <2>2, <2>3
<1> QED BY <1>1, PacedAlways, PTL
===============================================================================
