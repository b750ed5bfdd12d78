---------------------------- MODULE OutreachProofs ----------------------------
(***************************************************************************)
(* Theorems about Outreach, for every set of leads and runs, every sequence *)
(* of follow-up intervals, every quiet-hours window and every bound.        *)
(***************************************************************************)
EXTENDS Outreach, TLAPS

-------------------------------------------------------------------------------
(* Types of what a run builds and writes.                                    *)

LEMMA PlanForType ==
    ASSUME TypeOK, NEW kind \in Kinds, NEW l \in Leads
    PROVE  PlanFor(kind, l) \in Plan
  BY DEF TypeOK, PlanFor, Plan, LeadRecord

LEMMA BuiltPlansType ==
    ASSUME TypeOK, NEW t
    PROVE  BuiltPlans(t) \subseteq Plan
  BY PlanForType DEF BuiltPlans, Stored, Kinds

LEMMA StampedType ==
    ASSUME NEW lead \in LeadRecord, NEW p \in Plan, NEW t \in Times,
           p.kind = "follow_up" => p.followUpCount < MaxFollowUps
    PROVE  Stamped(lead, p, t) \in LeadRecord
  <1> USE DEF Plan, LeadRecord, Stamped
  <1>0. 0 \in 0 .. MaxFollowUps
    BY PolicyAssumption DEF PolicyAssumption
  <1>1. CASE p.kind = "initial"
    BY <1>0, <1>1 DEF Statuses
  <1>2. CASE p.kind = "follow_up"
    <2>1. p.followUpCount + 1 \in 0 .. MaxFollowUps
      BY <1>2, PolicyAssumption DEF PolicyAssumption
    <2> QED
      BY <1>2, <2>1 DEF Statuses
  <1>3. CASE p.kind = "appointment_reminder"
    BY <1>3
  <1>4. CASE p.kind = "win_back"
    BY <1>4
  <1> QED
    BY <1>1, <1>2, <1>3, <1>4 DEF Kinds

(* The edits the other writers make keep a row a row.                         *)
LEMMA RowCreated ==
    ASSUME NEW lead \in LeadRecord, NEW withdrawn \in BOOLEAN,
           NEW booked \in BOOLEAN, NEW at \in Times
    PROVE  [lead EXCEPT !.row = "stored", !.withdrawn = withdrawn,
                        !.booked = booked, !.appointmentAt = at] \in LeadRecord
  BY DEF LeadRecord

LEMMA RowConverted ==
    ASSUME NEW lead \in LeadRecord, NEW at \in Times, NEW optIn \in BOOLEAN
    PROVE  [lead EXCEPT !.status = "converted", !.convertedAt = at,
                        !.marketingOptIn = optIn] \in LeadRecord
  <1>1. "converted" \in Statuses
    BY DEF Statuses
  <1> QED
    BY <1>1 DEF LeadRecord

LEMMA RowConsent ==
    ASSUME NEW lead \in LeadRecord, NEW withdrawn \in BOOLEAN,
           NEW optIn \in BOOLEAN
    PROVE  [lead EXCEPT !.withdrawn = withdrawn,
                        !.marketingOptIn = optIn] \in LeadRecord
  BY DEF LeadRecord

LEMMA RowBooked ==
    ASSUME NEW lead \in LeadRecord, NEW booked \in BOOLEAN, NEW at \in Times
    PROVE  /\ [lead EXCEPT !.booked = booked, !.appointmentAt = at] \in LeadRecord
           /\ [lead EXCEPT !.booked = booked, !.appointmentAt = at,
                           !.reminderSent = FALSE] \in LeadRecord
  BY DEF LeadRecord

LEMMA RowAppointment ==
    ASSUME NEW lead \in LeadRecord
    PROVE  lead.appointmentAt \in Times
  BY DEF LeadRecord

-------------------------------------------------------------------------------
(* Type correctness.                                                         *)

(* Between a delivery and its stamp a run accounts for a plan.                *)
LEMMA CurrentType ==
    ASSUME TypeOK, LockInv, NEW r \in Runs, pc[r] \in {"delivered", "logged"}
    PROVE  current[r] \in Plan /\ current[r] \in Pending(r)
  BY DEF TypeOK, LockInv, Pending

LEMMA SlipType ==
    ASSUME TypeOK, LockInv, NEW r \in Runs, Slip(r)
    PROVE  slips' \in [Leads -> [Kinds -> Nat]]
  <1>1. CASE pc[r] \in {"delivered", "logged"}
    <2>1. current[r] \in Plan
      BY <1>1, CurrentType
    <2>2. current[r].lead \in Leads /\ current[r].kind \in Kinds
      BY <2>1 DEF Plan
    <2> QED
      BY <1>1, <2>2 DEF TypeOK, Slip
  <1>2. CASE pc[r] \notin {"delivered", "logged"}
    BY <1>2 DEF TypeOK, Slip
  <1> QED
    BY <1>1, <1>2

LEMMA LeaveType ==
    ASSUME TypeOK, NEW r \in Runs, Leave(r)
    PROVE  /\ holder' \in Runs \cup {NoRun}
           /\ pc' \in [Runs -> {"idle", "waiting", "sending", "delivered", "logged"}]
           /\ now' \in [Runs -> Times]
           /\ todo' \in [Runs -> SUBSET Plan]
           /\ current' \in [Runs -> Plan \cup {NoPlan}]
  BY DEF TypeOK, Leave, Times

LEMMA OperatorType ==
    ASSUME TypeOK, UseOperatorAct
    PROVE  spent' \in Spent
  <1>1. spent.operator + 1 \in 0 .. MaxOperatorActs
    BY OutreachAssumption DEF TypeOK, UseOperatorAct, Spent, OutreachAssumption
  <1>2. spent \in Spent
    BY DEF TypeOK
  <1> QED
    BY <1>1, <1>2 DEF Spent, UseOperatorAct

LEMMA WriterType ==
    ASSUME TypeOK, NEW l \in Leads, Writer(l)
    PROVE  TypeOK'
  <1> USE OutreachAssumption DEF OutreachAssumption
  <1>0. leads \in [Leads -> LeadRecord] /\ clock \in Times /\ Slots \subseteq Times
    BY DEF TypeOK, Times
  <1>1. ASSUME NEW withdrawn \in BOOLEAN, NEW booked \in BOOLEAN,
               NEW at \in Slots \cup {Never},
               CreateLead(l, withdrawn, booked, at)
        PROVE  TypeOK'
    <2>1. spent' \in Spent
      BY <1>1 DEF TypeOK, CreateLead
    <2>2. leads' \in [Leads -> LeadRecord]
      <3>1. leads[l] \in LeadRecord /\ at \in Times
        BY <1>0 DEF Times
      <3>2. [leads[l] EXCEPT !.row = "stored", !.withdrawn = withdrawn,
                             !.booked = booked, !.appointmentAt = at]
              \in LeadRecord
        BY <3>1, RowCreated, Zenon
      <3> QED
        BY <1>0, <1>1, <3>2 DEF CreateLead
    <2> QED
      BY <1>1, <2>1, <2>2 DEF TypeOK, CreateLead, runVars, history, Times
  <1>2. ASSUME NEW class \in ReplyClasses, InboundReply(l, class)
        PROVE  TypeOK'
    <2>1. StatusAfter(class) \in Statuses
      BY DEF ReplyClasses, StatusAfter, Statuses
    <2>2. spent' \in Spent
      <3>1. spent.replies + 1 \in 0 .. MaxReplies
        BY <1>2 DEF TypeOK, InboundReply, Spent
      <3> QED
        BY <1>2, <3>1 DEF TypeOK, InboundReply, Spent
    <2>3. leads' \in [Leads -> LeadRecord]
      BY <1>0, <1>2, <2>1 DEF InboundReply, LeadRecord
    <2> QED
      BY <1>2, <2>2, <2>3 DEF TypeOK, InboundReply, runVars, history, Times
  <1>3. ASSUME NEW optIn \in BOOLEAN, Convert(l, optIn)
        PROVE  TypeOK'
    <2>1. spent' \in Spent
      BY <1>3, OperatorType DEF Convert
    <2>2. leads' \in [Leads -> LeadRecord]
      <3>1. [leads[l] EXCEPT !.status = "converted", !.convertedAt = clock,
                              !.marketingOptIn = optIn]
              \in LeadRecord
        BY <1>0, RowConverted, Zenon
      <3> QED
        BY <1>0, <1>3, <3>1 DEF Convert
    <2> QED
      BY <1>3, <2>1, <2>2 DEF TypeOK, Convert, runVars, history, Times
  <1>4. ASSUME NEW withdrawn \in BOOLEAN, NEW optIn \in BOOLEAN,
               PatchConsent(l, withdrawn, optIn)
        PROVE  TypeOK'
    <2>1. spent' \in Spent
      BY <1>4, OperatorType DEF PatchConsent
    <2>2. leads' \in [Leads -> LeadRecord]
      <3>1. [leads[l] EXCEPT !.withdrawn = withdrawn,
                              !.marketingOptIn = optIn]
              \in LeadRecord
        BY <1>0, RowConsent, Zenon
      <3> QED
        BY <1>0, <1>4, <3>1 DEF PatchConsent
    <2> QED
      BY <1>4, <2>1, <2>2 DEF TypeOK, PatchConsent, runVars, history, Times
  <1>5. ASSUME NEW booked \in BOOLEAN, NEW at \in Slots \cup {Never},
               SetAppointment(l, booked, at)
        PROVE  TypeOK'
    <2>1. spent' \in Spent
      BY <1>5, OperatorType DEF SetAppointment
    <2>2. leads' \in [Leads -> LeadRecord]
      <3>1. leads[l] \in LeadRecord /\ at \in Times
        BY <1>0 DEF Times
      <3>2. [leads[l] EXCEPT !.booked = booked, !.appointmentAt = at,
                             !.reminderSent = FALSE]
              \in LeadRecord
        BY <3>1, RowBooked, Zenon
      <3> QED
        BY <1>0, <1>5, <3>2 DEF SetAppointment
    <2> QED
      BY <1>5, <2>1, <2>2 DEF TypeOK, SetAppointment, runVars, history, Times
  <1>6. ASSUME NEW booked \in BOOLEAN, SetBooked(l, booked)
        PROVE  TypeOK'
    <2>1. spent' \in Spent
      BY <1>6, OperatorType DEF SetBooked
    <2>2. leads' \in [Leads -> LeadRecord]
      BY <1>0, <1>6 DEF SetBooked, LeadRecord
    <2> QED
      BY <1>6, <2>1, <2>2 DEF TypeOK, SetBooked, runVars, history, Times
  <1>7. CASE IntakeRead(l)
    <2>1. spent' \in Spent
      BY <1>7, OperatorType DEF IntakeRead
    <2>2. leads' \in [Leads -> LeadRecord]
      BY <1>0, <1>7 DEF IntakeRead, LeadRecord
    <2>3. intakes' \in [Leads -> SUBSET Times]
      <3>1. leads[l].appointmentAt \in Times
        BY <1>0, RowAppointment
      <3> QED
        BY <1>7, <3>1 DEF TypeOK, IntakeRead
    <2> QED
      BY <1>7, <2>1, <2>2, <2>3 DEF TypeOK, IntakeRead, runVars, history, Times
  <1>8. ASSUME NEW seen \in intakes[l], NEW booked \in BOOLEAN,
               NEW at \in Slots \cup intakes[l], IntakeWrite(l, seen, booked, at)
        PROVE  TypeOK'
    <2>1. spent' \in Spent
      BY <1>8 DEF TypeOK, IntakeWrite
    <2>2. leads' \in [Leads -> LeadRecord]
      <3>1. at \in Times
        BY <1>0 DEF TypeOK
      <3> QED
        <4>1. [leads[l] EXCEPT !.booked = booked, !.appointmentAt = at]
                \in LeadRecord
          BY <1>0, <3>1, RowBooked, Zenon
        <4> QED
          BY <1>0, <1>8, <4>1 DEF IntakeWrite
    <2>3. reminders' \in [Leads -> Nat]
      <3>1. CASE leads[l].row = "stored"
        <4>1. reminders' = [reminders EXCEPT ![l] =
                               IF at = leads[l].appointmentAt THEN @ ELSE 0]
          BY <1>8, <3>1 DEF IntakeWrite
        <4> QED BY <4>1 DEF TypeOK
      <3>2. CASE leads[l].row # "stored"
        BY <1>8, <3>2 DEF TypeOK, IntakeWrite
      <3> QED
        BY <3>1, <3>2
    <2>4. intakes' \in [Leads -> SUBSET Times]
      BY <1>8 DEF TypeOK, IntakeWrite
    <2>5. clock' \in Nat
      BY <1>8 DEF TypeOK, IntakeWrite
    <2>6. UNCHANGED <<runVars, delivered, slips, afterStop, winBacks, answered, tried>>
      BY <1>8 DEF IntakeWrite
    <2> QED
      BY <2>1, <2>2, <2>3, <2>4, <2>5, <2>6 DEF TypeOK, runVars
  <1>9. CASE DeleteLead(l)
    <2>1. spent' \in Spent
      BY <1>9, OperatorType DEF DeleteLead
    <2>2. leads' \in [Leads -> LeadRecord]
      BY <1>0, <1>9 DEF DeleteLead, LeadRecord
    <2> QED
      BY <1>9, <2>1, <2>2 DEF TypeOK, DeleteLead, runVars, history, Times
  <1> QED
    BY <1>1, <1>2, <1>3, <1>4, <1>5, <1>6, <1>7, <1>8, <1>9 DEF Writer

LEMMA RunType ==
    ASSUME TypeOK, LockInv, PlansCurrent, NEW r \in Runs,
           RequestRun(r) \/ BeginRun(r) \/ RunStep(r) \/ AbortRun(r)
    PROVE  TypeOK'
  <1>1. CASE RequestRun(r)
    BY <1>1 DEF TypeOK, RequestRun, history, Times
  <1>2. CASE BeginRun(r)
    <2> DEFINE t == IF r \in Ticks THEN now[r] ELSE clock
               plans == {p \in BuiltPlans(t) : ~IsDeferred(p, t)}
    <2>1. t \in Times
      BY DEF TypeOK, Times
    <2>2. plans \in SUBSET Plan
      BY BuiltPlansType
    <2> HIDE DEF t, plans
    <2>3. /\ holder' = r
          /\ pc' = [pc EXCEPT ![r] = "sending"]
          /\ now' = [now EXCEPT ![r] = t]
          /\ todo' = [todo EXCEPT ![r] = plans]
          /\ UNCHANGED <<leads, clock, current, intakes, spent>>
          /\ UNCHANGED history
      BY <1>2 DEF BeginRun, t, plans
    <2> QED
      BY <2>1, <2>2, <2>3 DEF TypeOK, history
  <1>3. ASSUME NEW p \in todo[r], Deliver(r, p)
        PROVE  TypeOK'
    <2>1. p \in Plan /\ p.lead \in Leads
      BY DEF TypeOK, Plan
    <2>2. /\ holder' \in Runs \cup {NoRun}
          /\ pc' \in [Runs -> {"idle", "waiting", "sending", "delivered", "logged"}]
          /\ now' \in [Runs -> Times]
          /\ todo' \in [Runs -> SUBSET Plan]
          /\ current' \in [Runs -> Plan \cup {NoPlan}]
      BY <1>3, <2>1 DEF TypeOK, Deliver
    <2>3. /\ leads' \in [Leads -> LeadRecord]
          /\ clock' \in Nat
          /\ intakes' \in [Leads -> SUBSET Times]
          /\ spent' \in Spent
          /\ slips' \in [Leads -> [Kinds -> Nat]]
          /\ answered' \in [Leads -> BOOLEAN]
      BY <1>3 DEF TypeOK, Deliver
    <2>4. /\ delivered' \in [Leads -> Nat]
          /\ afterStop' \in [Leads -> Nat]
          /\ reminders' \in [Leads -> Nat]
          /\ winBacks' \in [Leads -> Nat]
      BY <1>3, <2>1 DEF TypeOK, Deliver
    <2>5. tried' \in [Leads -> BOOLEAN]
      BY <1>3, <2>1 DEF TypeOK, Deliver
    <2> QED
      BY <2>2, <2>3, <2>4, <2>5 DEF TypeOK
  <1>4. ASSUME NEW p \in todo[r], SendFails(r, p)
        PROVE  TypeOK'
    BY <1>4 DEF TypeOK, SendFails, Plan
  <1>5. CASE LogMessage(r)
    BY <1>5 DEF TypeOK, LogMessage, history
  <1>6. CASE LogRejected(r)
    <2>1. slips' \in [Leads -> [Kinds -> Nat]]
      BY <1>6, SlipType DEF LogRejected
    <2>2. Leave(r)
      BY <1>6 DEF LogRejected
    <2> QED
      BY <1>6, <2>1, <2>2, LeaveType DEF TypeOK, LogRejected
  <1>7. CASE StampLead(r)
    <2> DEFINE p == current[r]
    <2>1. p \in Plan /\ p \in Pending(r) /\ p.lead \in Leads
      BY <1>7, CurrentType DEF StampLead, Plan
    <2>2. leads' \in [Leads -> LeadRecord]
      <3>1. leads[p.lead] \in LeadRecord /\ now[r] \in Times
        BY <2>1 DEF TypeOK
      <3>2. Stamped(leads[p.lead], p, now[r]) \in LeadRecord
        BY <2>1, <3>1, StampedType DEF PlansCurrent
      <3> QED
        BY <1>7, <3>2 DEF TypeOK, StampLead
    <2>3. slips' \in [Leads -> [Kinds -> Nat]]
      BY <1>7, SlipType DEF TypeOK, StampLead
    <2> QED
      BY <1>7, <2>2, <2>3 DEF TypeOK, StampLead
  <1>8. CASE FinishRun(r)
    <2>1. Leave(r)
      BY <1>8 DEF FinishRun
    <2> QED
      BY <1>8, <2>1, LeaveType DEF TypeOK, FinishRun, history
  <1>9. CASE AbortRun(r)
    <2>1. slips' \in [Leads -> [Kinds -> Nat]]
      BY <1>9, SlipType DEF AbortRun
    <2>2. Leave(r)
      BY <1>9 DEF AbortRun
    <2>3. spent' \in Spent
      <3>1. spent.faults + 1 \in 0 .. MaxFaults
        BY <1>9, OutreachAssumption DEF TypeOK, AbortRun, Spent, OutreachAssumption
      <3>2. spent \in Spent
        BY DEF TypeOK
      <3> QED
        BY <1>9, <3>1, <3>2 DEF AbortRun, Spent
    <2> QED
      BY <1>9, <2>1, <2>2, <2>3, LeaveType DEF TypeOK, AbortRun
  <1> QED
    BY <1>1, <1>2, <1>3, <1>4, <1>5, <1>6, <1>7, <1>8, <1>9 DEF RunStep

LEMMA TypeStep ==
    ASSUME TypeOK, LockInv, PlansCurrent, [Next]_vars
    PROVE  TypeOK'
  <1>1. ASSUME NEW r \in Runs,
               RequestRun(r) \/ BeginRun(r) \/ RunStep(r) \/ AbortRun(r)
        PROVE  TypeOK'
    BY <1>1, RunType
  <1>2. ASSUME NEW l \in Leads, Writer(l)
        PROVE  TypeOK'
    BY <1>2, WriterType
  <1>3. CASE AdvanceClock
    BY <1>3 DEF TypeOK, AdvanceClock, runVars, history
  <1>4. CASE UNCHANGED vars
    BY <1>4 DEF TypeOK, vars
  <1> QED
    BY <1>1, <1>2, <1>3, <1>4 DEF Next

-------------------------------------------------------------------------------
(* Who holds the lock, and what a snapshot holds.                            *)

RunAction(r) == RequestRun(r) \/ BeginRun(r) \/ RunStep(r) \/ AbortRun(r)

LEMMA OutsideIsEmpty ==
    ASSUME TypeOK, LockInv, NEW r \in Runs, holder # r
    PROVE  Pending(r) = {} /\ current[r] = NoPlan
  BY DEF LockInv, Pending

(* A run that leaves gives up the lock and all its plans. *)
LEMMA LeaveLock ==
    ASSUME TypeOK, LockInv, NEW r \in Runs, Leave(r)
    PROVE  LockInv'
  <1>1. /\ pc'[r] = "idle" /\ \A s \in Runs \ {r} : pc'[s] = pc[s]
        /\ todo'[r] = {} /\ \A s \in Runs \ {r} : todo'[s] = todo[s]
        /\ current'[r] = NoPlan /\ \A s \in Runs \ {r} : current'[s] = current[s]
    BY DEF Leave, TypeOK
  <1>2. holder' # r /\ \A s \in Runs \ {r} : holder' = s <=> holder = s
    BY OutreachAssumption DEF Leave, OutreachAssumption
  <1> QED
    BY <1>1, <1>2 DEF LockInv

(* No writer touches a run. *)
LEMMA WriterKeepsRuns ==
    ASSUME NEW l \in Leads, Writer(l)
    PROVE  UNCHANGED runVars
  <1>1. ASSUME NEW withdrawn \in BOOLEAN, NEW booked \in BOOLEAN,
               NEW at \in Slots \cup {Never},
               CreateLead(l, withdrawn, booked, at) \/ SetAppointment(l, booked, at)
        PROVE  UNCHANGED runVars
    BY <1>1 DEF CreateLead, SetAppointment
  <1>2. ASSUME NEW class \in ReplyClasses, InboundReply(l, class)
        PROVE  UNCHANGED runVars
    BY <1>2 DEF InboundReply
  <1>3. ASSUME NEW withdrawn \in BOOLEAN, NEW optIn \in BOOLEAN,
               Convert(l, optIn) \/ PatchConsent(l, withdrawn, optIn) \/ SetBooked(l, optIn)
        PROVE  UNCHANGED runVars
    BY <1>3 DEF Convert, PatchConsent, SetBooked
  <1>4. CASE IntakeRead(l) \/ DeleteLead(l)
    BY <1>4 DEF IntakeRead, DeleteLead
  <1>5. ASSUME NEW seen, NEW booked, NEW at, IntakeWrite(l, seen, booked, at)
        PROVE  UNCHANGED runVars
    BY <1>5 DEF IntakeWrite
  <1> QED
    BY <1>1, <1>2, <1>3, <1>4, <1>5 DEF Writer

LEMMA LockUntouched ==
    ASSUME LockInv, UNCHANGED runVars
    PROVE  LockInv'
  BY DEF runVars, LockInv

LEMMA LockStep ==
    ASSUME TypeOK, LockInv, [Next]_vars
    PROVE  LockInv'
  <1> USE OutreachAssumption DEF OutreachAssumption
  <1>1. ASSUME NEW r \in Runs, RunAction(r)
        PROVE  LockInv'
    <2>1. CASE RequestRun(r)
      BY <2>1 DEF TypeOK, LockInv, RequestRun
    <2>2. CASE BeginRun(r)
      <3>1. /\ pc[r] = "waiting" /\ holder = NoRun /\ holder' = r
            /\ pc' = [pc EXCEPT ![r] = "sending"]
            /\ \A s \in Runs \ {r} : todo'[s] = todo[s]
            /\ current' = current
        BY <2>2 DEF TypeOK, BeginRun, LockFree
      <3> QED
        BY <3>1 DEF TypeOK, LockInv
    <2>3. ASSUME NEW p \in todo[r], Deliver(r, p)
          PROVE  LockInv'
      <3>1. p # NoPlan
        BY PlanAssumption DEF TypeOK, PlanAssumption
      <3>2. /\ pc[r] = "sending" /\ holder' = holder
            /\ pc' = [pc EXCEPT ![r] = "delivered"]
            /\ todo' = [todo EXCEPT ![r] = @ \ {p}]
            /\ current' = [current EXCEPT ![r] = p]
        BY <2>3 DEF Deliver
      <3> QED
        BY <3>1, <3>2 DEF TypeOK, LockInv
    <2>4. ASSUME NEW p \in todo[r], SendFails(r, p)
          PROVE  LockInv'
      BY <2>4 DEF TypeOK, LockInv, SendFails
    <2>5. CASE LogMessage(r)
      BY <2>5 DEF TypeOK, LockInv, LogMessage
    <2>6. CASE LogRejected(r)
      BY <2>6, LeaveLock DEF LogRejected
    <2>7. CASE StampLead(r)
      BY <2>7 DEF TypeOK, LockInv, StampLead
    <2>8. CASE FinishRun(r)
      BY <2>8, LeaveLock DEF FinishRun
    <2>9. CASE AbortRun(r)
      BY <2>9, LeaveLock DEF AbortRun
    <2> QED
      BY <1>1, <2>1, <2>2, <2>3, <2>4, <2>5, <2>6, <2>7, <2>8, <2>9
         DEF RunAction, RunStep
  <1>2. ASSUME NEW l \in Leads, Writer(l)
        PROVE  LockInv'
    BY <1>2, WriterKeepsRuns, LockUntouched
  <1>3. CASE AdvanceClock \/ UNCHANGED vars
    <2>1. UNCHANGED runVars
      BY <1>3 DEF AdvanceClock, vars, runVars
    <2> QED BY <2>1, LockUntouched
  <1> QED
    BY <1>1, <1>2, <1>3 DEF Next, RunAction

(* What the four filters of a snapshot say of the lead of a plan.             *)
LEMMA BuiltCurrent ==
    ASSUME TypeOK, NEW t, NEW p \in BuiltPlans(t)
    PROVE  /\ p.lead \in Leads
           /\ p.kind \in Kinds
           /\ p = PlanFor(p.kind, p.lead)
           /\ leads[p.lead].row = "stored"
           /\ p.kind \in OutreachKinds =>
                  /\ p.status = leads[p.lead].status
                  /\ p.status \notin SuppressedStatuses
           /\ p.kind = "initial" => ~leads[p.lead].firstOutreachSent
           /\ p.kind = "follow_up" =>
                  /\ leads[p.lead].firstOutreachSent
                  /\ leads[p.lead].followUpCount = p.followUpCount
                  /\ p.followUpCount < MaxFollowUps
           /\ p.kind = "appointment_reminder" => ~leads[p.lead].reminderSent
           /\ p.kind = "win_back" => leads[p.lead].status = "converted"
  BY DEF BuiltPlans, PlanFor, Stored, Kinds, OutreachKinds, IsDueForInitial,
         IsDueForFollowUp, IsDueForReminder, IsDueForWinBack, IsSuppressed

LEMMA BuiltDistinct ==
    ASSUME TypeOK, NEW t, NEW p \in BuiltPlans(t), NEW q \in BuiltPlans(t),
           p.lead = q.lead,
           (p.kind = "appointment_reminder") <=> (q.kind = "appointment_reminder")
    PROVE  p = q
  <1>1. p = PlanFor(p.kind, p.lead) /\ q = PlanFor(q.kind, q.lead)
    BY BuiltCurrent
  <1>2. p.kind = q.kind
    BY BuiltCurrent DEF Kinds, OutreachKinds, SuppressedStatuses
  <1> QED
    BY <1>1, <1>2

-------------------------------------------------------------------------------
(* What the writers that do not take the lock leave alone.                   *)

WriterFrame ==
    /\ UNCHANGED runVars
    /\ UNCHANGED <<delivered, slips>>
    /\ \A m \in Leads :
           /\ leads[m].row # "none" => leads'[m].row # "none"
           /\ leads'[m].firstOutreachSent = leads[m].firstOutreachSent
           /\ leads'[m].followUpCount = leads[m].followUpCount
           /\ leads'[m].reminderSent => leads[m].reminderSent
           /\ \/ /\ reminders'[m] = reminders[m]
                 /\ leads'[m].reminderSent = leads[m].reminderSent
              \/ reminders'[m] = 0
           /\ \/ /\ afterStop'[m] = afterStop[m]
                 /\ \/ leads'[m].status = leads[m].status
                    \/ leads'[m].status \in HardStopStatuses
              \/ afterStop'[m] = 0
           /\ \/ leads'[m].status = leads[m].status
              \/ leads'[m].status # "contacted_no_response"

LEMMA WriterLeavesRuns ==
    ASSUME TypeOK, NEW l \in Leads, Writer(l)
    PROVE  WriterFrame
  <1>0. /\ leads \in [Leads -> LeadRecord]
        /\ reminders \in [Leads -> Nat]
        /\ afterStop \in [Leads -> Nat]
    BY DEF TypeOK
  <1> USE DEF WriterFrame, history
  <1>1. ASSUME NEW withdrawn \in BOOLEAN, NEW booked \in BOOLEAN,
               NEW at \in Slots \cup {Never},
               CreateLead(l, withdrawn, booked, at)
        PROVE  WriterFrame
    BY <1>0, <1>1 DEF CreateLead, LeadRecord
  <1>2. ASSUME NEW class \in ReplyClasses, InboundReply(l, class)
        PROVE  WriterFrame
    <2>1. StatusAfter(class) # "contacted_no_response"
      BY DEF StatusAfter, ReplyClasses
    <2> QED
      BY <1>0, <1>2, <2>1 DEF InboundReply, LeadRecord
  <1>3. ASSUME NEW optIn \in BOOLEAN, Convert(l, optIn)
        PROVE  WriterFrame
    BY <1>0, <1>3 DEF Convert, LeadRecord
  <1>4. ASSUME NEW withdrawn \in BOOLEAN, NEW optIn \in BOOLEAN,
               PatchConsent(l, withdrawn, optIn)
        PROVE  WriterFrame
    BY <1>0, <1>4 DEF PatchConsent, LeadRecord
  <1>5. ASSUME NEW booked \in BOOLEAN, NEW at \in Slots \cup {Never},
               SetAppointment(l, booked, at)
        PROVE  WriterFrame
    BY <1>0, <1>5 DEF SetAppointment, LeadRecord
  <1>6. ASSUME NEW booked \in BOOLEAN, SetBooked(l, booked)
        PROVE  WriterFrame
    BY <1>0, <1>6 DEF SetBooked, LeadRecord
  <1>7. CASE IntakeRead(l)
    BY <1>0, <1>7 DEF IntakeRead, LeadRecord
  <1>8. ASSUME NEW seen \in intakes[l], NEW booked \in BOOLEAN,
               NEW at \in Slots \cup intakes[l], IntakeWrite(l, seen, booked, at)
        PROVE  WriterFrame
    <2>1. CASE leads[l].row = "stored"
      <3>1. /\ UNCHANGED runVars
            /\ UNCHANGED <<delivered, slips, afterStop>>
            /\ leads' = [leads EXCEPT ![l] = [@ EXCEPT !.booked = booked,
                                                      !.appointmentAt = at]]
        BY <1>8, <2>1 DEF IntakeWrite
      <3>2. \A m \in Leads : reminders'[m] = reminders[m] \/ reminders'[m] = 0
        BY <1>0, <1>8, <2>1 DEF IntakeWrite
      <3>3. \A m \in Leads :
              /\ leads'[m].row = leads[m].row
              /\ leads'[m].firstOutreachSent = leads[m].firstOutreachSent
              /\ leads'[m].followUpCount = leads[m].followUpCount
              /\ leads'[m].reminderSent = leads[m].reminderSent
              /\ leads'[m].status = leads[m].status
        BY <1>0, <3>1 DEF LeadRecord
      <3> QED
        BY <3>1, <3>2, <3>3
    <2>2. CASE leads[l].row # "stored"
      BY <1>0, <1>8, <2>2 DEF IntakeWrite
    <2> QED
      BY <2>1, <2>2
  <1>9. CASE DeleteLead(l)
    BY <1>0, <1>9 DEF DeleteLead, LeadRecord
  <1> QED
    BY <1>1, <1>2, <1>3, <1>4, <1>5, <1>6, <1>7, <1>8, <1>9 DEF Writer

LEMMA NextCases ==
    ASSUME TypeOK, [Next]_vars
    PROVE  WriterFrame \/ \E r \in Runs : RunAction(r)
  <1>1. CASE AdvanceClock \/ UNCHANGED vars
    <2>1. UNCHANGED <<leads, runVars, history>>
      BY <1>1 DEF AdvanceClock, vars, runVars, history
    <2> QED
      BY <2>1 DEF WriterFrame, history
  <1>2. CASE \E l \in Leads : Writer(l)
    BY <1>2, WriterLeavesRuns
  <1>3. CASE \E r \in Runs : RunAction(r)
    BY <1>3
  <1> QED
    BY <1>1, <1>2, <1>3 DEF Next, RunAction

-------------------------------------------------------------------------------
(* A run's steps, seen from its pending plans.                               *)

LEMMA PendingOthers ==
    ASSUME TypeOK, NEW r \in Runs, RunAction(r), NEW s \in Runs \ {r}
    PROVE  Pending(s)' = Pending(s) /\ todo'[s] = todo[s] /\ current'[s] = current[s]
  <1>1. todo'[s] = todo[s] /\ current'[s] = current[s]
    BY DEF TypeOK, RunAction, RequestRun, BeginRun, RunStep, Deliver, SendFails,
           LogMessage, LogRejected, StampLead, FinishRun, AbortRun, Leave
  <1> QED
    BY <1>1 DEF Pending

(* But for BeginRun, a run only gets rid of plans, and only its stamp writes. *)
LEMMA PendingShrinks ==
    ASSUME TypeOK, LockInv, Distinct, NEW r \in Runs, RunAction(r), ~BeginRun(r)
    PROVE  /\ Pending(r)' \subseteq Pending(r)
           /\ current'[r] \notin todo'[r]
           /\ leads' = leads \/ StampLead(r)
  <1>0. NoPlan \notin todo[r]
    BY PlanAssumption DEF TypeOK, PlanAssumption
  <1>1. CASE RequestRun(r)
    BY <1>1 DEF RequestRun, Pending, Distinct
  <1>2. ASSUME NEW p \in todo[r], Deliver(r, p)
        PROVE  /\ Pending(r)' \subseteq Pending(r)
               /\ current'[r] \notin todo'[r]
               /\ leads' = leads
    BY <1>2 DEF TypeOK, Deliver, Pending
  <1>3. ASSUME NEW p \in todo[r], SendFails(r, p)
        PROVE  /\ Pending(r)' \subseteq Pending(r)
               /\ current'[r] \notin todo'[r]
               /\ leads' = leads
    BY <1>3 DEF TypeOK, SendFails, Pending, Distinct
  <1>4. CASE LogMessage(r)
    BY <1>4 DEF LogMessage, Pending, Distinct
  <1>5. CASE LogRejected(r)
    BY <1>5 DEF TypeOK, LogRejected, Leave, Pending
  <1>6. CASE StampLead(r)
    BY <1>0, <1>6 DEF TypeOK, StampLead, Pending
  <1>7. CASE FinishRun(r)
    BY <1>7 DEF TypeOK, FinishRun, Leave, Pending
  <1>8. CASE AbortRun(r)
    BY <1>8 DEF TypeOK, AbortRun, Leave, Pending
  <1> QED
    BY <1>1, <1>2, <1>3, <1>4, <1>5, <1>6, <1>7, <1>8 DEF RunAction, RunStep

LEMMA BeginPending ==
    ASSUME TypeOK, LockInv, NEW r \in Runs, BeginRun(r)
    PROVE  /\ \E t : Pending(r)' \subseteq BuiltPlans(t)
           /\ current'[r] = NoPlan
           /\ NoPlan \notin todo'[r]
           /\ leads' = leads
  <1> DEFINE t == IF r \in Ticks THEN now[r] ELSE clock
  <1>1. current[r] = NoPlan
    BY DEF LockInv, BeginRun
  <1>2. todo'[r] \subseteq BuiltPlans(t) /\ current' = current /\ leads' = leads
    BY DEF TypeOK, BeginRun
  <1>3. todo'[r] \subseteq Plan
    BY <1>2, BuiltPlansType
  <1> QED
    BY <1>1, <1>2, <1>3, PlanAssumption DEF Pending, PlanAssumption

(* What a stamp does to the rows. *)
LEMMA StampEffect ==
    ASSUME TypeOK, LockInv, PlansCurrent, NEW r \in Runs, StampLead(r),
           NEW p, p = current[r]
    PROVE  /\ p \in Plan /\ p \in Pending(r)
           /\ \A m \in Leads \ {p.lead} : leads'[m] = leads[m]
           /\ ~StampApplies(p) => leads' = leads
           /\ StampApplies(p) =>
                /\ leads'[p.lead].row = leads[p.lead].row
                /\ p.kind = "initial" =>
                     /\ leads[p.lead].status = p.status
                     /\ leads'[p.lead].status = "contacted_no_response"
                     /\ leads'[p.lead].firstOutreachSent
                     /\ leads'[p.lead].followUpCount = 0
                     /\ leads'[p.lead].reminderSent = leads[p.lead].reminderSent
                /\ p.kind = "follow_up" =>
                     /\ leads[p.lead].status = p.status
                     /\ leads'[p.lead].status = "contacted_no_response"
                     /\ leads'[p.lead].firstOutreachSent = leads[p.lead].firstOutreachSent
                     /\ leads'[p.lead].followUpCount = p.followUpCount + 1
                     /\ leads'[p.lead].reminderSent = leads[p.lead].reminderSent
                /\ p.kind \notin OutreachKinds =>
                     /\ leads'[p.lead].status = leads[p.lead].status
                     /\ leads'[p.lead].firstOutreachSent = leads[p.lead].firstOutreachSent
                     /\ leads'[p.lead].followUpCount = leads[p.lead].followUpCount
                /\ p.kind = "appointment_reminder" => leads'[p.lead].reminderSent
                /\ p.kind = "win_back" =>
                     leads'[p.lead].reminderSent = leads[p.lead].reminderSent
  <1>1. p \in Plan /\ p \in Pending(r) /\ p.lead \in Leads /\ p.kind \in Kinds
    BY CurrentType DEF StampLead, Plan
  <1>2. leads[p.lead] \in LeadRecord /\ leads \in [Leads -> LeadRecord]
    BY <1>1 DEF TypeOK
  <1>3. leads' = IF StampApplies(p)
                 THEN [leads EXCEPT ![p.lead] = Stamped(leads[p.lead], p, now[r])]
                 ELSE leads
    BY DEF StampLead
  <1>4. CASE ~StampApplies(p)
    BY <1>1, <1>3, <1>4
  <1>5. CASE StampApplies(p)
    <2>1. leads'[p.lead] = Stamped(leads[p.lead], p, now[r])
      BY <1>1, <1>2, <1>3, <1>5
    <2>2. \A m \in Leads \ {p.lead} : leads'[m] = leads[m]
      BY <1>1, <1>2, <1>3, <1>5
    <2>3. CASE p.kind = "initial"
      <3>1. leads'[p.lead] =
              [leads[p.lead] EXCEPT
                            !.status = "contacted_no_response",
                            !.lastContactedAt = now[r],
                            !.firstOutreachSent = TRUE,
                            !.followUpCount = 0]
        BY <2>1, <2>3 DEF Stamped
      <3>2. leads[p.lead].status = p.status
        BY <1>5, <2>3 DEF StampApplies, GuardHolds, OutreachKinds
      <3>3. /\ leads'[p.lead].row = leads[p.lead].row
            /\ leads'[p.lead].status = "contacted_no_response"
            /\ leads'[p.lead].reminderSent = leads[p.lead].reminderSent
            /\ leads'[p.lead].firstOutreachSent
            /\ leads'[p.lead].followUpCount = 0
        BY <1>2, <3>1 DEF LeadRecord
      <3> QED
        BY <1>1, <1>5, <2>2, <2>3, <3>2, <3>3 DEF OutreachKinds
    <2>4. CASE p.kind = "follow_up"
      <3>1. leads'[p.lead] =
              [leads[p.lead] EXCEPT
                            !.status = "contacted_no_response",
                            !.lastContactedAt = now[r],
                            !.followUpCount = p.followUpCount + 1]
        BY <2>1, <2>4 DEF Stamped
      <3>2. leads[p.lead].status = p.status
        BY <1>5, <2>4 DEF StampApplies, GuardHolds, OutreachKinds
      <3>3. /\ leads'[p.lead].row = leads[p.lead].row
            /\ leads'[p.lead].status = "contacted_no_response"
            /\ leads'[p.lead].reminderSent = leads[p.lead].reminderSent
            /\ leads'[p.lead].firstOutreachSent = leads[p.lead].firstOutreachSent
            /\ leads'[p.lead].followUpCount = p.followUpCount + 1
        BY <1>2, <3>1 DEF LeadRecord
      <3> QED
        BY <1>1, <1>5, <2>2, <2>4, <3>2, <3>3 DEF OutreachKinds
    <2>5. CASE p.kind = "appointment_reminder"
      BY <1>1, <1>2, <1>5, <2>1, <2>2, <2>5 DEF Stamped, LeadRecord, OutreachKinds
    <2>6. CASE p.kind = "win_back"
      BY <1>1, <1>2, <1>5, <2>1, <2>2, <2>6 DEF Stamped, LeadRecord, OutreachKinds
    <2> QED
      BY <1>1, <2>3, <2>4, <2>5, <2>6 DEF Kinds
  <1> QED
    BY <1>4, <1>5

LEMMA DistinctStep ==
    ASSUME TypeOK, LockInv, Distinct, [Next]_vars
    PROVE  Distinct'
  <1>1. CASE WriterFrame
    BY <1>1 DEF WriterFrame, runVars, Distinct, Pending
  <1>2. ASSUME NEW r \in Runs, RunAction(r)
        PROVE  Distinct'
    <2>1. ASSUME NEW s \in Runs \ {r}
          PROVE  /\ current'[s] \notin todo'[s]
                 /\ Pending(s)' = Pending(s)
      BY <1>2, <2>1, PendingOthers DEF Distinct
    <2>2. CASE BeginRun(r)
      <3>1. PICK t : Pending(r)' \subseteq BuiltPlans(t)
        BY <2>2, BeginPending
      <3>2. current'[r] \notin todo'[r]
        BY <2>2, BeginPending
      <3>3. ASSUME NEW p \in Pending(r)', NEW q \in Pending(r)', p.lead = q.lead,
                   (p.kind = "appointment_reminder")
                       <=> (q.kind = "appointment_reminder")
            PROVE  p = q
        BY <3>1, <3>3, BuiltDistinct
      <3> QED
        BY <2>1, <3>2, <3>3 DEF Distinct
    <2>3. CASE ~BeginRun(r)
      <3>1. Pending(r)' \subseteq Pending(r) /\ current'[r] \notin todo'[r]
        BY <1>2, <2>3, PendingShrinks
      <3> QED
        BY <2>1, <3>1 DEF Distinct
    <2> QED
      BY <2>2, <2>3
  <1> QED
    BY <1>1, <1>2, NextCases

(* What PlansCurrent says of one plan. *)
PlanIsCurrent(p) ==
    /\ leads[p.lead].row # "none"
    /\ p.kind \in OutreachKinds => p.status \notin SuppressedStatuses
    /\ p.kind = "initial" => ~leads[p.lead].firstOutreachSent
    /\ p.kind = "follow_up" =>
           /\ leads[p.lead].firstOutreachSent
           /\ leads[p.lead].followUpCount = p.followUpCount
           /\ p.followUpCount < MaxFollowUps
    /\ p.kind = "appointment_reminder" => ~leads[p.lead].reminderSent

LEMMA PlansStep ==
    ASSUME TypeOK, LockInv, Distinct, PlansCurrent, [Next]_vars
    PROVE  PlansCurrent'
  <1>0. PlansCurrent <=> \A r \in Runs : \A p \in Pending(r) : PlanIsCurrent(p)
    BY DEF PlansCurrent, PlanIsCurrent
  <1>b. PlansCurrent' <=> \A r \in Runs : \A p \in Pending(r)' : PlanIsCurrent(p)'
    BY DEF PlansCurrent, PlanIsCurrent
  <1>a. ASSUME NEW r \in Runs, NEW p \in Pending(r)
        PROVE  p \in Plan /\ p.lead \in Leads /\ p.kind \in Kinds
    BY DEF TypeOK, Pending, Plan
  <1>1. CASE WriterFrame
    <2>1. ASSUME NEW r \in Runs, NEW p \in Pending(r)'
          PROVE  PlanIsCurrent(p)'
      <3>1. p \in Pending(r)
        BY <1>1 DEF WriterFrame, runVars, Pending
      <3>2. PlanIsCurrent(p) /\ p.lead \in Leads
        BY <1>0, <1>a, <3>1
      <3> QED
        BY <1>1, <3>2 DEF WriterFrame, PlanIsCurrent
    <2> QED
      BY <2>1 DEF PlansCurrent, PlanIsCurrent
  <1>2. ASSUME NEW r \in Runs, RunAction(r)
        PROVE  PlansCurrent'
    <2>1. CASE BeginRun(r)
      <3>1. PICK t : Pending(r)' \subseteq BuiltPlans(t)
        BY <2>1, BeginPending
      <3>2. leads' = leads
        BY <2>1, BeginPending
      <3>3. ASSUME NEW s \in Runs, NEW p \in Pending(s)'
            PROVE  PlanIsCurrent(p)
        <4>1. CASE s = r
          BY <3>1, <3>3, <4>1, BuiltCurrent DEF PlanIsCurrent
        <4>2. CASE s # r
          BY <1>0, <1>2, <3>3, <4>2, PendingOthers
        <4> QED
          BY <4>1, <4>2
      <3> QED
        BY <3>2, <3>3 DEF PlansCurrent, PlanIsCurrent
    <2>2. CASE ~BeginRun(r)
      <3>1. ASSUME NEW s \in Runs PROVE Pending(s)' \subseteq Pending(s)
        BY <1>2, <2>2, PendingOthers, PendingShrinks
      <3>2. CASE leads' = leads
        BY <1>0, <3>1, <3>2 DEF PlansCurrent, PlanIsCurrent
      <3>3. CASE StampLead(r)
        <4> DEFINE p == current[r]
        <4>1. p \in Pending(r) /\ p \in Plan /\ holder = r
          BY <3>3, StampEffect DEF StampLead, LockInv
        <4>2. current'[r] = NoPlan /\ todo' = todo
          BY <3>3 DEF StampLead, TypeOK
        <4>3. ASSUME NEW s \in Runs, NEW q \in Pending(s)'
              PROVE  PlanIsCurrent(q)'
          <5>1. s = r /\ q \in todo[r] /\ q \in Pending(r)
            BY <1>2, <3>1, <4>1, <4>2, <4>3, OutsideIsEmpty DEF Pending
          <5>2. PlanIsCurrent(q) /\ q.lead \in Leads /\ q.kind \in Kinds
            BY <1>0, <1>a, <5>1
          <5>3. CASE q.lead # p.lead
            BY <3>3, <5>2, <5>3, StampEffect DEF PlanIsCurrent
          <5>4. CASE q.lead = p.lead
            <6>1. q # p
              BY <5>1 DEF Distinct
            <6>2. ~((p.kind = "appointment_reminder")
                        <=> (q.kind = "appointment_reminder"))
              BY <4>1, <5>1, <5>4, <6>1 DEF Distinct
            <6>3. CASE q.kind = "appointment_reminder"
              BY <3>3, <4>1, <5>2, <5>4, <6>2, <6>3, StampEffect
                 DEF PlanIsCurrent, Plan, Kinds, OutreachKinds
            <6>4. CASE p.kind = "appointment_reminder"
              BY <3>3, <4>1, <5>2, <5>4, <6>2, <6>4, StampEffect
                 DEF PlanIsCurrent, Plan, Kinds, OutreachKinds
            <6> QED
              BY <6>2, <6>3, <6>4
          <5> QED
            BY <5>3, <5>4
        <4> QED
          BY <1>b, <4>3
      <3> QED
        BY <1>2, <2>2, <3>2, <3>3, PendingShrinks
    <2> QED
      BY <2>1, <2>2
  <1> QED
    BY <1>1, <1>2, NextCases

-------------------------------------------------------------------------------
(* Which message is in flight, and how it is accounted for.                  *)

Accounting == {"delivered", "logged"}

LEMMA InFlightInside ==
    ASSUME TypeOK, LockInv, NEW r \in Runs, pc[r] \in Accounting, NEW l, NEW k
    PROVE  InFlight(l, k) <=> current[r].lead = l /\ current[r].kind \in k
  BY DEF LockInv, InFlight, Accounting

(* Steps that neither send nor account. *)
LEMMA QuietStep ==
    ASSUME TypeOK, LockInv, NEW r \in Runs,
           \/ RequestRun(r)
           \/ BeginRun(r)
           \/ \E p \in todo[r] : SendFails(r, p)
           \/ LogMessage(r)
           \/ FinishRun(r)
           \/ AbortRun(r) /\ pc[r] \notin Accounting,
           NEW l, NEW k
    PROVE  /\ UNCHANGED <<leads, delivered, slips, reminders, afterStop>>
           /\ InFlight(l, k)' <=> InFlight(l, k)
  <1>1. UNCHANGED <<leads, delivered, slips, reminders, afterStop>>
    BY DEF RequestRun, BeginRun, SendFails, LogMessage, FinishRun, AbortRun,
           Slip, Accounting, history
  <1>2. ASSUME NEW s \in Runs
        PROVE  /\ pc'[s] \in Accounting <=> pc[s] \in Accounting
               /\ pc[s] \in Accounting => current'[s] = current[s]
    BY DEF TypeOK, RequestRun, BeginRun, SendFails, LogMessage, FinishRun,
           AbortRun, Leave, Accounting
  <1> QED
    BY <1>1, <1>2 DEF InFlight, Accounting

LEMMA DeliverStep ==
    ASSUME TypeOK, LockInv, NEW r \in Runs, NEW p \in todo[r], Deliver(r, p),
           NEW l, NEW k
    PROVE  /\ UNCHANGED <<leads, slips>>
           /\ p \in Plan /\ p \in Pending(r) /\ p.lead \in Leads
           /\ ~InFlight(l, k)
           /\ InFlight(l, k)' <=> p.lead = l /\ p.kind \in k
  <1>1. UNCHANGED <<leads, slips>> /\ p \in Plan /\ p \in Pending(r) /\ p.lead \in Leads
    <2>1. p \in Plan
      BY DEF TypeOK
    <2>2. p # NoPlan /\ p.lead \in Leads
      BY <2>1, PlanAssumption DEF PlanAssumption, Plan
    <2> QED
      BY <2>1, <2>2 DEF Deliver, Pending
  <1>2. \A s \in Runs : pc[s] \notin Accounting
    BY DEF Deliver, LockInv, Accounting
  <1>3. /\ pc'[r] \in Accounting /\ current'[r] = p
        /\ \A s \in Runs \ {r} : pc'[s] = pc[s]
    BY DEF TypeOK, Deliver, Accounting
  <1> QED
    BY <1>1, <1>2, <1>3 DEF InFlight, Accounting

LEMMA AccountStep ==
    ASSUME TypeOK, LockInv, NEW r \in Runs,
           \/ LogRejected(r)
           \/ StampLead(r)
           \/ AbortRun(r) /\ pc[r] \in Accounting,
           NEW p, p = current[r], NEW l, NEW k
    PROVE  /\ p \in Plan /\ p \in Pending(r) /\ p.lead \in Leads /\ p.kind \in Kinds
           /\ InFlight(l, k) <=> p.lead = l /\ p.kind \in k
           /\ ~InFlight(l, k)'
           /\ UNCHANGED <<delivered, reminders, afterStop>>
           /\ \/ /\ leads' = leads
                 /\ slips' = [slips EXCEPT ![p.lead][p.kind] = @ + 1]
              \/ /\ StampLead(r) /\ StampApplies(p)
                 /\ slips' = slips
  <1>1. pc[r] \in Accounting
    BY DEF LogRejected, StampLead, Accounting
  <1>2. p \in Plan /\ p \in Pending(r)
    BY <1>1, CurrentType DEF Accounting
  <1>3. p.lead \in Leads /\ p.kind \in Kinds
    BY <1>2 DEF Plan
  <1>4. InFlight(l, k) <=> p.lead = l /\ p.kind \in k
    BY <1>1, InFlightInside
  <1>5. /\ pc'[r] \notin Accounting
        /\ \A s \in Runs \ {r} : pc'[s] = pc[s] /\ pc[s] \notin Accounting
    BY <1>1 DEF TypeOK, LockInv, LogRejected, StampLead, AbortRun, Leave, Accounting
  <1>6. ~InFlight(l, k)'
    BY <1>5 DEF InFlight, Accounting
  <1>7. UNCHANGED <<delivered, reminders, afterStop>>
    BY DEF LogRejected, StampLead, AbortRun
  <1>8. \/ /\ leads' = leads
           /\ slips' = [slips EXCEPT ![p.lead][p.kind] = @ + 1]
        \/ /\ StampLead(r) /\ StampApplies(p)
           /\ slips' = slips
    BY <1>1 DEF LogRejected, StampLead, AbortRun, Slip, Accounting
  <1> QED
    BY <1>2, <1>3, <1>4, <1>6, <1>7, <1>8

LEMMA RunCases ==
    ASSUME NEW r \in Runs, RunAction(r)
    PROVE  \/ \/ RequestRun(r)
              \/ BeginRun(r)
              \/ \E p \in todo[r] : SendFails(r, p)
              \/ LogMessage(r)
              \/ FinishRun(r)
              \/ AbortRun(r) /\ pc[r] \notin Accounting
           \/ \E p \in todo[r] : Deliver(r, p)
           \/ \/ LogRejected(r)
              \/ StampLead(r)
              \/ AbortRun(r) /\ pc[r] \in Accounting
  BY DEF RunAction, RunStep

-------------------------------------------------------------------------------
(* The budgets.                                                              *)

LEMMA SlipCount ==
    ASSUME TypeOK, NEW p \in Plan, NEW l \in Leads,
           slips' = [slips EXCEPT ![p.lead][p.kind] = @ + 1]
    PROVE  /\ OutreachSlips(l)' = OutreachSlips(l)
                + (IF p.lead = l /\ p.kind \in OutreachKinds THEN 1 ELSE 0)
           /\ slips'[l]["appointment_reminder"] = slips[l]["appointment_reminder"]
                + (IF p.lead = l /\ p.kind = "appointment_reminder" THEN 1 ELSE 0)
  <1>1. p.lead \in Leads /\ p.kind \in Kinds
    BY DEF Plan
  <1>2. slips \in [Leads -> [Kinds -> Nat]]
    BY DEF TypeOK
  <1>3. \A k \in Kinds : slips'[l][k] = IF p.lead = l /\ p.kind = k
                                        THEN slips[l][k] + 1 ELSE slips[l][k]
    BY <1>1, <1>2
  <1> QED
    BY <1>1, <1>2, <1>3 DEF OutreachSlips, OutreachKinds, Kinds

LEMMA BudgetType ==
    ASSUME TypeOK, NEW l \in Leads
    PROVE  /\ delivered[l] \in Nat /\ reminders[l] \in Nat /\ afterStop[l] \in Nat
           /\ OutreachSlips(l) \in Nat
           /\ slips[l]["appointment_reminder"] \in Nat
           /\ Remaining(l) \in Int
           /\ leads[l].followUpCount \in Int
           /\ MaxFollowUps \in Nat
  <1>1. leads[l] \in LeadRecord /\ slips[l] \in [Kinds -> Nat]
    BY DEF TypeOK
  <1>2. leads[l].followUpCount \in 0 .. MaxFollowUps
    BY <1>1 DEF LeadRecord
  <1> QED
    BY <1>1, <1>2, PolicyAssumption
       DEF TypeOK, OutreachSlips, Remaining, Kinds, PolicyAssumption

LEMMA OutreachBudgetStep ==
    ASSUME TypeOK, LockInv, PlansCurrent, OutreachBudget, [Next]_vars
    PROVE  OutreachBudget'
  <1> SUFFICES ASSUME NEW l \in Leads
               PROVE  (delivered[l] + Remaining(l) <=
                          1 + MaxFollowUps + OutreachSlips(l)
                            + (IF InFlight(l, OutreachKinds) THEN 1 ELSE 0))'
    BY DEF OutreachBudget
  <1>0. /\ delivered[l] + Remaining(l) <=
             1 + MaxFollowUps + OutreachSlips(l)
               + (IF InFlight(l, OutreachKinds) THEN 1 ELSE 0)
        /\ delivered[l] \in Nat /\ OutreachSlips(l) \in Nat
        /\ Remaining(l) \in Int /\ MaxFollowUps \in Nat
    BY BudgetType DEF OutreachBudget
  <1>1. CASE WriterFrame
    <2>1. delivered' = delivered /\ Remaining(l)' = Remaining(l)
          /\ OutreachSlips(l)' = OutreachSlips(l)
          /\ (InFlight(l, OutreachKinds)' <=> InFlight(l, OutreachKinds))
      BY <1>1 DEF WriterFrame, runVars, Remaining, OutreachSlips, InFlight
    <2> QED
      BY <1>0, <2>1
  <1>2. ASSUME NEW r \in Runs, RunAction(r)
        PROVE  (delivered[l] + Remaining(l) <=
                   1 + MaxFollowUps + OutreachSlips(l)
                     + (IF InFlight(l, OutreachKinds) THEN 1 ELSE 0))'
    <2>1. CASE \/ RequestRun(r)
               \/ BeginRun(r)
               \/ \E p \in todo[r] : SendFails(r, p)
               \/ LogMessage(r)
               \/ FinishRun(r)
               \/ AbortRun(r) /\ pc[r] \notin Accounting
      <3>1. /\ UNCHANGED <<leads, delivered, slips>>
            /\ InFlight(l, OutreachKinds)' <=> InFlight(l, OutreachKinds)
        BY <2>1, QuietStep
      <3>2. Remaining(l)' = Remaining(l) /\ OutreachSlips(l)' = OutreachSlips(l)
        BY <3>1 DEF Remaining, OutreachSlips
      <3> QED
        BY <1>0, <3>1, <3>2
    <2>2. ASSUME NEW p \in todo[r], Deliver(r, p)
          PROVE  (delivered[l] + Remaining(l) <=
                     1 + MaxFollowUps + OutreachSlips(l)
                       + (IF InFlight(l, OutreachKinds) THEN 1 ELSE 0))'
      <3>1. /\ UNCHANGED <<leads, slips>> /\ p.lead \in Leads
            /\ ~InFlight(l, OutreachKinds)
            /\ InFlight(l, OutreachKinds)' <=> p.lead = l /\ p.kind \in OutreachKinds
        BY <2>2, DeliverStep
      <3>2. Remaining(l)' = Remaining(l) /\ OutreachSlips(l)' = OutreachSlips(l)
        BY <3>1 DEF Remaining, OutreachSlips
      <3>3. delivered'[l] = IF p.lead = l /\ p.kind \in OutreachKinds
                            THEN delivered[l] + 1 ELSE delivered[l]
        BY <2>2, <3>1 DEF Deliver, TypeOK
      <3> QED
        BY <1>0, <3>1, <3>2, <3>3
    <2>3. CASE \/ LogRejected(r)
               \/ StampLead(r)
               \/ AbortRun(r) /\ pc[r] \in Accounting
      <3> DEFINE p == current[r]
      <3>1. /\ p \in Plan /\ p \in Pending(r) /\ p.lead \in Leads /\ p.kind \in Kinds
            /\ InFlight(l, OutreachKinds) <=> p.lead = l /\ p.kind \in OutreachKinds
            /\ ~InFlight(l, OutreachKinds)'
            /\ delivered' = delivered
            /\ \/ /\ leads' = leads
                  /\ slips' = [slips EXCEPT ![p.lead][p.kind] = @ + 1]
               \/ /\ StampLead(r) /\ StampApplies(p)
                  /\ slips' = slips
        BY <2>3, AccountStep
      <3> HIDE DEF p
      <3>2. CASE leads' = leads /\ slips' = [slips EXCEPT ![p.lead][p.kind] = @ + 1]
        <4>1. OutreachSlips(l)' = OutreachSlips(l)
                + (IF p.lead = l /\ p.kind \in OutreachKinds THEN 1 ELSE 0)
          BY <3>1, <3>2, SlipCount
        <4>2. Remaining(l)' = Remaining(l)
          BY <3>2 DEF Remaining
        <4> QED
          BY <1>0, <3>1, <4>1, <4>2
      <3>3. CASE StampLead(r) /\ StampApplies(p) /\ slips' = slips
        <4>1. OutreachSlips(l)' = OutreachSlips(l)
          BY <3>3 DEF OutreachSlips
        <4>2. CASE p.lead # l
          <5>1. leads'[l] = leads[l]
            BY <3>3, <4>2, StampEffect DEF p
          <5>2. Remaining(l)' = Remaining(l)
            BY <5>1 DEF Remaining
          <5> QED
            BY <1>0, <3>1, <4>1, <4>2, <5>2
        <4>3. CASE p.lead = l /\ p.kind \notin OutreachKinds
          <5>1. /\ leads'[l].firstOutreachSent = leads[l].firstOutreachSent
                /\ leads'[l].followUpCount = leads[l].followUpCount
            BY <3>3, <4>3, StampEffect DEF p
          <5>2. Remaining(l)' = Remaining(l)
            BY <5>1 DEF Remaining
          <5> QED
            BY <1>0, <3>1, <4>1, <4>3, <5>2
        <4>4. CASE p.lead = l /\ p.kind = "initial"
          <5>1. ~leads[l].firstOutreachSent
            BY <3>1, <4>4 DEF PlansCurrent
          <5>2. leads'[l].firstOutreachSent /\ leads'[l].followUpCount = 0
            BY <3>3, <4>4, StampEffect DEF p
          <5>3. Remaining(l) = 1 + MaxFollowUps /\ Remaining(l)' = MaxFollowUps
            BY <1>0, <5>1, <5>2 DEF Remaining
          <5> QED
            BY <1>0, <3>1, <4>1, <4>4, <5>3 DEF OutreachKinds
        <4>5. CASE p.lead = l /\ p.kind = "follow_up"
          <5>1. leads[l].firstOutreachSent /\ leads[l].followUpCount = p.followUpCount
            BY <3>1, <4>5 DEF PlansCurrent
          <5>2. /\ leads'[l].firstOutreachSent
                /\ leads'[l].followUpCount = leads[l].followUpCount + 1
            BY <3>3, <4>5, <5>1, StampEffect DEF p
          <5>3. Remaining(l)' = Remaining(l) - 1
            BY <1>0, <5>1, <5>2, BudgetType DEF Remaining
          <5> QED
            BY <1>0, <3>1, <4>1, <4>5, <5>3 DEF OutreachKinds
        <4> QED
          BY <4>2, <4>3, <4>4, <4>5 DEF OutreachKinds
      <3> QED
        BY <3>1, <3>2, <3>3
    <2> QED
      BY <1>2, <2>1, <2>2, <2>3, RunCases
  <1> QED
    BY <1>1, <1>2, NextCases

LEMMA StopBudgetStep ==
    ASSUME TypeOK, LockInv, Distinct, PlansCurrent, StopBudget, [Next]_vars
    PROVE  StopBudget'
  <1>0. /\ \A l \in Leads : afterStop[l] \in Nat /\ afterStop[l] <= 1
        /\ \A l \in Leads :
               leads[l].status \notin HardStopStatuses => afterStop[l] = 0
        /\ \A r \in Runs : \A p \in todo[r] :
               p.kind # "appointment_reminder" => afterStop[p.lead] = 0
        /\ \A r \in Runs : \A p \in todo[r] : p \in Plan /\ p.lead \in Leads
    BY DEF StopBudget, TypeOK, Plan
  <1>1. CASE WriterFrame
    BY <1>0, <1>1 DEF WriterFrame, runVars, StopBudget
  <1>2. ASSUME NEW r \in Runs, RunAction(r)
        PROVE  StopBudget'
    <2>1. CASE BeginRun(r)
      <3>1. PICK t : Pending(r)' \subseteq BuiltPlans(t)
        BY <2>1, BeginPending
      <3>2. /\ UNCHANGED <<leads, afterStop>>
            /\ todo'[r] \subseteq Pending(r)'
        BY <2>1, BeginPending DEF BeginRun, history, Pending
      <3>3. ASSUME NEW s \in Runs, NEW p \in todo'[s],
                   p.kind # "appointment_reminder"
            PROVE  afterStop[p.lead] = 0
        <4>1. CASE s = r
          <5>1. p \in BuiltPlans(t)
            BY <3>1, <3>2, <3>3, <4>1
          <5>2. leads[p.lead].status \notin HardStopStatuses /\ p.lead \in Leads
            BY <3>3, <5>1, BuiltCurrent
               DEF HardStopStatuses, SuppressedStatuses, Kinds, OutreachKinds
          <5> QED
            BY <1>0, <5>2
        <4>2. CASE s # r
          BY <1>0, <1>2, <3>3, <4>2, PendingOthers
        <4> QED
          BY <4>1, <4>2
      <3> QED
        BY <1>0, <3>2, <3>3 DEF StopBudget
    <2>2. CASE \/ RequestRun(r)
               \/ \E p \in todo[r] : SendFails(r, p)
               \/ LogMessage(r)
               \/ FinishRun(r)
               \/ AbortRun(r) /\ pc[r] \notin Accounting
      <3>1. UNCHANGED <<leads, afterStop>>
        BY <2>2 DEF RequestRun, SendFails, LogMessage, FinishRun, AbortRun, history
      <3>2. \A s \in Runs : todo'[s] \subseteq todo[s]
        BY <2>2 DEF TypeOK, RequestRun, SendFails, LogMessage, FinishRun,
                    AbortRun, Leave
      <3> QED
        BY <1>0, <3>1, <3>2 DEF StopBudget
    <2>3. ASSUME NEW p \in todo[r], Deliver(r, p)
          PROVE  StopBudget'
      <3>1. leads' = leads /\ p \in Pending(r) /\ p.lead \in Leads
        BY <2>3, DeliverStep
      <3>2. /\ \A l \in Leads \ {p.lead} : afterStop'[l] = afterStop[l]
            /\ afterStop'[p.lead] =
                 IF /\ p.kind # "appointment_reminder"
                    /\ leads[p.lead].status \in HardStopStatuses
                 THEN afterStop[p.lead] + 1 ELSE afterStop[p.lead]
        BY <2>3, <3>1 DEF TypeOK, Deliver
      <3>3. \A l \in Leads :
              /\ afterStop'[l] <= 1
              /\ leads[l].status \notin HardStopStatuses => afterStop'[l] = 0
        BY <1>0, <3>1, <3>2
      <3>4. ASSUME NEW s \in Runs, NEW q \in todo'[s],
                   q.kind # "appointment_reminder"
            PROVE  afterStop'[q.lead] = 0
        <4>1. q \in todo[s] /\ (s = r => q # p) /\ q \in Pending(s)
          <5>1. todo' = [todo EXCEPT ![r] = @ \ {p}]
            BY <2>3 DEF Deliver
          <5> QED
            BY <3>4, <5>1 DEF TypeOK, Pending
        <4>2. s = r
          BY <2>3, <4>1 DEF Deliver, LockInv
        <4>3. CASE q.lead = p.lead
          <5>1. p.kind = "appointment_reminder"
            BY <3>1, <3>4, <4>1, <4>2, <4>3 DEF Distinct
          <5> QED
            BY <1>0, <3>1, <3>2, <3>4, <4>1, <4>3, <5>1
        <4>4. CASE q.lead # p.lead
          BY <1>0, <3>2, <3>4, <4>1, <4>4
        <4> QED
          BY <4>3, <4>4
      <3> QED
        BY <3>1, <3>3, <3>4 DEF StopBudget
    <2>4. CASE \/ LogRejected(r)
               \/ StampLead(r)
               \/ AbortRun(r) /\ pc[r] \in Accounting
      <3>1. afterStop' = afterStop
        BY <2>4 DEF LogRejected, StampLead, AbortRun
      <3>2. \A s \in Runs : todo'[s] \subseteq todo[s]
        BY <2>4 DEF TypeOK, LogRejected, StampLead, AbortRun, Leave
      <3>3. ASSUME NEW l \in Leads, leads'[l].status \notin HardStopStatuses
            PROVE  afterStop[l] = 0
        <4>1. CASE leads'[l].status = leads[l].status
          BY <1>0, <3>3, <4>1
        <4>2. CASE leads'[l].status # leads[l].status
          <5> DEFINE p == current[r]
          <5>1. StampLead(r)
            BY <2>4, <4>2 DEF LogRejected, AbortRun
          <5>2. /\ p.lead = l /\ StampApplies(p) /\ p.kind \in OutreachKinds
                /\ p \in Pending(r)
            BY <4>2, <5>1, StampEffect
          <5>3. leads[l].status = p.status
            BY <5>1, <5>2, StampEffect DEF OutreachKinds
          <5>4. p.status \notin SuppressedStatuses
            BY <5>2 DEF PlansCurrent
          <5> QED
            BY <1>0, <5>3, <5>4 DEF HardStopStatuses, SuppressedStatuses
        <4> QED
          BY <4>1, <4>2
      <3> QED
        BY <1>0, <3>1, <3>2, <3>3 DEF StopBudget
    <2> QED
      BY <1>2, <2>1, <2>2, <2>3, <2>4, RunCases
  <1> QED
    BY <1>1, <1>2, NextCases

LEMMA ReminderBudgetStep ==
    ASSUME TypeOK, LockInv, PlansCurrent, ReminderBudget, [Next]_vars
    PROVE  ReminderBudget'
  <1> DEFINE rem == "appointment_reminder"
  <1> SUFFICES ASSUME NEW l \in Leads
               PROVE  (reminders[l] <= slips[l][rem]
                         + (IF leads[l].reminderSent \/ InFlight(l, {rem})
                            THEN 1 ELSE 0))'
    BY DEF ReminderBudget
  <1>0. /\ reminders[l] <= slips[l][rem]
             + (IF leads[l].reminderSent \/ InFlight(l, {rem}) THEN 1 ELSE 0)
        /\ reminders[l] \in Nat /\ slips[l][rem] \in Nat
    BY BudgetType DEF ReminderBudget
  <1>1. CASE WriterFrame
    <2>1. /\ slips' = slips
          /\ InFlight(l, {rem})' <=> InFlight(l, {rem})
          /\ \/ /\ reminders'[l] = reminders[l]
                /\ leads'[l].reminderSent = leads[l].reminderSent
             \/ reminders'[l] = 0
      BY <1>1 DEF WriterFrame, runVars, InFlight
    <2> QED
      BY <1>0, <2>1
  <1>2. ASSUME NEW r \in Runs, RunAction(r)
        PROVE  (reminders[l] <= slips[l][rem]
                  + (IF leads[l].reminderSent \/ InFlight(l, {rem})
                     THEN 1 ELSE 0))'
    <2>1. CASE \/ RequestRun(r)
               \/ BeginRun(r)
               \/ \E p \in todo[r] : SendFails(r, p)
               \/ LogMessage(r)
               \/ FinishRun(r)
               \/ AbortRun(r) /\ pc[r] \notin Accounting
      <3>1. /\ UNCHANGED <<leads, reminders, slips>>
            /\ InFlight(l, {rem})' <=> InFlight(l, {rem})
        BY <2>1, QuietStep
      <3> QED
        BY <1>0, <3>1
    <2>2. ASSUME NEW p \in todo[r], Deliver(r, p)
          PROVE  (reminders[l] <= slips[l][rem]
                    + (IF leads[l].reminderSent \/ InFlight(l, {rem})
                       THEN 1 ELSE 0))'
      <3>1. /\ UNCHANGED <<leads, slips>> /\ p.lead \in Leads /\ p \in Pending(r)
            /\ ~InFlight(l, {rem})
            /\ InFlight(l, {rem})' <=> p.lead = l /\ p.kind \in {rem}
        BY <2>2, DeliverStep
      <3>2. CASE p.lead = l /\ p.kind = rem
        <4>1. ~leads[l].reminderSent
          BY <3>1, <3>2 DEF PlansCurrent
        <4>2. reminders'[l] \in {reminders[l], reminders[l] + 1}
          BY <2>2, <3>1 DEF TypeOK, Deliver
        <4> QED
          BY <1>0, <3>1, <3>2, <4>1, <4>2
      <3>3. CASE ~(p.lead = l /\ p.kind = rem)
        <4>1. reminders'[l] = reminders[l]
          BY <2>2, <3>1, <3>3 DEF TypeOK, Deliver
        <4> QED
          BY <1>0, <3>1, <3>3, <4>1
      <3> QED
        BY <3>2, <3>3
    <2>3. CASE \/ LogRejected(r)
               \/ StampLead(r)
               \/ AbortRun(r) /\ pc[r] \in Accounting
      <3> DEFINE p == current[r]
      <3>1. /\ p \in Plan /\ p.lead \in Leads /\ p.kind \in Kinds
            /\ InFlight(l, {rem}) <=> p.lead = l /\ p.kind \in {rem}
            /\ ~InFlight(l, {rem})'
            /\ reminders' = reminders
            /\ \/ /\ leads' = leads
                  /\ slips' = [slips EXCEPT ![p.lead][p.kind] = @ + 1]
               \/ /\ StampLead(r) /\ StampApplies(p)
                  /\ slips' = slips
        BY <2>3, AccountStep
      <3> HIDE DEF p
      <3>2. CASE leads' = leads /\ slips' = [slips EXCEPT ![p.lead][p.kind] = @ + 1]
        <4>1. slips'[l][rem] =
                slips[l][rem] + (IF p.lead = l /\ p.kind = rem THEN 1 ELSE 0)
          BY <3>1, <3>2, SlipCount
        <4> QED
          BY <1>0, <3>1, <3>2, <4>1
      <3>3. CASE StampLead(r) /\ StampApplies(p) /\ slips' = slips
        <4>1. CASE p.lead = l /\ p.kind = rem
          BY <1>0, <3>1, <3>3, <4>1, StampEffect DEF p
        <4>2. CASE ~(p.lead = l /\ p.kind = rem)
          <5>1. leads'[l].reminderSent = leads[l].reminderSent
            BY <3>1, <3>3, <4>2, StampEffect DEF p, Kinds
          <5> QED
            BY <1>0, <3>1, <3>3, <4>2, <5>1
        <4> QED
          BY <4>1, <4>2
      <3> QED
        BY <3>1, <3>2, <3>3
    <2> QED
      BY <1>2, <2>1, <2>2, <2>3, RunCases
  <1> QED
    BY <1>1, <1>2, NextCases

-------------------------------------------------------------------------------
(* The theorems.                                                             *)

LEMMA InitInv == Init => TypeOK /\ RunsAreCurrent
  <1> SUFFICES ASSUME Init
               PROVE  TypeOK /\ RunsAreCurrent
    OBVIOUS
  <1>1. TypeOK
    <2>1. BlankLead \in LeadRecord
      BY PolicyAssumption DEF BlankLead, LeadRecord, Statuses, Times, PolicyAssumption
    <2>2. [replies |-> 0, operator |-> 0, faults |-> 0] \in Spent
      BY OutreachAssumption DEF Spent, OutreachAssumption
    <2> QED
      BY <2>1, <2>2 DEF Init, TypeOK, Times, Kinds
  <1>2. \A r \in Runs : Pending(r) = {}
    BY DEF Init, Pending
  <1>3. LockInv
    BY OutreachAssumption DEF Init, LockInv, OutreachAssumption
  <1>4. Distinct /\ PlansCurrent
    BY <1>2 DEF Init, Distinct, PlansCurrent
  <1>5. OutreachBudget
    <2>1. \A l \in Leads : ~leads[l].firstOutreachSent
      BY DEF Init, BlankLead
    <2> QED
      BY <2>1, PolicyAssumption
         DEF Init, OutreachBudget, Remaining, OutreachSlips, Kinds, InFlight,
             PolicyAssumption
  <1>6. StopBudget
    BY DEF Init, StopBudget
  <1>7. ReminderBudget
    BY DEF Init, ReminderBudget, Kinds, InFlight, BlankLead
  <1> QED
    BY <1>1, <1>3, <1>4, <1>5, <1>6, <1>7 DEF RunsAreCurrent

LEMMA InvStep ==
    TypeOK /\ RunsAreCurrent /\ [Next]_vars => TypeOK' /\ RunsAreCurrent'
  BY TypeStep, LockStep, DistinctStep, PlansStep, OutreachBudgetStep,
     StopBudgetStep, ReminderBudgetStep DEF RunsAreCurrent

(* The state of a run, its snapshot and the bookkeeping of the leads agree in *)
(* every reachable state: at most one run is inside the tenant lock, what its *)
(* pending plans assume of their leads still holds, and each lead's budget    *)
(* accounts for every message it was sent.                                   *)
THEOREM TypeAndRuns == Spec => [](TypeOK /\ RunsAreCurrent)
  <1>1. Init => TypeOK /\ RunsAreCurrent
    BY InitInv
  <1>2. TypeOK /\ RunsAreCurrent /\ [Next]_vars => (TypeOK /\ RunsAreCurrent)'
    BY InvStep
  <1> QED
    BY <1>1, <1>2, PTL DEF Spec

(* Type correctness on its own: it needs the rest, since a follow-up's stamp  *)
(* stays within the sequence only because its plan is current.               *)
THEOREM TypeCorrect == Spec => []TypeOK
  BY TypeAndRuns, PTL

(* One first message and MaxFollowUps nudges per lead, for any number of      *)
(* ticks, manual runs and leads, but for messages whose bookkeeping was lost. *)
THEOREM OutreachIsBounded == Spec => []BoundedOutreach
  <1>1. TypeOK /\ RunsAreCurrent => BoundedOutreach
    <2> SUFFICES ASSUME TypeOK, RunsAreCurrent, NEW l \in Leads
                 PROVE  delivered[l] <= 1 + MaxFollowUps + OutreachSlips(l)
      BY DEF BoundedOutreach
    <2>1. /\ delivered[l] + Remaining(l) <=
               1 + MaxFollowUps + OutreachSlips(l)
                 + (IF InFlight(l, OutreachKinds) THEN 1 ELSE 0)
          /\ delivered[l] \in Nat /\ OutreachSlips(l) \in Nat
          /\ Remaining(l) \in Int /\ MaxFollowUps \in Nat
      BY BudgetType DEF RunsAreCurrent, OutreachBudget
    <2>2. Remaining(l) >= 0
      <3>1. leads[l].followUpCount \in 0 .. MaxFollowUps
        BY DEF TypeOK, LeadRecord
      <3> QED
        BY <2>1, <3>1 DEF Remaining
    <2>3. InFlight(l, OutreachKinds) => Remaining(l) >= 1
      <3> SUFFICES ASSUME NEW r \in Runs, pc[r] \in Accounting,
                          current[r].lead = l, current[r].kind \in OutreachKinds
                   PROVE  Remaining(l) >= 1
        BY DEF InFlight, Accounting
      <3>1. current[r] \in Pending(r)
        BY CurrentType DEF RunsAreCurrent, Accounting
      <3>2. \/ ~leads[l].firstOutreachSent
            \/ leads[l].firstOutreachSent /\ leads[l].followUpCount < MaxFollowUps
        BY <3>1 DEF RunsAreCurrent, PlansCurrent, OutreachKinds
      <3> QED
        BY <2>1, <3>2, BudgetType DEF Remaining
    <2> QED
      BY <2>1, <2>2, <2>3
  <1> QED
    BY <1>1, TypeAndRuns, PTL

(* After a hard stop at most the message that was already planned goes out.   *)
THEOREM StopIsRespected == Spec => []AtMostOneAfterStop
  <1>1. RunsAreCurrent => AtMostOneAfterStop
    BY DEF RunsAreCurrent, StopBudget, AtMostOneAfterStop
  <1> QED
    BY <1>1, TypeAndRuns, PTL

(* One reminder per appointment, but for those whose bookkeeping was lost.    *)
THEOREM RemindersAreNotRepeated == Spec => []NoDuplicateReminder
  <1>1. TypeOK /\ RunsAreCurrent => NoDuplicateReminder
    BY BudgetType DEF RunsAreCurrent, ReminderBudget, NoDuplicateReminder
  <1> QED
    BY <1>1, TypeAndRuns, PTL

(* No step turns a closed lead into one that was contacted without response.  *)
THEOREM ClosedStaysClosed == Spec => ClosedLeadsStayClosed
  <1>1. TypeOK /\ RunsAreCurrent /\ [Next]_vars
          => [\A l \in Leads :
                leads[l].status \in SuppressedStatuses
                  => leads'[l].status # "contacted_no_response"]_vars
    <2> SUFFICES ASSUME TypeOK, RunsAreCurrent, [Next]_vars, NEW l \in Leads,
                        leads[l].status \in SuppressedStatuses
                 PROVE  leads'[l].status # "contacted_no_response"
      OBVIOUS
    <2>0. leads[l].status # "contacted_no_response"
      BY DEF SuppressedStatuses
    <2>1. CASE WriterFrame
      BY <2>0, <2>1 DEF WriterFrame
    <2>2. ASSUME NEW r \in Runs, RunAction(r)
          PROVE  leads'[l].status # "contacted_no_response"
      <3>1. CASE leads' = leads
        BY <2>0, <3>1
      <3>2. CASE StampLead(r)
        <4> DEFINE p == current[r]
        <4>1. CASE leads'[l].status = leads[l].status
          BY <2>0, <4>1
        <4>2. CASE leads'[l].status # leads[l].status
          <5>1. /\ p.lead = l /\ StampApplies(p) /\ p.kind \in OutreachKinds
                /\ p \in Pending(r)
            BY <3>2, <4>2, StampEffect DEF RunsAreCurrent
          <5>2. leads[l].status = p.status
            BY <3>2, <5>1, StampEffect DEF RunsAreCurrent, OutreachKinds
          <5>3. p.status \notin SuppressedStatuses
            BY <5>1 DEF RunsAreCurrent, PlansCurrent
          <5> QED
            BY <5>2, <5>3
        <4> QED
          BY <4>1, <4>2
      <3> QED
        BY <2>2, <3>1, <3>2, PendingShrinks, BeginPending DEF RunsAreCurrent
    <2> QED
      BY <2>1, <2>2, NextCases
  <1> QED
    BY <1>1, TypeAndRuns, PTL DEF Spec, ClosedLeadsStayClosed

-------------------------------------------------------------------------------
(* The lock between this module and TenantLock. *)

TheTenant == "tenant"

(* The runs as the calls of one tenant, whose holder is the run inside.       *)
TheLock == INSTANCE RunMutex WITH
    Tenants <- {TheTenant},
    Calls <- Runs,
    TenantOf <- [r \in Runs |-> TheTenant],
    NoCall <- NoRun,
    holder <- [t \in {TheTenant} |-> holder]

(* Runs ask of withTenantWorkflowLock no more than TenantLock is shown to     *)
(* give: they enter when nobody is inside, and leave.  A run that throws or    *)
(* dies inside leaves as well.                                               *)
THEOREM RunsUseTheMutex == Spec => TheLock!Spec
<1> DEFINE h == [t \in {TheTenant} |-> holder]
<1>1. Init => TheLock!Init
  BY DEF Init, TheLock!Init
<1>2. ASSUME TypeOK, [Next]_vars
      PROVE  [TheLock!Next]_h
  <2>1. CASE holder' = holder
    BY <2>1
  <2>2. ASSUME NEW r \in Runs, BeginRun(r)
        PROVE  TheLock!Enter(r)
    BY <2>2 DEF BeginRun, LockFree, TheLock!Enter
  <2>3. ASSUME holder' = NoRun
        PROVE  TheLock!Leave
    BY <2>3 DEF TheLock!Leave
  <2>4. holder' = holder \/ holder' = NoRun \/ \E r \in Runs : BeginRun(r)
    <3>1. CASE WriterFrame
      BY <3>1 DEF WriterFrame, runVars
    <3>2. ASSUME NEW r \in Runs, RunAction(r)
          PROVE  holder' = holder \/ holder' = NoRun \/ BeginRun(r)
      BY <3>2 DEF RunAction, RunStep, RequestRun, Deliver, SendFails, LogMessage, LogRejected,
                  StampLead, FinishRun, AbortRun, Leave
    <3> QED BY <1>2, <3>1, <3>2, NextCases
  <2> QED BY <2>1, <2>2, <2>3, <2>4 DEF TheLock!Next
<1> QED BY <1>1, <1>2, TypeCorrect, PTL DEF Spec, TheLock!Spec
===============================================================================
