-------------------------- MODULE NotificationProofs --------------------------
(***************************************************************************)
(* Proofs about Notifications, for any number of notices, overlapping ticks,  *)
(* attempts and noticeFaults.                                                      *)
(*                                                                         *)
(* The inductive invariant is NoticeTypeOK /\ RedeliveryInv.  Apart from one        *)
(* conjunct it speaks of one notice at a time (NoticeInv), so a step is       *)
(* proved for the notice it is about, and NoticeUntouched does the others.    *)
(***************************************************************************)
EXTENDS Notifications, FiniteSetTheorems, TLAPS

IdleTicks == \A t \in Ticks \ running : \A n \in Notices : task[t][n] = "none"

(* What RedeliveryInv says of one notice. *)
FilingInv(n) ==
    /\ row[n].status = "none" =>
           /\ \A t \in Ticks : task[t][n] = "none"
           /\ cycles[n] <= 1
    /\ posting[n] # "done" =>
           /\ row[n].status = "none"
           /\ cycles[n] = IF posting[n] = "failed" THEN 1 ELSE 0

BudgetInv(n) ==
    /\ row[n].status = "pending" =>
           /\ row[n].attempts < MaxAttempts
           /\ cycles[n] <= row[n].attempts + lost[n] + Cardinality(Marking(n))
    /\ row[n].status = "dead" => row[n].attempts >= MaxAttempts
    /\ row[n].status \in {"dead", "deleted"} =>
           cycles[n] + Cardinality(Listed(n))
               <= MaxAttempts - 1 + Cardinality(Ticks) + lost[n]

ListInv(n) ==
    ~overlapped[n] =>
        /\ \A t, u \in Ticks : task[t][n] # "none" /\ task[u][n] # "none" => t = u
        /\ \A t \in Ticks : task[t][n] # "none" =>
               row[n].status = "pending" /\ seen[t][n] = row[n].attempts

OutcomeInv(n) ==
    /\ \A t \in Ticks : task[t][n] = "delivered" => accepted[n]
    /\ posting[n] = "done" => accepted[n] \/ dropped[n] \/ Stored(n)
    /\ row[n].status = "deleted" => accepted[n]
    /\ row[n].status = "dead" => alerted[n] \/ overlapped[n] \/ lost[n] > 0

NoticeInv(n) == FilingInv(n) /\ BudgetInv(n) /\ ListInv(n) /\ OutcomeInv(n)

LEMMA ByNotice ==
    RedeliveryInv <=> IdleTicks /\ \A n \in Notices : NoticeInv(n)
BY DEF RedeliveryInv, TaskInv, CycleBudget, ListsCurrent, DeliveredIsAccepted,
       NeverSilentlyLost, DeadIsAlerted, IdleTicks, NoticeInv, FilingInv,
       BudgetInv, ListInv, OutcomeInv

LEMMA ByNoticeNext ==
    ASSUME IdleTicks', \A n \in Notices : NoticeInv(n)'
    PROVE  RedeliveryInv'
BY DEF RedeliveryInv, TaskInv, CycleBudget, ListsCurrent, DeliveredIsAccepted,
       NeverSilentlyLost, DeadIsAlerted, IdleTicks, NoticeInv, FilingInv,
       BudgetInv, ListInv, OutcomeInv, Marking, Listed, Stored

-------------------------------------------------------------------------------
(* Lemmas about one notice. *)

LEMMA TickCounts ==
    ASSUME NEW n \in Notices
    PROVE  /\ IsFiniteSet(Marking(n)) /\ IsFiniteSet(Listed(n))
           /\ Cardinality(Marking(n)) \in Nat /\ Cardinality(Listed(n)) \in Nat
           /\ Cardinality(Ticks) \in Nat
           /\ Cardinality(Marking(n)) + Cardinality(Listed(n)) <= Cardinality(Ticks)
<1>1. IsFiniteSet(Ticks)
    BY NotificationAssumption DEF NotificationAssumption
<1>2. /\ Marking(n) \in SUBSET Ticks
      /\ Listed(n) \in SUBSET Ticks
      /\ Marking(n) \cup Listed(n) \in SUBSET Ticks
      /\ Marking(n) \cap Listed(n) = {}
    BY DEF Marking, Listed
<1>3. IsFiniteSet(Marking(n)) /\ IsFiniteSet(Listed(n))
    BY <1>1, <1>2, FS_Subset
<1>4. Cardinality(Marking(n) \cup Listed(n)) <= Cardinality(Ticks)
    BY <1>1, <1>2, FS_Subset
<1>5. Cardinality(Marking(n) \cup Listed(n))
          = Cardinality(Marking(n)) + Cardinality(Listed(n)) - Cardinality({})
    BY <1>2, <1>3, FS_Union
<1>6. Cardinality({}) = 0
    BY FS_EmptySet
<1>7. /\ Cardinality(Marking(n)) \in Nat /\ Cardinality(Listed(n)) \in Nat
      /\ Cardinality(Ticks) \in Nat
    BY <1>1, <1>3, FS_CardinalityType
<1>. QED  BY <1>3, <1>4, <1>5, <1>6, <1>7

(* A notice of which nothing changes. *)
LEMMA NoticeUntouched ==
    ASSUME NEW n \in Notices, NoticeInv(n),
           row'[n] = row[n], posting'[n] = posting[n],
           \A t \in Ticks : task'[t][n] = task[t][n] /\ seen'[t][n] = seen[t][n],
           cycles'[n] = cycles[n], lost'[n] = lost[n], accepted'[n] = accepted[n],
           alerted'[n] = alerted[n], dropped'[n] = dropped[n],
           overlapped'[n] = overlapped[n]
    PROVE  NoticeInv(n)'
<1>1. Marking(n)' = Marking(n) /\ Listed(n)' = Listed(n)
    BY DEF Marking, Listed
<1>2. FilingInv(n)'
    BY DEF NoticeInv, FilingInv
<1>3. BudgetInv(n)'
    BY <1>1 DEF NoticeInv, BudgetInv
<1>4. ListInv(n)'
    BY DEF NoticeInv, ListInv
<1>5. OutcomeInv(n)'
    BY DEF NoticeInv, OutcomeInv, Stored
<1>. QED  BY <1>2, <1>3, <1>4, <1>5 DEF NoticeInv

(* A tick that posts a listed row moves it from Listed to Marking. *)
LEMMA PostCounts ==
    ASSUME NEW n \in Notices, NEW t \in Ticks, task[t][n] = "listed",
           task'[t][n] \in {"delivered", "failed"},
           \A u \in Ticks \ {t} : task'[u][n] = task[u][n]
    PROVE  /\ Cardinality(Marking(n))' = Cardinality(Marking(n)) + 1
           /\ Cardinality(Listed(n))' = Cardinality(Listed(n)) - 1
<1>1. Marking(n)' = Marking(n) \cup {t} /\ t \notin Marking(n)
    BY DEF Marking
<1>2. Listed(n)' = Listed(n) \ {t} /\ t \in Listed(n)
    BY DEF Listed
<1>3. IsFiniteSet(Marking(n)) /\ IsFiniteSet(Listed(n))
    BY TickCounts
<1>4. Cardinality(Marking(n) \cup {t}) = Cardinality(Marking(n)) + 1
    BY <1>1, <1>3, FS_AddElement
<1>5. Cardinality(Listed(n) \ {t}) = Cardinality(Listed(n)) - 1
    BY <1>2, <1>3, FS_RemoveElement
<1>. QED  BY <1>1, <1>2, <1>4, <1>5

(* A tick that is done with a row leaves Marking. *)
LEMMA MarkCounts ==
    ASSUME NEW n \in Notices, NEW t \in Ticks,
           task[t][n] \in {"delivered", "failed"}, task'[t][n] = "none",
           \A u \in Ticks \ {t} : task'[u][n] = task[u][n]
    PROVE  /\ Cardinality(Marking(n))' = Cardinality(Marking(n)) - 1
           /\ Listed(n)' = Listed(n)
<1>1. Marking(n)' = Marking(n) \ {t} /\ t \in Marking(n)
    BY DEF Marking
<1>2. Listed(n)' = Listed(n)
    BY DEF Listed
<1>3. IsFiniteSet(Marking(n))
    BY TickCounts
<1>4. Cardinality(Marking(n) \ {t}) = Cardinality(Marking(n)) - 1
    BY <1>1, <1>3, FS_RemoveElement
<1>. QED  BY <1>1, <1>2, <1>4

-------------------------------------------------------------------------------
(* Type correctness. *)

LEMMA RowTypes ==
    ASSUME NEW r \in Row
    PROVE  RowAfterFailure(r) \in Row
BY NotificationAssumption DEF NotificationAssumption, RowAfterFailure, Row

LEMMA TypeStep ==
    ASSUME NoticeTypeOK, [NoticeNext]_noticeVars
    PROVE  NoticeTypeOK'
<1> USE DEF NoticeTypeOK, noticeHistory
<1>2. ASSUME NEW n \in Notices, Deleted(n) \/ Failed(n)
      PROVE  row' \in [Notices -> Row]
    <2>1. row[n] \in Row /\ RowAfterFailure(row[n]) \in Row
        BY RowTypes
    <2>2. CASE Deleted(n)
        BY <2>1, <2>2 DEF Deleted, Row
    <2>3. CASE Failed(n)
        BY <2>1, <2>3 DEF Failed
    <2>. QED  BY <1>2, <2>2, <2>3
<1>3. ASSUME NEW t \in Ticks, NEW n \in Notices, Finish(t, n)
      PROVE  /\ task' \in [Ticks -> [Notices -> {"none", "listed", "delivered", "failed"}]]
             /\ seen' \in [Ticks -> [Notices -> Nat]]
    BY <1>3 DEF Finish
<1>4. NoticeFault => noticeFaults' \in 0 .. MaxNoticeFaults
    BY NotificationAssumption DEF NotificationAssumption, NoticeFault
<1>5. ASSUME NEW n \in Notices, Notify(n)
      PROVE  NoticeTypeOK'
    BY <1>5 DEF Notify
<1>6. ASSUME NEW n \in Notices, NEW ok \in BOOLEAN, PostInline(n, ok)
      PROVE  NoticeTypeOK'
    <2>1. posting' \in [Notices -> {"new", "first", "second", "failed", "done"}]
        BY <1>6 DEF PostInline
    <2>2. accepted' \in [Notices -> BOOLEAN]
        BY <1>6 DEF PostInline
    <2>3. cycles' \in [Notices -> Nat]
        BY <1>6 DEF PostInline
    <2>. QED  BY <1>6, <2>1, <2>2, <2>3 DEF PostInline
<1>7. ASSUME NEW n \in Notices, RecordFailure(n)
      PROVE  NoticeTypeOK'
    BY <1>7 DEF RecordFailure, Row
<1>8. ASSUME NEW n \in Notices, RecordThrows(n)
      PROVE  NoticeTypeOK'
    BY <1>4, <1>8 DEF RecordThrows
<1>9. CASE ServerCrash
    BY <1>4, <1>9 DEF ServerCrash
<1>10. ASSUME NEW t \in Ticks, StartTick(t)
       PROVE  NoticeTypeOK'
    <2>1. task' \in [Ticks -> [Notices -> {"none", "listed", "delivered", "failed"}]]
        BY <1>10 DEF StartTick
    <2>2. \A n \in Notices : row[n].attempts \in Nat
        BY DEF Row
    <2>3. seen' \in [Ticks -> [Notices -> Nat]]
        BY <1>10, <2>2 DEF StartTick
    <2>4. overlapped' \in [Notices -> BOOLEAN]
        BY <1>10 DEF StartTick
    <2>. QED  BY <1>10, <2>1, <2>3, <2>4 DEF StartTick
<1>11. ASSUME NEW t \in Ticks, NEW n \in Notices, NEW ok \in BOOLEAN, Post(t, n, ok)
       PROVE  NoticeTypeOK'
    <2>1. task' \in [Ticks -> [Notices -> {"none", "listed", "delivered", "failed"}]]
        BY <1>11 DEF Post
    <2>2. accepted' \in [Notices -> BOOLEAN] /\ cycles' \in [Notices -> Nat]
        BY <1>11 DEF Post
    <2>. QED  BY <1>11, <2>1, <2>2 DEF Post
<1>12. ASSUME NEW t \in Ticks, NEW n \in Notices, MarkDelivered(t, n)
       PROVE  NoticeTypeOK'
    BY <1>2, <1>3, <1>12 DEF MarkDelivered
<1>13. ASSUME NEW t \in Ticks, NEW n \in Notices, MarkAttemptFailed(t, n)
       PROVE  NoticeTypeOK'
    <2>1. alerted' \in [Notices -> BOOLEAN]
        BY <1>13 DEF MarkAttemptFailed, IsLastAttempt
    <2>. QED  BY <1>2, <1>3, <1>13, <2>1 DEF MarkAttemptFailed
<1>14. ASSUME NEW t \in Ticks, NEW n \in Notices, NEW applied \in BOOLEAN,
              MarkThrows(t, n, applied)
       PROVE  NoticeTypeOK'
    <2>1. row' \in [Notices -> Row]
        BY <1>2, <1>14 DEF MarkThrows
    <2>2. lost' \in [Notices -> Nat]
        BY <1>14 DEF MarkThrows
    <2>. QED  BY <1>3, <1>4, <1>14, <2>1, <2>2 DEF MarkThrows
<1>15. ASSUME NEW t \in Ticks, EndTick(t)
       PROVE  NoticeTypeOK'
    BY <1>15 DEF EndTick
<1>16. CASE WorkerCrash
    <2>1. \A n \in Notices : Cardinality(Marking(n)) \in Nat
        BY TickCounts
    <2>2. lost' \in [Notices -> Nat]
        BY <1>16, <2>1 DEF WorkerCrash
    <2>3. /\ task' \in [Ticks -> [Notices -> {"none", "listed", "delivered", "failed"}]]
          /\ seen' \in [Ticks -> [Notices -> Nat]]
        BY <1>16 DEF WorkerCrash
    <2>. QED  BY <1>4, <1>16, <2>2, <2>3 DEF WorkerCrash
<1>17. CASE UNCHANGED noticeVars
    BY <1>17 DEF noticeVars
<1>. QED
    BY <1>5, <1>6, <1>7, <1>8, <1>9, <1>10, <1>11, <1>12, <1>13, <1>14, <1>15,
       <1>16, <1>17
    DEF NoticeNext, Inline, TickStep

-------------------------------------------------------------------------------
(* The steps of notifyHumanAttention. *)

LEMMA NotifyStep ==
    ASSUME NoticeTypeOK, RedeliveryInv, NEW n \in Notices, Notify(n)
    PROVE  RedeliveryInv'
<1> USE DEF noticeHistory
<1>1. /\ posting[n] = "new" /\ posting'[n] = "first"
      /\ \A m \in Notices \ {n} : posting'[m] = posting[m]
      /\ UNCHANGED <<row, running, task, seen, noticeFaults>>
      /\ UNCHANGED noticeHistory
    BY DEF Notify, NoticeTypeOK
<1>2. IdleTicks'
    BY <1>1, ByNotice DEF IdleTicks
<1>3. \A m \in Notices \ {n} : NoticeInv(m)'
    BY <1>1, ByNotice, NoticeUntouched
<1>4. NoticeInv(n)'
    <2>1. FilingInv(n)'
        BY <1>1, ByNotice DEF NoticeInv, FilingInv
    <2>2. Marking(n)' = Marking(n) /\ Listed(n)' = Listed(n)
        BY <1>1 DEF Marking, Listed
    <2>3. BudgetInv(n)'
        BY <1>1, <2>2, ByNotice DEF NoticeInv, BudgetInv
    <2>4. ListInv(n)' /\ OutcomeInv(n)'
        BY <1>1, ByNotice DEF NoticeInv, ListInv, OutcomeInv, Stored
    <2>. QED  BY <2>1, <2>3, <2>4 DEF NoticeInv
<1>. QED  BY <1>2, <1>3, <1>4, ByNoticeNext

(* A notice that is being posted or filed has no row, and no tick knows it.   *)
LEMMA InFlight ==
    ASSUME NoticeTypeOK, RedeliveryInv, NEW n \in Notices, posting[n] # "done"
    PROVE  /\ row[n].status = "none"
           /\ \A t \in Ticks : task[t][n] = "none"
           /\ cycles[n] = IF posting[n] = "failed" THEN 1 ELSE 0
           /\ Marking(n) = {} /\ Listed(n) = {}
<1>1. FilingInv(n)
    BY ByNotice DEF NoticeInv
<1>2. row[n].status = "none" /\ \A t \in Ticks : task[t][n] = "none"
    BY <1>1 DEF FilingInv
<1>3. cycles[n] = IF posting[n] = "failed" THEN 1 ELSE 0
    BY <1>1 DEF FilingInv
<1>. QED  BY <1>2, <1>3 DEF Marking, Listed

LEMMA PostInlineStep ==
    ASSUME NoticeTypeOK, RedeliveryInv, NEW n \in Notices, NEW ok \in BOOLEAN,
           PostInline(n, ok)
    PROVE  RedeliveryInv'
<1>1. /\ posting[n] \in {"first", "second"}
      /\ posting'[n] = IF ok THEN "done" ELSE IF posting[n] = "first" THEN "second" ELSE "failed"
      /\ accepted'[n] = (accepted[n] \/ ok)
      /\ cycles'[n] = IF ok \/ posting[n] = "second" THEN cycles[n] + 1 ELSE cycles[n]
      /\ \A m \in Notices \ {n} :
             posting'[m] = posting[m] /\ accepted'[m] = accepted[m] /\ cycles'[m] = cycles[m]
      /\ UNCHANGED <<row, running, task, seen, noticeFaults, alerted, lost, dropped, overlapped>>
    BY DEF PostInline, NoticeTypeOK
<1>2. IdleTicks'
    BY <1>1, ByNotice DEF IdleTicks
<1>3. \A m \in Notices \ {n} : NoticeInv(m)'
    BY <1>1, ByNotice, NoticeUntouched
<1>4. /\ row'[n].status = "none"
      /\ \A t \in Ticks : task'[t][n] = "none"
      /\ cycles[n] = 0
    BY <1>1, InFlight
<1>5. NoticeInv(n)'
    <2>1. FilingInv(n)'
        BY <1>1, <1>4 DEF FilingInv
    <2>2. BudgetInv(n)' /\ ListInv(n)'
        BY <1>4 DEF BudgetInv, ListInv
    <2>3. OutcomeInv(n)'
        BY <1>1, <1>4 DEF OutcomeInv
    <2>. QED  BY <2>1, <2>2, <2>3 DEF NoticeInv
<1>. QED  BY <1>2, <1>3, <1>5, ByNoticeNext

LEMMA RecordFailureStep ==
    ASSUME NoticeTypeOK, RedeliveryInv, NEW n \in Notices, RecordFailure(n)
    PROVE  RedeliveryInv'
<1> USE DEF noticeHistory
<1>1. /\ posting[n] = "failed" /\ posting'[n] = "done"
      /\ row'[n] = [status |-> "pending", attempts |-> 1]
      /\ \A m \in Notices \ {n} : posting'[m] = posting[m] /\ row'[m] = row[m]
      /\ UNCHANGED <<running, task, seen, noticeFaults>>
      /\ UNCHANGED noticeHistory
    BY DEF RecordFailure, NoticeTypeOK
<1>2. IdleTicks'
    BY <1>1, ByNotice DEF IdleTicks
<1>3. \A m \in Notices \ {n} : NoticeInv(m)'
    BY <1>1, ByNotice, NoticeUntouched
<1>4. /\ \A t \in Ticks : task'[t][n] = "none"
      /\ cycles'[n] = 1
      /\ Cardinality(Marking(n))' \in Nat
      /\ lost'[n] \in Nat
    <2>1. cycles[n] = 1 /\ \A t \in Ticks : task[t][n] = "none"
        BY <1>1, InFlight
    <2>2. Marking(n)' = Marking(n)
        BY <1>1 DEF Marking
    <2>3. Cardinality(Marking(n)) \in Nat
        BY TickCounts
    <2>4. lost[n] \in Nat
        BY DEF NoticeTypeOK
    <2>. QED  BY <1>1, <2>1, <2>2, <2>3, <2>4
<1>5. NoticeInv(n)'
    <2>1. FilingInv(n)'
        BY <1>1 DEF FilingInv
    <2>2. BudgetInv(n)'
        BY <1>1, <1>4, NotificationAssumption DEF BudgetInv, NotificationAssumption
    <2>3. ListInv(n)' /\ OutcomeInv(n)'
        BY <1>1, <1>4 DEF ListInv, OutcomeInv, Stored
    <2>. QED  BY <2>1, <2>2, <2>3 DEF NoticeInv
<1>. QED  BY <1>2, <1>3, <1>5, ByNoticeNext

(* A notice whose sender gives up on it without a row. *)
LEMMA NoticeDropped ==
    ASSUME NoticeTypeOK, RedeliveryInv, NEW n \in Notices,
           posting[n] # "done", posting'[n] = "done", dropped'[n],
           UNCHANGED <<row, running, task, seen, cycles, accepted, alerted, lost,
                       overlapped>>
    PROVE  NoticeInv(n)'
<1>1. /\ row'[n].status = "none"
      /\ \A t \in Ticks : task'[t][n] = "none"
      /\ cycles'[n] <= 1
    BY InFlight
<1>2. FilingInv(n)' /\ BudgetInv(n)' /\ ListInv(n)' /\ OutcomeInv(n)'
    BY <1>1 DEF FilingInv, BudgetInv, ListInv, OutcomeInv
<1>. QED  BY <1>2 DEF NoticeInv

LEMMA RecordThrowsStep ==
    ASSUME NoticeTypeOK, RedeliveryInv, NEW n \in Notices, RecordThrows(n)
    PROVE  RedeliveryInv'
<1>1. /\ posting[n] = "failed" /\ posting'[n] = "done" /\ dropped'[n]
      /\ \A m \in Notices \ {n} : posting'[m] = posting[m] /\ dropped'[m] = dropped[m]
      /\ UNCHANGED <<row, running, task, seen, cycles, accepted, alerted, lost, overlapped>>
    BY DEF RecordThrows, NoticeTypeOK
<1>2. IdleTicks'
    BY <1>1, ByNotice DEF IdleTicks
<1>3. \A m \in Notices \ {n} : NoticeInv(m)'
    BY <1>1, ByNotice, NoticeUntouched
<1>4. NoticeInv(n)'
    BY <1>1, NoticeDropped
<1>. QED  BY <1>2, <1>3, <1>4, ByNoticeNext

LEMMA ServerCrashStep ==
    ASSUME NoticeTypeOK, RedeliveryInv, ServerCrash
    PROVE  RedeliveryInv'
<1>1. UNCHANGED <<row, running, task, seen, cycles, accepted, alerted, lost, overlapped>>
    BY DEF ServerCrash
<1>2. IdleTicks'
    BY <1>1, ByNotice DEF IdleTicks
<1>3. ASSUME NEW n \in Notices
      PROVE  NoticeInv(n)'
    <2>1. CASE posting[n] \in {"first", "second", "failed"}
        BY <1>1, <2>1, NoticeDropped DEF ServerCrash
    <2>2. CASE posting[n] \in {"new", "done"}
        <3>1. posting'[n] = posting[n] /\ dropped'[n] = dropped[n]
            BY <2>2 DEF ServerCrash, NoticeTypeOK
        <3>. QED  BY <1>1, <3>1, ByNotice, NoticeUntouched
    <2>. QED  BY <2>1, <2>2 DEF NoticeTypeOK
<1>. QED  BY <1>2, <1>3, ByNoticeNext

-------------------------------------------------------------------------------
(* The steps of redeliverFailedNotifications. *)

(* What a row is after a mark, pointwise. *)
LEMMA MarkedRow ==
    ASSUME NoticeTypeOK, NEW n \in Notices, Deleted(n) \/ Failed(n)
    PROVE  /\ \A m \in Notices \ {n} : row'[m] = row[m]
           /\ Deleted(n) => row'[n].status = IF Stored(n) THEN "deleted" ELSE row[n].status
           /\ Failed(n) /\ ~Stored(n) => row'[n] = row[n]
           /\ Failed(n) /\ Stored(n) =>
                  /\ row'[n].attempts = row[n].attempts + 1
                  /\ row'[n].status = IF row[n].attempts + 1 >= MaxAttempts
                                      THEN "dead" ELSE "pending"
<1>1. row \in [Notices -> Row] /\ row[n] \in Row
    BY DEF NoticeTypeOK
<1>2. \A m \in Notices \ {n} : row'[m] = row[m]
    BY <1>1 DEF Deleted, Failed
<1>3. CASE Deleted(n)
    <2>1. row'[n] = [row[n] EXCEPT !.status = IF Stored(n) THEN "deleted" ELSE @]
        BY <1>1, <1>3 DEF Deleted
    <2>2. row'[n].status = IF Stored(n) THEN "deleted" ELSE row[n].status
        BY <1>1, <2>1 DEF Row
    <2>3. Failed(n) => row'[n] = IF Stored(n) THEN RowAfterFailure(row[n]) ELSE row[n]
        BY <1>1 DEF Failed
    <2>. QED  BY <1>2, <2>2, <2>3 DEF RowAfterFailure
<1>4. CASE ~Deleted(n)
    <2>1. row'[n] = IF Stored(n) THEN RowAfterFailure(row[n]) ELSE row[n]
        BY <1>1, <1>4 DEF Failed
    <2>. QED  BY <1>2, <1>4, <2>1 DEF RowAfterFailure
<1>. QED  BY <1>3, <1>4

(* The budget of a row that a tick has posted and now marks, or fails to.     *)
LEMMA MarkedBudget ==
    ASSUME NoticeTypeOK, NEW n \in Notices, BudgetInv(n), row[n].status # "none",
           cycles'[n] = cycles[n],
           Cardinality(Marking(n))' = Cardinality(Marking(n)) - 1,
           Listed(n)' = Listed(n),
           lost'[n] \in {lost[n], lost[n] + 1},
           \/ lost'[n] = lost[n] + 1 /\ row'[n] = row[n]
           \/ Deleted(n)
           \/ Failed(n)
    PROVE  BudgetInv(n)'
<1> DEFINE marking == Cardinality(Marking(n))
           listed == Cardinality(Listed(n))
           ticks == Cardinality(Ticks)
           a == row[n].attempts
<1>1. /\ marking \in Nat /\ listed \in Nat /\ ticks \in Nat
      /\ marking + listed <= ticks
    BY TickCounts
<1>2. /\ a \in Nat /\ cycles[n] \in Nat /\ lost[n] \in Nat
      /\ row[n] \in Row
      /\ MaxAttempts \in Nat
    BY NotificationAssumption DEF NotificationAssumption, NoticeTypeOK, Row
<1>3. /\ marking' = marking - 1 /\ listed' = listed /\ ticks' = ticks
      /\ lost'[n] = lost[n] \/ lost'[n] = lost[n] + 1
    OBVIOUS
<1>4. /\ row[n].status = "pending" =>
             a < MaxAttempts /\ cycles[n] <= a + lost[n] + marking
      /\ row[n].status = "dead" => a >= MaxAttempts
      /\ row[n].status \in {"dead", "deleted"} =>
             cycles[n] + listed <= MaxAttempts - 1 + ticks + lost[n]
    BY DEF BudgetInv
<1>5. row[n].status \in {"pending", "dead", "deleted"}
    BY <1>2 DEF Row
<1> HIDE DEF marking, listed, ticks
<1>6. SUFFICES
        /\ row'[n].status = "pending" =>
               /\ row'[n].attempts < MaxAttempts
               /\ cycles[n] <= row'[n].attempts + lost'[n] + marking'
        /\ row'[n].status = "dead" => row'[n].attempts >= MaxAttempts
        /\ row'[n].status \in {"dead", "deleted"} =>
               cycles[n] + listed <= MaxAttempts - 1 + ticks + lost'[n]
    BY <1>3 DEF BudgetInv, marking, listed, ticks
<1>7. CASE lost'[n] = lost[n] + 1 /\ row'[n] = row[n]
    BY <1>1, <1>2, <1>3, <1>4, <1>7
<1>8. cycles[n] + listed <= MaxAttempts - 1 + ticks + lost'[n]
    BY <1>1, <1>2, <1>3, <1>4, <1>5
<1>9. CASE Deleted(n)
    <2>1. row'[n].status \in {"deleted", row[n].status} /\ row'[n].status # "pending"
        BY <1>5, <1>9, MarkedRow DEF Stored
    <2>2. row'[n].status = "dead" => FALSE
        BY <1>5, <1>9, MarkedRow DEF Stored
    <2>. QED  BY <1>8, <2>1, <2>2
<1>10. CASE Failed(n)
    <2>1. CASE row[n].status = "deleted"
        <3>1. row'[n].status = "deleted"
            BY <1>10, <2>1, MarkedRow DEF Stored
        <3>. QED  BY <1>8, <3>1
    <2>2. CASE row[n].status \in {"pending", "dead"}
        <3>1. /\ row'[n].attempts = a + 1
              /\ row'[n].status = IF a + 1 >= MaxAttempts THEN "dead" ELSE "pending"
            BY <1>10, <2>2, MarkedRow DEF Stored
        <3>2. CASE a + 1 >= MaxAttempts
            BY <1>8, <3>1, <3>2
        <3>3. CASE ~(a + 1 >= MaxAttempts)
            <4>1. row[n].status = "pending"
                BY <1>2, <1>4, <2>2, <3>3
            <4>. QED  BY <1>1, <1>2, <1>3, <1>4, <3>1, <3>3, <4>1
        <3>. QED  BY <3>2, <3>3
    <2>. QED  BY <1>5, <2>1, <2>2
<1>. QED  BY <1>7, <1>9, <1>10

(* The notice whose row a tick marks, or fails to mark. *)
LEMMA NoticeMarked ==
    ASSUME NoticeTypeOK, RedeliveryInv, NEW t \in Ticks, NEW n \in Notices,
           task[t][n] \in {"delivered", "failed"}, Finish(t, n),
           UNCHANGED <<posting, cycles, accepted, dropped, overlapped>>,
           alerted'[n] \in BOOLEAN, alerted[n] => alerted'[n],
           lost'[n] \in {lost[n], lost[n] + 1},
           \/ lost'[n] = lost[n] + 1 /\ row'[n] = row[n]
           \/ task[t][n] = "delivered" /\ Deleted(n)
           \/ Failed(n) /\ lost'[n] = lost[n] + 1
           \/ Failed(n) /\ alerted'[n] = (alerted[n] \/ IsLastAttempt(seen[t][n]))
    PROVE  NoticeInv(n)'
<1>1. FilingInv(n) /\ BudgetInv(n) /\ ListInv(n) /\ OutcomeInv(n)
    BY ByNotice DEF NoticeInv
<1>2. task'[t][n] = "none" /\ \A u \in Ticks \ {t} : task'[u][n] = task[u][n]
    BY DEF Finish, NoticeTypeOK
<1>3. posting[n] = "done" /\ row[n].status \in {"pending", "dead", "deleted"}
    <2>1. row[n].status # "none"
        BY <1>1 DEF FilingInv
    <2>2. row[n].status \in {"none", "pending", "dead", "deleted"}
        BY DEF NoticeTypeOK, Row
    <2>. QED  BY <1>1, <2>1, <2>2 DEF FilingInv
<1>4. lost[n] \in Nat /\ accepted[n] \in BOOLEAN /\ dropped[n] \in BOOLEAN
    BY DEF NoticeTypeOK
<1>5. /\ row'[n].status # "none"
      /\ row'[n].status = "deleted" => row[n].status = "deleted" \/ task[t][n] = "delivered"
      /\ row[n].status = "deleted" => row'[n].status = "deleted"
    BY <1>3, MarkedRow DEF Stored
<1>6. FilingInv(n)'
    BY <1>3, <1>5 DEF FilingInv
<1>7. BudgetInv(n)'
    BY <1>1, <1>2, <1>3, MarkCounts, MarkedBudget
<1>8. ListInv(n)'
    BY <1>1, <1>2 DEF ListInv
<1>9. OutcomeInv(n)'
    <2>1. \A u \in Ticks : task'[u][n] = "delivered" => accepted'[n]
        BY <1>1, <1>2 DEF OutcomeInv
    <2>2. row'[n].status = "deleted" => accepted'[n]
        BY <1>1, <1>5 DEF OutcomeInv
    <2>3. accepted'[n] \/ dropped'[n] \/ Stored(n)'
        <3>1. row'[n].status \in {"pending", "dead", "deleted"}
            BY <1>3, MarkedRow DEF Stored
        <3>. QED  BY <2>2, <3>1 DEF Stored
    <2>4. row'[n].status = "dead" => alerted'[n] \/ overlapped'[n] \/ lost'[n] > 0
        <3>1. CASE lost'[n] = lost[n] + 1
            BY <1>4, <3>1
        <3>2. CASE task[t][n] = "delivered" /\ Deleted(n)
            BY <1>3, <3>2, MarkedRow DEF Stored
        <3>3. CASE Failed(n) /\ alerted'[n] = (alerted[n] \/ IsLastAttempt(seen[t][n]))
            <4>1. CASE overlapped[n]
                BY <4>1
            <4>2. CASE ~overlapped[n]
                <5>1. row[n].status = "pending" /\ seen[t][n] = row[n].attempts
                    BY <1>1, <4>2 DEF ListInv
                <5>2. row'[n].status = "dead" => row[n].attempts + 1 >= MaxAttempts
                    BY <3>3, <5>1, MarkedRow DEF Stored
                <5>. QED  BY <3>3, <5>1, <5>2 DEF IsLastAttempt
            <4>. QED  BY <4>1, <4>2
        <3>. QED  BY <3>1, <3>2, <3>3
    <2>. QED  BY <2>1, <2>2, <2>3, <2>4 DEF OutcomeInv
<1>. QED  BY <1>6, <1>7, <1>8, <1>9 DEF NoticeInv

(* The other notices, and the idle ticks, of such a step. *)
LEMMA OthersOfMark ==
    ASSUME NoticeTypeOK, RedeliveryInv, NEW t \in Ticks, NEW n \in Notices,
           task[t][n] \in {"delivered", "failed"}, Finish(t, n),
           UNCHANGED <<posting, running, cycles, accepted, dropped, overlapped>>,
           \A m \in Notices \ {n} :
               row'[m] = row[m] /\ alerted'[m] = alerted[m] /\ lost'[m] = lost[m]
    PROVE  IdleTicks' /\ \A m \in Notices \ {n} : NoticeInv(m)'
<1>1. /\ task'[t][n] = "none"
      /\ \A u \in Ticks : \A m \in Notices \ {n} :
             task'[u][m] = task[u][m] /\ seen'[u][m] = seen[u][m]
      /\ \A u \in Ticks \ {t} : task'[u][n] = task[u][n]
    BY DEF Finish, NoticeTypeOK
<1>2. IdleTicks'
    BY <1>1, ByNotice DEF IdleTicks
<1>3. \A m \in Notices \ {n} : NoticeInv(m)'
    BY <1>1, ByNotice, NoticeUntouched
<1>. QED  BY <1>2, <1>3

LEMMA MarkDeliveredStep ==
    ASSUME NoticeTypeOK, RedeliveryInv, NEW t \in Ticks, NEW n \in Notices,
           MarkDelivered(t, n)
    PROVE  RedeliveryInv'
<1>1. /\ task[t][n] = "delivered" /\ Finish(t, n) /\ Deleted(n)
      /\ UNCHANGED <<posting, running, cycles, accepted, alerted, lost, dropped, overlapped>>
    BY DEF MarkDelivered, noticeHistory
<1>2. /\ \A m \in Notices \ {n} : row'[m] = row[m]
      /\ alerted[n] \in BOOLEAN
    BY <1>1, MarkedRow DEF NoticeTypeOK
<1>3. NoticeInv(n)'
    BY <1>1, <1>2, NoticeMarked
<1>4. IdleTicks' /\ \A m \in Notices \ {n} : NoticeInv(m)'
    BY <1>1, <1>2, OthersOfMark
<1>. QED  BY <1>3, <1>4, ByNoticeNext

LEMMA MarkAttemptFailedStep ==
    ASSUME NoticeTypeOK, RedeliveryInv, NEW t \in Ticks, NEW n \in Notices,
           MarkAttemptFailed(t, n)
    PROVE  RedeliveryInv'
<1>1. /\ task[t][n] = "failed" /\ Finish(t, n) /\ Failed(n)
      /\ UNCHANGED <<posting, running, cycles, accepted, lost, dropped, overlapped>>
    BY DEF MarkAttemptFailed
<1>2. /\ alerted'[n] = (alerted[n] \/ IsLastAttempt(seen[t][n]))
      /\ alerted'[n] \in BOOLEAN /\ alerted[n] => alerted'[n]
      /\ \A m \in Notices \ {n} : alerted'[m] = alerted[m]
    BY DEF MarkAttemptFailed, NoticeTypeOK, IsLastAttempt
<1>3. \A m \in Notices \ {n} : row'[m] = row[m]
    BY <1>1, MarkedRow
<1>4. NoticeInv(n)'
    BY <1>1, <1>2, NoticeMarked
<1>5. IdleTicks' /\ \A m \in Notices \ {n} : NoticeInv(m)'
    BY <1>1, <1>2, <1>3, OthersOfMark
<1>. QED  BY <1>4, <1>5, ByNoticeNext

LEMMA MarkThrowsStep ==
    ASSUME NoticeTypeOK, RedeliveryInv, NEW t \in Ticks, NEW n \in Notices,
           NEW applied \in BOOLEAN, MarkThrows(t, n, applied)
    PROVE  RedeliveryInv'
<1>1. /\ task[t][n] \in {"delivered", "failed"} /\ Finish(t, n)
      /\ UNCHANGED <<posting, running, cycles, accepted, alerted, dropped, overlapped>>
    BY DEF MarkThrows
<1>2. /\ lost'[n] = lost[n] + 1 /\ alerted[n] \in BOOLEAN
      /\ \A m \in Notices \ {n} : lost'[m] = lost[m]
    BY DEF MarkThrows, NoticeTypeOK
<1>3. \/ row' = row
      \/ task[t][n] = "delivered" /\ Deleted(n)
      \/ Failed(n)
    BY DEF MarkThrows
<1>4. \A m \in Notices \ {n} : row'[m] = row[m]
    BY <1>3, MarkedRow
<1>5. NoticeInv(n)'
    BY <1>1, <1>2, <1>3, NoticeMarked
<1>6. IdleTicks' /\ \A m \in Notices \ {n} : NoticeInv(m)'
    BY <1>1, <1>2, <1>4, OthersOfMark
<1>. QED  BY <1>5, <1>6, ByNoticeNext

LEMMA PostStep ==
    ASSUME NoticeTypeOK, RedeliveryInv, NEW t \in Ticks, NEW n \in Notices,
           NEW ok \in BOOLEAN, Post(t, n, ok)
    PROVE  RedeliveryInv'
<1>1. /\ task[t][n] = "listed"
      /\ task'[t][n] = IF ok THEN "delivered" ELSE "failed"
      /\ \A u \in Ticks \ {t} : task'[u][n] = task[u][n]
      /\ \A u \in Ticks : \A m \in Notices \ {n} : task'[u][m] = task[u][m]
      /\ UNCHANGED <<posting, row, running, seen, noticeFaults, alerted, lost, dropped, overlapped>>
    BY DEF Post, NoticeTypeOK
<1>2. /\ cycles'[n] = cycles[n] + 1 /\ accepted'[n] = (accepted[n] \/ ok)
      /\ \A m \in Notices \ {n} : cycles'[m] = cycles[m] /\ accepted'[m] = accepted[m]
    BY DEF Post, NoticeTypeOK
<1>3. FilingInv(n) /\ BudgetInv(n) /\ ListInv(n) /\ OutcomeInv(n)
    BY ByNotice DEF NoticeInv
<1>4. IdleTicks'
    BY <1>1, ByNotice DEF IdleTicks
<1>5. \A m \in Notices \ {n} : NoticeInv(m)'
    BY <1>1, <1>2, ByNotice, NoticeUntouched
<1>6. FilingInv(n)'
    BY <1>1, <1>3 DEF FilingInv
<1>7. BudgetInv(n)'
    <2>1. /\ Cardinality(Marking(n))' = Cardinality(Marking(n)) + 1
          /\ Cardinality(Listed(n))' = Cardinality(Listed(n)) - 1
        BY <1>1, PostCounts
    <2>2. /\ Cardinality(Marking(n)) \in Nat /\ Cardinality(Listed(n)) \in Nat
          /\ Cardinality(Ticks) \in Nat
        BY TickCounts
    <2>3. cycles[n] \in Nat /\ lost[n] \in Nat /\ row[n].attempts \in Nat
          /\ MaxAttempts \in Nat
        BY NotificationAssumption DEF NotificationAssumption, NoticeTypeOK, Row
    <2>. QED  BY <1>1, <1>2, <1>3, <2>1, <2>2, <2>3 DEF BudgetInv
<1>8. ListInv(n)'
    BY <1>1, <1>3 DEF ListInv
<1>9. OutcomeInv(n)'
    BY <1>1, <1>2, <1>3 DEF OutcomeInv, Stored
<1>. QED  BY <1>4, <1>5, <1>6, <1>7, <1>8, <1>9, ByNoticeNext DEF NoticeInv

LEMMA StartTickStep ==
    ASSUME NoticeTypeOK, RedeliveryInv, NEW t \in Ticks, StartTick(t)
    PROVE  RedeliveryInv'
<1>1. /\ t \notin running /\ running' = running \cup {t}
      /\ UNCHANGED <<posting, row, noticeFaults, cycles, accepted, alerted, lost, dropped>>
    BY DEF StartTick
<1>2. \A n \in Notices :
          /\ task[t][n] = "none"
          /\ task'[t][n] = IF Pending(n) THEN "listed" ELSE "none"
          /\ seen'[t][n] = IF Pending(n) THEN row[n].attempts ELSE 0
          /\ \A u \in Ticks \ {t} : task'[u][n] = task[u][n] /\ seen'[u][n] = seen[u][n]
          /\ overlapped'[n] = \/ overlapped[n]
                              \/ /\ Pending(n)
                                 /\ \E u \in Ticks \ {t} : task[u][n] # "none"
    BY <1>1, ByNotice DEF StartTick, NoticeTypeOK, IdleTicks
<1>3. IdleTicks'
    BY <1>1, <1>2, ByNotice DEF IdleTicks
<1>4. ASSUME NEW n \in Notices
      PROVE  NoticeInv(n)'
    <2>1. FilingInv(n) /\ BudgetInv(n) /\ ListInv(n) /\ OutcomeInv(n)
        BY ByNotice DEF NoticeInv
    <2>2. FilingInv(n)'
        BY <1>1, <1>2, <2>1 DEF FilingInv, Pending
    <2>3. BudgetInv(n)'
        <3>1. Marking(n)' = Marking(n)
            BY <1>2 DEF Marking
        <3>2. row[n].status # "pending" => Listed(n)' = Listed(n)
            BY <1>2 DEF Listed, Pending
        <3>. QED  BY <1>1, <2>1, <3>1, <3>2 DEF BudgetInv
    <2>4. ListInv(n)'
        <3> SUFFICES ASSUME ~overlapped'[n]
                     PROVE  /\ \A u, v \in Ticks :
                                   task'[u][n] # "none" /\ task'[v][n] # "none" => u = v
                            /\ \A u \in Ticks : task'[u][n] # "none" =>
                                   row'[n].status = "pending" /\ seen'[u][n] = row'[n].attempts
            BY DEF ListInv
        <3>1. CASE Pending(n)
            <4>1. \A u \in Ticks \ {t} : task'[u][n] = "none"
                BY <1>2, <3>1
            <4>2. seen'[t][n] = row'[n].attempts /\ row'[n].status = "pending"
                BY <1>1, <1>2, <3>1 DEF Pending
            <4>. QED  BY <4>1, <4>2
        <3>2. CASE ~Pending(n)
            <4>1. task'[t][n] = "none"
                BY <1>2, <3>2
            <4>2. \A u \in Ticks : task'[u][n] # "none" =>
                      u # t /\ task[u][n] # "none" /\ seen'[u][n] = seen[u][n]
                BY <1>2, <4>1
            <4>3. ~overlapped[n]
                BY <1>2
            <4>. QED  BY <1>1, <2>1, <4>2, <4>3 DEF ListInv
        <3>. QED  BY <3>1, <3>2
    <2>5. OutcomeInv(n)'
        BY <1>1, <1>2, <2>1 DEF OutcomeInv, Stored
    <2>. QED  BY <2>2, <2>3, <2>4, <2>5 DEF NoticeInv
<1>. QED  BY <1>3, <1>4, ByNoticeNext

LEMMA EndTickStep ==
    ASSUME NoticeTypeOK, RedeliveryInv, NEW t \in Ticks, EndTick(t)
    PROVE  RedeliveryInv'
<1>1. /\ \A n \in Notices : task[t][n] = "none"
      /\ running' = running \ {t}
      /\ UNCHANGED <<posting, row, task, seen, noticeFaults>> /\ UNCHANGED noticeHistory
    BY DEF EndTick
<1>2. IdleTicks'
    BY <1>1, ByNotice DEF IdleTicks
<1>3. \A n \in Notices : NoticeInv(n)'
    BY <1>1, ByNotice, NoticeUntouched DEF noticeHistory
<1>. QED  BY <1>2, <1>3, ByNoticeNext

LEMMA WorkerCrashStep ==
    ASSUME NoticeTypeOK, RedeliveryInv, WorkerCrash
    PROVE  RedeliveryInv'
<1>1. /\ UNCHANGED <<posting, row, cycles, accepted, alerted, dropped, overlapped>>
      /\ \A n \in Notices : lost'[n] = lost[n] + Cardinality(Marking(n))
      /\ \A n \in Notices, t \in Ticks : task'[t][n] = "none"
    BY DEF WorkerCrash
<1>2. IdleTicks'
    BY <1>1 DEF IdleTicks
<1>3. ASSUME NEW n \in Notices
      PROVE  NoticeInv(n)'
    <2>1. FilingInv(n) /\ BudgetInv(n) /\ ListInv(n) /\ OutcomeInv(n)
        BY ByNotice DEF NoticeInv
    <2>2. /\ Marking(n)' = {} /\ Listed(n)' = {}
          /\ Cardinality({}) = 0
        BY <1>1, FS_EmptySet DEF Marking, Listed
    <2>3. /\ Cardinality(Marking(n)) \in Nat /\ Cardinality(Listed(n)) \in Nat
          /\ Cardinality(Ticks) \in Nat
        BY TickCounts
    <2>4. cycles[n] \in Nat /\ lost[n] \in Nat /\ row[n].attempts \in Nat
          /\ MaxAttempts \in Nat
        BY NotificationAssumption DEF NotificationAssumption, NoticeTypeOK, Row
    <2>5. lost'[n] \in Nat /\ lost'[n] >= lost[n]
        BY <1>1, <2>3, <2>4
    <2>6. BudgetInv(n)'
        <3>1. Cardinality(Marking(n))' = 0 /\ Cardinality(Listed(n))' = 0
            BY <2>2
        <3>2. row[n].status = "pending" =>
                  cycles[n] <= row[n].attempts + lost'[n] + 0
            BY <1>1, <2>1, <2>3, <2>4 DEF BudgetInv
        <3>3. row[n].status \in {"dead", "deleted"} =>
                  cycles[n] + 0 <= MaxAttempts - 1 + Cardinality(Ticks) + lost'[n]
            BY <2>1, <2>3, <2>4, <2>5 DEF BudgetInv
        <3>. QED  BY <1>1, <2>1, <3>1, <3>2, <3>3 DEF BudgetInv
    <2>7. FilingInv(n)' /\ ListInv(n)'
        BY <1>1, <2>1 DEF FilingInv, ListInv
    <2>8. OutcomeInv(n)'
        BY <1>1, <2>1, <2>4, <2>5 DEF OutcomeInv, Stored
    <2>. QED  BY <2>6, <2>7, <2>8 DEF NoticeInv
<1>. QED  BY <1>2, <1>3, ByNoticeNext

-------------------------------------------------------------------------------
(* The theorems. *)

LEMMA InitHolds == NoticeInit => NoticeTypeOK /\ RedeliveryInv
<1> SUFFICES ASSUME NoticeInit
             PROVE  NoticeTypeOK /\ RedeliveryInv
    OBVIOUS
<1>1. NoticeTypeOK
    BY NotificationAssumption DEF NotificationAssumption, NoticeInit, NoticeTypeOK, Row
<1>2. RedeliveryInv
    BY DEF NoticeInit, RedeliveryInv, TaskInv, CycleBudget, ListsCurrent,
           DeliveredIsAccepted, NeverSilentlyLost, DeadIsAlerted
<1>. QED  BY <1>1, <1>2

LEMMA InvStep ==
    ASSUME NoticeTypeOK, RedeliveryInv, [NoticeNext]_noticeVars
    PROVE  RedeliveryInv'
<1>1. CASE UNCHANGED noticeVars
    <2>1. UNCHANGED <<posting, row, running, task, seen, cycles, accepted, alerted,
                      lost, dropped, overlapped>>
        BY <1>1 DEF noticeVars
    <2>2. IdleTicks' /\ \A n \in Notices : NoticeInv(n)'
        BY <2>1, ByNotice, NoticeUntouched DEF IdleTicks
    <2>. QED  BY <2>2, ByNoticeNext
<1>. QED
    BY <1>1, NotifyStep, PostInlineStep, RecordFailureStep, RecordThrowsStep,
       ServerCrashStep, StartTickStep, PostStep, MarkDeliveredStep,
       MarkAttemptFailedStep, MarkThrowsStep, EndTickStep, WorkerCrashStep
    DEF NoticeNext, Inline, TickStep

(* NoticeTypeOK /\ RedeliveryInv is inductive: attempts account for the cycles of a *)
(* pending row, and the lists of ticks that do not overlap agree with the     *)
(* store.                                                                    *)
THEOREM RedeliveryInvHolds == NoticeSpec => [](NoticeTypeOK /\ RedeliveryInv)
<1>1. NoticeInit => NoticeTypeOK /\ RedeliveryInv
    BY InitHolds
<1>2. NoticeTypeOK /\ RedeliveryInv /\ [NoticeNext]_noticeVars => (NoticeTypeOK /\ RedeliveryInv)'
    BY TypeStep, InvStep
<1>. QED  BY <1>1, <1>2, PTL DEF NoticeSpec

(* No filed notification is posted more than NOTIFICATION_MAX_ATTEMPTS times, *)
(* plus once per further overlapping tick and per lost mark.                 *)
THEOREM RetriesAreBounded == NoticeSpec => []RetriesBounded
<1>1. ASSUME NoticeTypeOK, RedeliveryInv
      PROVE  RetriesBounded
    <2> SUFFICES ASSUME NEW n \in Notices
                 PROVE  cycles[n] <= MaxAttempts - 1 + Cardinality(Ticks) + lost[n]
        BY DEF RetriesBounded
    <2>1. FilingInv(n) /\ BudgetInv(n)
        BY <1>1, ByNotice DEF NoticeInv
    <2>2. /\ Cardinality(Marking(n)) \in Nat /\ Cardinality(Listed(n)) \in Nat
          /\ Cardinality(Ticks) \in Nat
          /\ Cardinality(Marking(n)) + Cardinality(Listed(n)) <= Cardinality(Ticks)
        BY TickCounts
    <2>3. /\ cycles[n] \in Nat /\ lost[n] \in Nat /\ row[n].attempts \in Nat
          /\ row[n].status \in {"none", "pending", "dead", "deleted"}
          /\ MaxAttempts \in Nat \ {0, 1}
        BY <1>1, NotificationAssumption DEF NotificationAssumption, NoticeTypeOK, Row
    <2>4. CASE row[n].status = "none"
        BY <2>1, <2>2, <2>3, <2>4 DEF FilingInv
    <2>5. CASE row[n].status # "none"
        BY <2>1, <2>2, <2>3, <2>5 DEF BudgetInv
    <2>. QED  BY <2>4, <2>5
<1>. QED  BY <1>1, RedeliveryInvHolds, PTL

(* A notification the webhook did not accept is on file, unless the process   *)
(* or the store failed before it could be.                                   *)
THEOREM NothingIsSilentlyLost == NoticeSpec => []NeverSilentlyLost
<1>1. RedeliveryInv => NeverSilentlyLost
    BY DEF RedeliveryInv
<1>. QED  BY <1>1, RedeliveryInvHolds, PTL

(* A notification that is given up has been reported to the operator, unless  *)
(* ticks overlapped on it or a mark was lost.                                *)
THEOREM DeadRowsAreAlerted == NoticeSpec => []DeadIsAlerted
<1>1. RedeliveryInv => DeadIsAlerted
    BY DEF RedeliveryInv
<1>. QED  BY <1>1, RedeliveryInvHolds, PTL

(* No step makes a dead row pending again. *)
THEOREM DeadStaysDead == NoticeSpec => DeadIsFinal
<1>1. ASSUME NoticeTypeOK, RedeliveryInv, [NoticeNext]_noticeVars
      PROVE  [\A n \in Notices : row[n].status = "dead" => row'[n].status # "pending"]_noticeVars
    <2> SUFFICES ASSUME NoticeNext, NEW n \in Notices, row[n].status = "dead"
                 PROVE  row'[n].status # "pending"
        BY <1>1
    <2>1. row[n].attempts >= MaxAttempts /\ row[n].attempts \in Nat /\ MaxAttempts \in Nat
        BY <1>1, NotificationAssumption
        DEF RedeliveryInv, CycleBudget, NoticeTypeOK, Row, NotificationAssumption
    <2>2. posting[n] = "done"
        BY <1>1 DEF RedeliveryInv, TaskInv
    <2>3. ASSUME NEW m \in Notices, Deleted(m) \/ Failed(m)
          PROVE  row'[n].status # "pending"
        BY <1>1, <2>1, <2>3, MarkedRow DEF Stored
    <2>4. ASSUME NEW m \in Notices, RecordFailure(m)
          PROVE  row'[n].status # "pending"
        BY <1>1, <2>2, <2>4 DEF RecordFailure, NoticeTypeOK
    <2>5. CASE UNCHANGED row
        BY <2>5
    <2>. QED
        BY <2>3, <2>4, <2>5
        DEF NoticeNext, Inline, TickStep, Notify, PostInline, RecordThrows, ServerCrash,
            StartTick, Post, MarkDelivered, MarkAttemptFailed, MarkThrows, EndTick,
            WorkerCrash
<1>. QED  BY <1>1, RedeliveryInvHolds, PTL DEF NoticeSpec, DeadIsFinal

===============================================================================
