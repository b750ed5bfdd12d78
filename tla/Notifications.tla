----------------------------- MODULE Notifications -----------------------------
(***************************************************************************)
(* Telling a tenant's team that a lead needs a human: notifyHumanAttention   *)
(* of an API server posts to the tenant's webhook, twice if need be, and     *)
(* stores what could not be delivered; every tick of the worker posts what   *)
(* is stored again, until it is delivered or was tried often enough.         *)
(*                                                                         *)
(* cron starts a tick whether or not the tick before it has ended, so two of *)
(* them may work on the same row, each from the list it read.                *)
(***************************************************************************)
EXTENDS Naturals, FiniteSets

CONSTANTS
    Notices,      \* occasions to notify, for a tenant that has a webhook
    Ticks,        \* ticks of the worker that can overlap
    MaxAttempts,  \* NOTIFICATION_MAX_ATTEMPTS
    Concurrency,  \* LEADRECOVERY_WORKER_CONCURRENCY
    MaxNoticeFaults  \* bound: failing store calls and crashes

ASSUME NotificationAssumption ==
    /\ IsFiniteSet(Ticks)
    /\ MaxAttempts \in Nat \ {0, 1}
    /\ Concurrency \in Nat \ {0}
    /\ MaxNoticeFaults \in Nat

VARIABLES
    posting,   \* notice -> how far notifyHumanAttention is
    row,       \* notice -> its failed_notifications row
    running,   \* the ticks that are redelivering
    task,      \* tick -> notice -> what the tick has done with it
    seen,      \* tick -> notice -> n.attempts of the list the tick read
    noticeFaults

(* History variables.                                                        *)
VARIABLES
    cycles,     \* delivery cycles: the inline one and each redelivery
    accepted,   \* the webhook answered with success
    alerted,    \* the operator was told that it permanently failed
    lost,       \* redeliveries whose bookkeeping failed
    dropped,    \* the process died, or the insert failed, before it was stored
    overlapped  \* two ticks had the notice on their lists at once

noticeHistory == <<cycles, accepted, alerted, lost, dropped, overlapped>>
noticeVars ==
    <<posting, row, running, task, seen, noticeFaults, cycles, accepted, alerted,
      lost, dropped, overlapped>>

Row == [status : {"none", "pending", "dead", "deleted"}, attempts : Nat]

NoticeTypeOK ==
    /\ posting \in [Notices -> {"new", "first", "second", "failed", "done"}]
    /\ row \in [Notices -> Row]
    /\ running \in SUBSET Ticks
    /\ task \in [Ticks -> [Notices -> {"none", "listed", "delivered", "failed"}]]
    /\ seen \in [Ticks -> [Notices -> Nat]]
    /\ noticeFaults \in 0 .. MaxNoticeFaults
    /\ cycles \in [Notices -> Nat]
    /\ accepted \in [Notices -> BOOLEAN]
    /\ alerted \in [Notices -> BOOLEAN]
    /\ lost \in [Notices -> Nat]
    /\ dropped \in [Notices -> BOOLEAN]
    /\ overlapped \in [Notices -> BOOLEAN]

NoticeInit ==
    /\ posting = [n \in Notices |-> "new"]
    /\ row = [n \in Notices |-> [status |-> "none", attempts |-> 0]]
    /\ running = {}
    /\ task = [t \in Ticks |-> [n \in Notices |-> "none"]]
    /\ seen = [t \in Ticks |-> [n \in Notices |-> 0]]
    /\ noticeFaults = 0
    /\ cycles = [n \in Notices |-> 0]
    /\ accepted = [n \in Notices |-> FALSE]
    /\ alerted = [n \in Notices |-> FALSE]
    /\ lost = [n \in Notices |-> 0]
    /\ dropped = [n \in Notices |-> FALSE]
    /\ overlapped = [n \in Notices |-> FALSE]

NoticeFault ==
    /\ noticeFaults < MaxNoticeFaults
    /\ noticeFaults' = noticeFaults + 1

-------------------------------------------------------------------------------
(* The store. *)

Stored(n) == row[n].status \in {"pending", "dead"}

(* Faulty variant of Pending: a row is picked up again only once.             *)
PendingOnce(n) == row[n].status = "pending" /\ row[n].attempts = 1

(* The rows listPending selects. *)
Pending(n) == row[n].status = "pending"

(* Faulty variant of RowAfterFailure: a late failure revives a dead row.      *)
RevivedAfterFailure(r) ==
    [status |-> IF r.attempts + 1 = MaxAttempts THEN "dead" ELSE "pending",
     attempts |-> r.attempts + 1]

(* Faulty variant of RowAfterFailure: the limit is compared a step late.      *)
LateGiveUp(r) ==
    [status |-> IF r.attempts >= MaxAttempts THEN "dead" ELSE "pending",
     attempts |-> r.attempts + 1]

(* markAttemptFailed on the row it finds. *)
RowAfterFailure(r) ==
    [status |-> IF r.attempts + 1 >= MaxAttempts THEN "dead" ELSE "pending",
     attempts |-> r.attempts + 1]

-------------------------------------------------------------------------------
(* notifyHumanAttention. *)

Notify(n) ==
    /\ posting[n] = "new"
    /\ posting' = [posting EXCEPT ![n] = "first"]
    /\ UNCHANGED <<row, running, task, seen, noticeFaults>>
    /\ UNCHANGED noticeHistory

(* Faulty variant of PostInline: nothing is filed after the second failure.   *)
PostInlineOnly(n, ok) ==
    /\ posting[n] \in {"first", "second"}
    /\ posting' = [posting EXCEPT ![n] =
                    IF ok \/ @ = "second" THEN "done" ELSE "second"]
    /\ accepted' = [accepted EXCEPT ![n] = @ \/ ok]
    /\ cycles' = [cycles EXCEPT ![n] =
                     IF ok \/ posting[n] = "second" THEN @ + 1 ELSE @]
    /\ UNCHANGED <<row, running, task, seen, noticeFaults, alerted, lost, dropped,
                   overlapped>>

(* deliverNotification, and once more after a short delay if it failed. *)
PostInline(n, ok) ==
    /\ posting[n] \in {"first", "second"}
    /\ posting' = [posting EXCEPT ![n] = IF ok THEN "done"
                                     ELSE IF @ = "first" THEN "second" ELSE "failed"]
    /\ accepted' = [accepted EXCEPT ![n] = @ \/ ok]
    /\ cycles' = [cycles EXCEPT ![n] =
                     IF ok \/ posting[n] = "second" THEN @ + 1 ELSE @]
    /\ UNCHANGED <<row, running, task, seen, noticeFaults, alerted, lost, dropped,
                   overlapped>>

(* recordFailure inserts the row. *)
RecordFailure(n) ==
    /\ posting[n] = "failed"
    /\ posting' = [posting EXCEPT ![n] = "done"]
    /\ row' = [row EXCEPT ![n] = [status |-> "pending", attempts |-> 1]]
    /\ UNCHANGED <<running, task, seen, noticeFaults>>
    /\ UNCHANGED noticeHistory

(* recordFailure throws; that is logged and nothing else.                    *)
RecordThrows(n) ==
    /\ posting[n] = "failed"
    /\ NoticeFault
    /\ posting' = [posting EXCEPT ![n] = "done"]
    /\ dropped' = [dropped EXCEPT ![n] = TRUE]
    /\ UNCHANGED <<row, running, task, seen, cycles, accepted, alerted, lost,
                   overlapped>>

(* An API server dies: nobody waits for its notifications in flight.          *)
ServerCrash ==
    /\ NoticeFault
    /\ posting' = [n \in Notices |-> IF posting[n] = "new" THEN "new" ELSE "done"]
    /\ dropped' = [n \in Notices |->
           dropped[n] \/ posting[n] \in {"first", "second", "failed"}]
    /\ UNCHANGED <<row, running, task, seen, cycles, accepted, alerted, lost,
                   overlapped>>

-------------------------------------------------------------------------------
(* redeliverFailedNotifications. *)

Unmarked(t) == {n \in Notices : task[t][n] \in {"delivered", "failed"}}

(* listPending. *)
StartTick(t) ==
    /\ t \notin running
    /\ running' = running \cup {t}
    /\ task' = [task EXCEPT ![t] = [n \in Notices |->
                   IF Pending(n) THEN "listed" ELSE "none"]]
    /\ seen' = [seen EXCEPT ![t] = [n \in Notices |->
                   IF Pending(n) THEN row[n].attempts ELSE 0]]
    /\ overlapped' = [n \in Notices |->
           \/ overlapped[n]
           \/ /\ Pending(n)
              /\ \E u \in Ticks \ {t} : task[u][n] # "none"]
    /\ UNCHANGED <<posting, row, noticeFaults, cycles, accepted, alerted, lost,
                   dropped>>

(* deliverNotification of one listed row, mapWithConcurrency at a time.       *)
Post(t, n, ok) ==
    /\ task[t][n] = "listed"
    /\ Cardinality(Unmarked(t)) < Concurrency
    /\ task' = [task EXCEPT ![t][n] = IF ok THEN "delivered" ELSE "failed"]
    /\ cycles' = [cycles EXCEPT ![n] = @ + 1]
    /\ accepted' = [accepted EXCEPT ![n] = @ \/ ok]
    /\ UNCHANGED <<posting, row, running, seen, noticeFaults, alerted, lost, dropped,
                   overlapped>>

(* The task is over; what the tick read of the row is forgotten. *)
Finish(t, n) ==
    /\ task' = [task EXCEPT ![t][n] = "none"]
    /\ seen' = [seen EXCEPT ![t][n] = 0]

Deleted(n) ==
    row' = [row EXCEPT ![n].status = IF Stored(n) THEN "deleted" ELSE @]

MarkDelivered(t, n) ==
    /\ task[t][n] = "delivered"
    /\ Finish(t, n)
    /\ Deleted(n)
    /\ UNCHANGED <<posting, running, noticeFaults>>
    /\ UNCHANGED noticeHistory

Failed(n) ==
    row' = [row EXCEPT ![n] = IF Stored(n) THEN RowAfterFailure(@) ELSE @]

(* Faulty variant of IsLastAttempt: one attempt late.                         *)
IsPastLastAttempt(attempts) == attempts >= MaxAttempts

(* The worker's own condition for the alert, on the attempts it read.         *)
IsLastAttempt(attempts) == attempts + 1 >= MaxAttempts

MarkAttemptFailed(t, n) ==
    /\ task[t][n] = "failed"
    /\ Finish(t, n)
    /\ Failed(n)
    /\ alerted' = [alerted EXCEPT ![n] = @ \/ IsLastAttempt(seen[t][n])]
    /\ UNCHANGED <<posting, running, noticeFaults, cycles, accepted, lost, dropped,
                   overlapped>>

(* Either mark throws, before or after the statement took effect: it is       *)
(* logged, and the tick goes on with the other rows.                         *)
MarkThrows(t, n, applied) ==
    /\ task[t][n] \in {"delivered", "failed"}
    /\ NoticeFault
    /\ Finish(t, n)
    /\ IF ~applied THEN UNCHANGED row
       ELSE IF task[t][n] = "delivered" THEN Deleted(n) ELSE Failed(n)
    /\ lost' = [lost EXCEPT ![n] = @ + 1]
    /\ UNCHANGED <<posting, running, cycles, accepted, alerted, dropped, overlapped>>

EndTick(t) ==
    /\ t \in running
    /\ \A n \in Notices : task[t][n] = "none"
    /\ running' = running \ {t}
    /\ UNCHANGED <<posting, row, task, seen, noticeFaults>>
    /\ UNCHANGED noticeHistory

(* The ticks that posted the notice and have not marked it. *)
Marking(n) == {t \in Ticks : task[t][n] \in {"delivered", "failed"}}

WorkerCrash ==
    /\ NoticeFault
    /\ running' = {}
    /\ task' = [t \in Ticks |-> [n \in Notices |-> "none"]]
    /\ seen' = [t \in Ticks |-> [n \in Notices |-> 0]]
    /\ lost' = [n \in Notices |-> lost[n] + Cardinality(Marking(n))]
    /\ UNCHANGED <<posting, row, cycles, accepted, alerted, dropped, overlapped>>

Inline(n) ==
    \/ \E ok \in BOOLEAN : PostInline(n, ok)
    \/ RecordFailure(n)

TickStep(t) ==
    \/ \E n \in Notices :
           \/ \E ok \in BOOLEAN : Post(t, n, ok)
           \/ MarkDelivered(t, n)
           \/ MarkAttemptFailed(t, n)
    \/ EndTick(t)

NoticeNext ==
    \/ \E n \in Notices : Notify(n) \/ Inline(n) \/ RecordThrows(n)
    \/ ServerCrash
    \/ \E t \in Ticks : StartTick(t) \/ TickStep(t)
    \/ \E t \in Ticks, n \in Notices, applied \in BOOLEAN : MarkThrows(t, n, applied)
    \/ WorkerCrash

NoticeSpec == NoticeInit /\ [][NoticeNext]_noticeVars

(* Posts time out and queries are answered, or the store throws; cron keeps   *)
(* firing.                                                                   *)
NoticeFairness ==
    /\ \A n \in Notices : WF_noticeVars(Inline(n))
    /\ \A t \in Ticks : WF_noticeVars(StartTick(t)) /\ WF_noticeVars(TickStep(t))

FairNoticeSpec == NoticeSpec /\ NoticeFairness

-------------------------------------------------------------------------------
(* Properties. *)

(* A webhook that keeps failing is tried NOTIFICATION_MAX_ATTEMPTS times, and *)
(* once more for every further tick that can overlap and every attempt whose  *)
(* count was lost.                                                           *)
RetriesBounded ==
    \A n \in Notices :
        cycles[n] <= MaxAttempts - 1 + Cardinality(Ticks) + lost[n]

(* A notification is never silently lost (notify.ts, lines 82-84): it was     *)
(* accepted, or it is on file, or the process or the store failed before it   *)
(* could be filed.  A row is deleted only once the webhook has accepted it.   *)
NeverSilentlyLost ==
    \A n \in Notices :
        /\ posting[n] = "done" => accepted[n] \/ dropped[n] \/ Stored(n)
        /\ row[n].status = "deleted" => accepted[n]

(* A row that is given up has been reported to the operator.  The worker      *)
(* decides that on the attempts it read, the store on those it holds: they    *)
(* part only when ticks overlapped on the row or bookkeeping was lost.        *)
DeadIsAlerted ==
    \A n \in Notices :
        row[n].status = "dead" => alerted[n] \/ overlapped[n] \/ lost[n] > 0

(* A row that is given up is never retried: no late mark revives it.          *)
DeadIsFinal ==
    [][\A n \in Notices :
          row[n].status = "dead" => row'[n].status # "pending"]_noticeVars

(* What is on file is delivered or given up in the end. *)
PendingEnds == \A n \in Notices : row[n].status = "pending" ~> row[n].status # "pending"

-------------------------------------------------------------------------------
(* The inductive invariant behind the safety properties.                     *)

Listed(n) == {t \in Ticks : task[t][n] = "listed"}

(* Only running ticks have tasks, and only for rows that were on file.        *)
TaskInv ==
    /\ \A t \in Ticks \ running : \A n \in Notices : task[t][n] = "none"
    /\ \A n \in Notices : row[n].status = "none" =>
           /\ \A t \in Ticks : task[t][n] = "none"
           /\ cycles[n] <= 1
    /\ \A n \in Notices : posting[n] # "done" =>
           /\ row[n].status = "none"
           /\ cycles[n] = IF posting[n] = "failed" THEN 1 ELSE 0

(* While a row is pending its attempts account for the cycles; afterwards the *)
(* ticks that still have it on their lists use up what is left.              *)
CycleBudget ==
    \A n \in Notices :
        /\ row[n].status = "pending" =>
               /\ row[n].attempts < MaxAttempts
               /\ cycles[n] <= row[n].attempts + lost[n] + Cardinality(Marking(n))
        /\ row[n].status = "dead" => row[n].attempts >= MaxAttempts
        /\ row[n].status \in {"dead", "deleted"} =>
               cycles[n] + Cardinality(Listed(n))
                   <= MaxAttempts - 1 + Cardinality(Ticks) + lost[n]

(* Without overlap a tick's list agrees with the store.                      *)
ListsCurrent ==
    \A n \in Notices : ~overlapped[n] =>
        /\ \A t, u \in Ticks : task[t][n] # "none" /\ task[u][n] # "none" => t = u
        /\ \A t \in Ticks : task[t][n] # "none" =>
               row[n].status = "pending" /\ seen[t][n] = row[n].attempts

DeliveredIsAccepted ==
    \A t \in Ticks, n \in Notices : task[t][n] = "delivered" => accepted[n]

RedeliveryInv ==
    /\ TaskInv
    /\ CycleBudget
    /\ ListsCurrent
    /\ DeliveredIsAccepted
    /\ NeverSilentlyLost
    /\ DeadIsAlerted

===============================================================================
