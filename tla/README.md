# LeadRecovery, verified

A TLA+ development for the LeadRecovery service (`src/` of this repository): models of its
stateful parts, TLC runs over small instances of them, and TLAPS proofs of what matters
most for instances of any size. Paths below are relative to the repository's `src/`
directory of TypeScript sources unless they name a document.

## 1. The system

LeadRecovery writes to people who once asked a business (a tenant) for something and were
never answered. Two kinds of process share one Postgres database: API servers
(`server.ts`, routes and webhooks) and one worker (`worker.ts`, a cron loop). Everything
is asynchronous TypeScript: a handler is atomic between two `await`s and anything may
happen at each of them.

### Inventory

| Part | State it keeps | Operations | What makes it correct |
|---|---|---|---|
| Contact rules: `compliance.ts`, `followup.ts`, `winback.ts`, `appointmentReminder.ts` | none | `checkSuppression`, `isHardStopped`, `isDueForFollowUp`, `isDueForWinBack`, `isDueForAppointmentReminder` | no message to a lead that said stop; the sequence ends |
| Recovery workflow: `workflow.ts`, `quietHours.ts` | the run's snapshot, plans and fixed `now` | build four lists; per plan: send, log, guarded stamp | messages bounded, no stamp overwrites a reply, no repeated reminder, win-backs at most once per cooldown |
| Tenant lock: `workflowLock.ts` | promise queue per tenant, lock pool, advisory locks | enqueue, connect, lock, run, unlock, release, clean up | runs exclude each other; queue order; no leaked connection; nobody waits for ever |
| Triggers: `worker.ts`, `routes/workflow.ts`, `workerLock.ts` | the tick's tenant list, `now` | tick, manual run, redelivery, purge, SLA alert | one tenant's failure stops nobody else |
| Lead store: `store/*` | the leads, messages, notifications, tenants tables | insert, read, one-statement guarded patch, delete | a patch touches only its columns |
| Administration: `routes/leads.ts` | – | patch, convert, import, reply, mark handled, delete | changed appointments get a new reminder |
| Intake: `leadImport.ts`, `routes/publicCapture.ts`, `POST /webhooks/lead` | – | create or update by contact | one row per person |
| Inbound: `webhooks/index.ts`, `chatWidget.ts`, `reply/classify.ts` | message history | deduplicate, classify, set status, close or escalate | a stop is honoured once and for good |
| Needs attention: `notify.ts`, `attentionSla*.ts` | `needsAttentionAt`, `attentionAlertedAt` | flag, clear, alert | a new occurrence gets its own clock and alert |
| Notifications: `notify.ts`, `worker.ts` | failed notifications, attempts | deliver, store, redeliver, give up | five attempts, then dead and an alert |
| Retention: `dataRetention.ts` | – | purge old closed leads | opted-out leads are kept |
| Billing and accounts: `routes/tenants.ts`, `routes/auth.ts`, `routes/team.ts` | tenant status, last event time, codes | subscription events, codes, members | late events do not undo newer ones; a code has five tries |

The remaining parts (scoring, wording, channel adapters, request verification, encryption,
rate limiting, audit, scripts) hold no state the others depend on; `PROJECT.json` lists
each with the reason it is left out.

### How they interact, and what is hard

* A worker tick and `POST /workflow/run` both call `runRecoveryWorkflow` for a tenant, under
  `withTenantWorkflowLock`. Webhooks, dashboard requests and public forms write to the same
  leads and take no lock: **the lock separates runs from runs, not runs from writers.**
* A run reads all leads once and then acts on that snapshot, possibly for minutes. A plan
  is sent without a new look at its lead. The status guard of the stamp is the only defence
  against what happened meanwhile.
* Sending cannot be undone and is not transactional with the stamp: a crash between them
  repeats a message.
* A tick's `now` is fixed before it queues for the lock, a manual run's after.
* The lock is held by a database session that nothing watches.

## 2. The modules

| Module | Models | Uses |
|---|---|---|
| `LeadPolicy` | the contact rules as operators over a lead record | – |
| `LeadLifecycle` | what each lead's row goes through, one atomic step at a time: the abstract specification of `Outreach` | extends `LeadPolicy` |
| `Outreach` | one tenant's runs and every writer of its leads | extends `LeadPolicy`; takes the lock as a mutex; implements `LeadLifecycle` |
| `RunMutex` | what the tenant lock promises | – |
| `TenantLock` | the two layers of the lock, with its pool and sessions | implements `RunMutex` |
| `Notifications` | `notifyHumanAttention` and the worker's redelivery | – |
| `Conversation` | one lead's inbound messages, the team's answers, the needs-attention flag and the SLA alert | – |
| `Contacts` | how rows of leads come, double, go and come back: intake, import, erasure, retention | – |
| `Billing` | Paddle's events, the administrator, and the unique index on subscriptions | – |
| `NumberHosting` | a tenant's channels and the order that hosts its own number | – |
| `SignIn` | one-time codes and password links of one account | – |
| `Logins` | an email address over the tables of tenants and of team members | – |
| `OutreachProofs`, `LifecycleProofs`, `TenantLockProofs`, `NotificationProofs`, `ConversationProofs`, `ContactsProofs` | theorems about the module of that name; `LifecycleProofs` that `Outreach` implements `LeadLifecycle` | each extends its module and TLAPS |
| `TenantProofs` | theorems about a tenant's row: `Billing`, `NumberHosting` | extends the two and TLAPS |
| `AccountProofs` | theorems about who gets into an account: `SignIn`, `Logins` | extends the two and TLAPS |
| `MCOutreach`, `MCTenantLock` | constants and casts for TLC | – |
| `MCConversation` | one instance of `Conversation` and `Notifications` | extends the two |
| `MCTenants` | one instance of `Contacts`, `Billing`, `NumberHosting`, `SignIn`, `Logins` | extends the five |

### LeadPolicy and Outreach

A lead row is a record of the columns the rules read or a run writes (`LeadRecord`); dates
that only matter as set or not set are Booleans, those that are compared are ticks of an
abstract clock or `Never`. The intervals of the code (3, 7 and 14 days; 24 and 2 hours; 180
days) are constants with the weakest assumptions under which the rules make sense, so the
theorems hold for the real values and TLC runs with one or two ticks.

| State | In the code |
|---|---|
| `leads` | the tenant's rows of the leads table |
| `holder` | who is inside `withTenantWorkflowLock` |
| `pc`, `now`, `todo`, `current` | a run's position between awaits, its `now`, its unsent plans, the plan whose send was accepted |
| `intakes` | `POST /webhooks/lead` calls between their read and their write |
| `spent` | use of the bounds (replies, operator acts, faults) |
| `delivered`, `slips`, `afterStop`, `reminders`, `winBacks`, `answered`, `tried` | history: what happened, read by properties only |

A run is `RequestRun` (the trigger), `BeginRun` (lock, snapshot and all four lists: one
atomic step, as there is one `await` in it), then for each plan `Deliver` or `SendFails`,
`LogMessage` or `LogRejected` (the row is gone and the foreign key of `messages` rejects
the insert, which ends the run), `StampLead`; finally `FinishRun`. `AbortRun` is a crash or
a throwing store call at any point. The other writers are one action each: `CreateLead`,
`InboundReply`, `Convert`, `PatchConsent`, `SetAppointment`, `SetBooked`, `IntakeRead` and
`IntakeWrite` (a read and a write with an await between), `DeleteLead`.

Abstractions: the store is the Postgres one (the in-memory demo store has no foreign keys and
is not shared by processes); a lead without a usable channel is a send that fails, as
neither writes; the priority order within a list is left open, the order of the lists is
kept; the tenant is active, has accepted the terms and has win-backs enabled; `nextFollowUpAt` is omitted, since nothing under `src/`
sets it. Deferred plans are dropped at `BeginRun`, which is when their deferral is decided:
it depends on the snapshot and on the fixed `now` alone.

`LeadLifecycle` is the same table without runs: `FirstMessage`, `Nudge`, `Remind` and `CheckIn`
test the row and write it in one step, and so do the other writers. `Outreach` implements it with
`leads` and `clock` mapped to themselves and everything else hidden, the messages included: it says
what a stamp may do to a row, and not how often a provider was called, which the budgets of section
4 are about. A stamp the guard rejects, a send that fails and a run that dies are stutters.

### TenantLock and RunMutex

A call goes through `new`, `queued`, `connecting`, `locking`, `running`, `unlocking`,
`settled`, `forgotten`, one action for each settled promise. `tail` is the map
`inProcessQueues`, `previous` the promise a call chains on, `uses` its pooled client, `slot`
the pool and `held` the re-entrant count of each session's advisory locks. `database` says
whether `DATABASE_URL` is set. `pg.Pool` and the advisory locks are external and modelled by
what the code relies on. Faults are a failing connect, lock or unlock query, a session that
ends (also while a call is inside and does not notice), and the death of a process. There
is no `error` listener on the pool, so a session's loss that pg reports turns into an
uncaught exception and ends the process: that is `Crash`; `LoseSession` is the time before.

`RunMutex` has one holder per tenant. `TenantLock` implements it with the holder defined as
the call that is inside and still has its session; losing the session is leaving. `Outreach`
assumes this mutex: its `holder` is the abstract one, so what it shows is for runs whose
lock session lives.

### Notifications

One notice is one call of `notifyHumanAttention` for a tenant with a webhook: `Notify`, one or
two `PostInline`, then `RecordFailure` if both failed. `row` is its `failed_notifications` row:
none, pending with its attempts, dead, or deleted once delivered. A tick's redelivery is
`StartTick` (`listPending`; `seen` is the `attempts` of that list), `Post` for each row, at most
`Concurrency` of them unmarked at a time, then `MarkDelivered` or `MarkAttemptFailed`, and
`EndTick`. cron does not wait for the tick before, so ticks overlap and work on the same row.
Faults: the insert throws (`RecordThrows`), a mark throws before or after it took effect
(`MarkThrows`), an API server or the worker dies (`ServerCrash`, `WorkerCrash`). What a post
carries is left out; a post whose answer is lost counts as failed. The store is the Postgres
one: the in-memory store hands out its own row objects, so there the worker reads `attempts`
after the store has counted and alerts one attempt early.

### Conversation

One lead and the HTTP requests about it. A request has a `kind` (the SMS or email webhook, the
chat widget, a manual reply, mark-handled) and a `stage`, the await it is at; two requests with
one `message` are two deliveries of it, and only Twilio's carry an id. An inbound request goes
through `Receive`, `CheckDuplicate` (`getMessagesForLead`), `LogInbound` (the classifier has
answered: the keywords decide alone on a stop, a language model may say anything else),
`SetStatus`, and then `SendCloser` and `LogCloser`, or `ReadFlag` and `RaiseFlag` (the reading and
the writing of `flagNeedsAttention`). The team's side is `StartReply`, `SendReply`, `LogReply`,
`ClearAttention` and `MarkHandled`. A tick is `ListStale`, `AlertOperator` (the second reading and
the alert after it) and `StampAlerted`. `Throw` is a store call that fails, or that meets a row
deleted by `EraseLead`; `CheckThrows` the same in a tick. `gate` is what the tenant allows: paused,
without accepted terms, open. `needsAttentionAt` is the number of the `new Date()` it was taken
from, `horizon` the latest that is `attentionSlaHours` old. Of the history variables, `waiting` are
the requests that raised the flag and were not answered since, `known` is which of them an answer
found when it began, and `crossed` those that still waited when an answer cleared the flag.

### Contacts, Billing, NumberHosting, SignIn, Logins

These five share no column; each is about one race of a read and a later write.

* `Contacts`. A `job` is an intake request (`crm` for `POST /webhooks/lead`, `call` for a missed
  call, `form` for the website form or the chat) or an `import`, with a file of several lines:
  `Look` (`findLeadByContact`, for an import also the keys it has claimed), then `UpdateFound` or
  `Create`. A form only creates. `JobThrows` ends an import half way. `Answer`, `Convert`,
  `Contact`, `Age` and `Erase` are what else happens to a row; `StartSweep`, `Purge` and
  `PurgeThrows` are `purgeExpiredLeads` of a tick.
* `Billing`. A delivery is `MatchTenant` (or `NoTenant`), `CheckConflict` if it brings a new
  subscription id, `WritePatch` or `RefusePatch` (the unique index), `Audit`; `DeliveryFails` and
  `Redeliver` are an answer that is no 2xx, and Paddle's retry. An administrator's request is
  `CheckRequest` and `WriteRequest`, or `DeleteTenant`.
* `NumberHosting`. `SaveChannels` is a `PATCH` with channels, which `resolveChannelDefaults`
  completes or refuses. `OpenOrder` and `StoreOrder` are connect-number around its call of
  Twilio, `AskTwilio`, `TwilioAnswers` and `StoreAnswer` the refresh, `OrderMoves` is Twilio.
* `SignIn`. Secrets are numbered as they are issued. `PresentCode` is what `verify-code` reads
  and compares, `CountWrongCode` or `ConsumeCode` what it writes; `PresentLink` and
  `StorePassword` are `reset-password`, before and after the hashing of the password.
* `Logins`. A `change` writes an address: `Begin`, `LookInTenants`, `LookInTeam`, `WriteLogin`
  under the unique index of its own table. `RemoveMember` and `DeleteOwner` give addresses free.

They are written for the Postgres store: the in-memory one has no unique index and does not
cascade.

## 3. The runs

| Run | Instance | Shows |
|---|---|---|
| `outreach` | 2 leads (symmetric), a tick and a manual run, 2 follow-ups, clock to 4, 1 reply, 1 crash, tick 1 quiet | `TypeOK`, `BoundedOutreach`, `RunsAreCurrent`, `ClosedLeadsStayClosed` |
| `aftercare` | 1 lead, 1 follow-up, 2 slots for appointments, clock to 2, 1 reply, 2 operator acts, tick 0 quiet | `NoDuplicateReminder`, `WinBackRateBounded`, `AtMostOneAfterStop`, `RunsArePaced`, `ImplementsLifecycle`, with every writer of the leads table |
| `progress` | 2 leads, 1 follow-up, 1 operator act, 1 crash, tick 1 quiet, fair | `DueLeadIsTried`, `WaitingRunGetsIn` |
| `tenant_lock` | 3 calls of one tenant and 1 of another in the API, 1 in the worker, one slot per pool, 1 fault, with and without a database, fair | `TypeOK`, `MutualExclusion`, `QueueOrder`, `PoolConserved`, `LockInvariant`, `ImplementsRunMutex`, `EveryCallSettles` |
| `conversation` | one lead's requests or the notices, see below; fair | `LateRetryIsSkipped`, `LatestReplyDecides`, `WaitIsMeasuredFromStart`, `EscalationIsFlagged`, `StampHasAlert`, `OneAlertPerFlag`, `FlagIsAlerted`; `RedeliveryInv`, `RetriesBounded`, `NeverSilentlyLost`, `DeadIsAlerted`, `DeadIsFinal`, `PendingEnds` |
| `tenants` | one of the five modules moves, see below | `OneRowPerContact`, `StopIsRemembered`, `NewestEventDecides`, `EventSettles`, `RefreshKeepsConfig`, `GuessesBounded`, `SecretUsedOnce`, `OneAccountPerAddress` |
| `replied`, `stale_reminder`, `lock_leak`, `slow_reply`, `new_occurrence`, `late_stop` | a small instance of each | a statement of the sources that the code does not keep, see section 6 |

Why the bounds are enough. A whole sequence (first message, both nudges) fits in the clock
of `outreach` with a tick to spare, so that a third nudge would show; two runs are the
smallest number that can overlap, and each may run again and again. One crash and one reply
combine with each other and with the second run at every await. Two leads make a run hold
one plan while another is in flight. In `aftercare`, two operator acts are a conversion with
opt-in plus a later edit, or a booking plus its reschedule; two slots with windows of two and
one tick make a lead due before, in and after its last chance; two cooldowns fit in the
clock; one follow-up is a first message, a nudge and the end of the sequence. Three calls in one queue are needed for the clean-up callback of the first to meet
the entry of the third; one slot per pool makes calls wait for connections while the other
process holds the lock. Of the notices, three attempts are the inline one, one failure that
leaves the row pending and the one that kills it, so that two ticks can count each other's
attempts; two rows and one task at a time make a tick hold one row listed while it marks
another. Quiet ticks are chosen so that deferral happens and ends.

What these instances leave to the theorems. No administrator acts in `outreach`, so no log is
rejected there, and nothing crashes in `aftercare` (its stamps are lost by deletions): together they
would not end in minutes. `progress` has both, with a second lead that waits behind the one whose
deletion ends the batch, and no replies. `TypeAndRuns`, `RemindersAreNotRepeated` and
`WinBacksKeepTheirCooldown` hold for every combination. A call of `tenant_lock` is made once, so a
leaked lock on a connection that never idles is outside that instance.

`conversation` has three casts, chosen at the start, whose state spaces add up. *pair*: two
requests of any kinds with two overlapping ticks, a fault and the deletion of the lead; the gate
stays open once a store call has failed or the lead is gone, and changes freely before. *trio*: three
requests and one tick without these; three are the smallest number with two deliveries of one message
around a newer one, or with two messages that need attention and an answer between them. Requests
of the same kind and message are interchangeable and come in one order. *notices*: two notices, two
ticks, three attempts, one row at a time and one fault of `Notifications`, while the conversation
rests: the two share no column, since a handler does not wait for the notice it sends out.

`tenants` chooses a `focus` at the start, the component that moves; the others rest in one
initial state, as none reads another's columns.

| Focus | What meets |
|---|---|
| intake | two jobs of any kinds, or two imports of two lines, over one phone and one email, a failing import, replies; two rows |
| retention | two jobs, a purge, and every change of a row |
| order | three events of one tenant with two times, so that one is delivered twice, an administrator's suspension, a fault |
| bind | two events with and without custom data and an administrator, for one subscription and two tenants |
| hosting | three requests and any saving of channels, two orders, one number |
| codes | four guesses, two at a time, two codes, a limit of two tries, suspension |
| links | four presentations of two links, a failing write |
| logins | two requests for any tenant or member and one for a member, two tenants, one address |

One contact of each kind is enough for two rows to share one key and not the other; times are
cut to even numbers by the faulty comparison that a millisecond clock would be, which two times
tell apart.

Deadlock is not checked: with the clock at its horizon and the bounds used up nothing need
happen, and a lock whose calls have all settled is done.

**Fairness.** `progress`: cron fires whatever happened to the tick before (weak fairness of
`RequestRun` for ticks only: nobody must start a manual run); every await settles, by
`safeSend` which never throws, by a query's answer or by its error (weak fairness of
`RunStep`); time passes up to the horizon; and a run that waits is not overtaken for ever
(strong fairness of `BeginRun`: both the promise queue and Postgres' lock queue are first in,
first out). Replies, operators and faults are never obliged. `tenant_lock`: weak fairness of
each step of a call and of idle eviction; each call is made once, so weak is enough. A fault
is never fair, save the rejection of a query whose session is gone. `conversation`: cron keeps
starting ticks, a post has a timeout and a query an answer or an error (weak fairness of
`StartTick`, `TickStep` and `Inline`); whether a post succeeds is open. Time passes, and cron keeps
starting checks that go on to their end (`ConvFairness`); nobody must ever answer a lead. `tenants`: a handler of an event that runs goes on, as every await settles, and Paddle
delivers an event again until it has a 2xx (`BillingFairness`); faults are bounded and never fair.

## 4. The properties

* `BoundedOutreach`: at most `1 + MAX_FOLLOWUPS` messages per lead beyond those whose
  bookkeeping was lost. Violated by a run that overlaps another, a stamp that forgets a
  field, a rule that reads past the last interval.
* `AtMostOneAfterStop`: the snapshot may be stale, but only by one message per lead.
* `NoDuplicateReminder`, `WinBackRateBounded`: the same idea for reminders and win-backs.
* `ClosedLeadsStayClosed`: an action property: the stamp of a send in flight never reopens
  a lead that was closed meanwhile.
* `RunsAreCurrent`, `RunsArePaced`: the inductive invariants, section 5.
* `ImplementsLifecycle`: a stamp is planned from a snapshot and written minutes later, and
  whoever writes the row in between takes no lock; nevertheless it changes the row as if it had
  been decided on the row it meets: never a second first message, a nudge before its interval is
  over or a check-in within the cooldown of the one before.
* `DueLeadIsTried`, `WaitingRunGetsIn`: liveness of the workflow.
* `MutualExclusion`, `QueueOrder`, `PoolConserved`, `EveryCallSettles`, `ImplementsRunMutex`:
  the lock.
* `NeverSilentlyLost`: what `notify.ts:82-84` promises, with the two exceptions the
  code has: the process dies before the row is filed, or the insert throws.
* `RetriesBounded`: five cycles, and no more than one extra for each further tick that may
  overlap and for each mark that was lost.
* `DeadIsAlerted`: `worker.ts:66-71` mirrors the store's condition on the attempts it read. The
  property says exactly when the two agree: two ticks that overlapped on a row can kill it
  without either seeing its last attempt, and so can a mark that takes effect and throws.
* `DeadIsFinal`, `PendingEnds`: a late failure does not revive a dead row; every filed row is
  delivered or given up.

* `LateRetryIsSkipped`: Twilio retries; the duplicate check and the log are apart, with the classifier
  between them. Two deliveries are both handled only if one was checked before the other was logged,
  whatever store call failed meanwhile. A retry that a slow classification causes comes exactly then:
  `RetryIsSkipped`, section 6.
* `LatestReplyDecides`: a retried or late delivery of an older question does not take the status back
  from a newer stop that is settled. It relates the order of two messages to who wrote the status
  last. Two first deliveries that are classified at the same time may write in either order, a
  question over the stop that came after it too; nothing in the sources promises otherwise.
* `WaitIsMeasuredFromStart`: the flag keeps the time of the first message that waits, with the
  exception the read-then-write of `flagNeedsAttention` makes, a clearing or a raising in between.
* `EscalationIsFlagged`: a message that needs a human is in the inbox until an answer that begins
  after it was raised. An answer that began before clears its flag all the same, as
  `routes/leads.ts:396` clears whatever is there after the send: the message is then out of the
  inbox and nobody has read it. The property says that nothing but such a crossing (`crossed`) takes
  it out, not a refused or failed answer, a race of two messages or a lost write, and that the next
  message is in the inbox again.
* `OneAlertPerFlag`, `FlagIsAlerted`: no flag is alerted twice, but for two ticks that pass the second
  reading together or a stamp that fails; every stale flag is marked as alerted in the end.
* `StampHasAlert`: whatever counts as alerted goes back to an alert: about the flag that is up, or
  about one that was cleared before its stamp came. A stamp of the second kind (`misplaced`) is a
  defect, `NewOccurrenceIsAlerted` in section 6: it stays on the row and silences the flags raised
  after it, until somebody clears one. The property says that it is the only way to a false mark.
* `OneRowPerContact`: two rows of one person need a job that never looks, or a creation inside
  another job's look-then-create. A repeated import doubles nothing.
* `StopIsRemembered`: a person who said stop is not created anew by intake that looks, also not
  after a purge; the exceptions are a conversion or erasure an operator asked for, and a stop
  that overtook the tick's snapshot (`OptOutsAreKept`, section 6).
* `NewestEventDecides`: late, repeated and reordered events leave the newest one's status, up to
  two handlers of one tenant that read before either wrote, or an administrator since.
* `EventSettles`: an event whose write the unique index refused, for a race with another writer,
  is applied on redelivery.
* `RefreshKeepsConfig`: a refresh loses channels or an order only if they were saved while it
  asked Twilio.
* `GuessesBounded`, `SecretUsedOnce`: guesses that do not overlap are counted, codes and links are
  good once, suspended or not.
* `OneAccountPerAddress`: nobody can sign in as somebody else by address, up to two requests
  inside each other's look-then-write over the two tables.

Some exceptions are the very race a reader would ask about: two intakes inside each other's
look-then-create (`raced`), a flag that moves between its reading and its writing (`torn`), a channel
saved while a refresh asks Twilio (`clobbered`), two requests for one address over two tables
(`contested`), guesses at the same time (`crowded`). The code does not keep them apart; a comment
admits it of the first (`webhooks/index.ts:671-679`). These properties say that the race is the only
way to go wrong, not that it is harmless.

Each property has a mutation of a mapped definition, the way a plausible bug would change it, that
makes its run fail; the mutated forms stand beside the originals, marked as faulty variants.

## 5. The proofs

Eight modules of proofs, which between them cover every module with behaviour of its own, are checked
by `tlapm` with Z3, Zenon and LS4. They assume only the named assumptions of the modules: `PolicyAssumption` (sizes are
naturals, the interval table has `MaxFollowUps` entries, the cooldown is positive, the
last-chance window lies in the reminder window), `OutreachAssumption` and `PlanAssumption`
(ticks and manual runs differ, the null values are no runs and no plans), `LockAssumption`
(calls belong to processes and tenants, slots to processes), `NotificationAssumption` (finitely
many ticks overlap, at least two attempts, a positive concurrency), `ConversationAssumption` (stop
texts are messages), `ContactsAssumption` (phones are no emails, an import has a line),
`BillingAssumption` (the null value is no tenant and no subscription), `HostingAssumption` (the number of orders is a
natural, the null value no number) and `HostingOrderAssumption` (the null value is no order), `SignInAssumption` (a code
has at least one try) and `LoginsAssumption` (the tables of owners and members are disjoint). The
numbers of runs, requests, messages, rows and faults are arbitrary.

**Outreach.** None of the budgets is inductive alone. That a lead's count of messages is
bounded needs that a plan in flight has not been counted in the row yet (`PlansCurrent`:
an `initial` plan's lead has no first-outreach mark, a `follow_up` plan's count is the row's
count), that no other run counts it at the same time (`LockInv`), and that one snapshot plans
one counted message per lead (`Distinct`). `OutreachBudget` then says that what was delivered
plus what the row still allows never exceeds the budget, with one message of credit while a
stamp is pending. `StopBudget` says that a lead with a message after its stop has no plan
left, `ReminderBudget` is the reminder's form of the same. Their conjunction is
`RunsAreCurrent`, proved inductive with `TypeOK` one action at a time (`TypeAndRuns`);
`TypeCorrect`, `OutreachIsBounded`, `StopIsRespected`, `RemindersAreNotRepeated` follow from
it, and `ClosedStaysClosed` from it and a look at each writer. `RunsUseTheMutex` closes the gap to
the lock: the runs, seen from their tenant, are calls of `RunMutex`, which is what
`LockImplementsMutex` shows the lock to provide.

**LeadLifecycle.** `OutreachImplementsLifecycle` has one lemma per writer, which are easy as those
read and write in one step, and one per kind of stamp, which are not: the guard looks at the status
alone, so that the counts and times a stamp was planned by are still those of the row must come from
the invariants. `RunsAreCurrent` gives the counts. `RunsArePaced` gives the times: for a pending nudge
or check-in the row's own `lastContactedAt` or `lastWinBackAt` is an interval or a cooldown before
the run's `now`, and `now` has come (`PlansPaced`). This is inductive since only stamps move these
columns, only the run inside the lock stamps, and its snapshot has one such plan per lead. A check-in needs besides
that a converted row has a time of conversion and that no writer brings a time the business does not
offer (`RowsInv`). `WinBackBudget` turns pacing into a count without dividing: the check-ins whose
stamp was written, times the cooldown, are at most `lastWinBackAt`, which is at most the clock;
`WinBacksKeepTheirCooldown` divides once, at the end.

**TenantLock.** The invariant has two halves that hardly touch. For the queues: `AheadInv`
(unsettled calls of a queue are totally ordered by when they were made; a call that has
started has none left ahead) and `ChainInv` (the promise a call chains on stands for all
calls ahead of it, and the map's entry for all that are pending). For the sessions: `UseInv`,
`PoolConserved` and `HoldInv` (one session per locked tenant; a call inside holds it unless
it is orphaned). `MutualExclusionHolds` uses the first half within a process and the second
across processes. `LockImplementsMutex` proves that every step maps to a step of `RunMutex`
or a stutter: `Lock` to `Enter`, `Finish` to nothing, `Unlock`, `UnlockFails`, `LoseSession`
and `Crash` to `Leave`.

**Notifications.** `RetriesBounded` is not inductive: a pending row's bound must come from its
own counter. `CycleBudget` says that while a row is pending its cycles are at most its attempts
plus the lost marks plus the ticks that have posted it and not marked it yet, and afterwards
that what was posted plus the ticks that still have it listed stays in the bound. With it go
`TaskInv` (only running ticks have tasks, only filed rows are on lists, a notice in flight has
no row) and `ListsCurrent` (without overlap, one tick at most has the row and the attempts it
read are the store's), which is what `DeadIsAlerted` needs. All of it but one conjunct is about
one notice, so each step is proved for its notice (`NoticeMarked`, `PostStep`, ...) and
`NoticeUntouched` does the rest. The bound counts ticks, hence the lemmas on cardinalities.

**Conversation.** `ConvInv` has three parts that share only the row's existence. `InboundInv`: the
message history holds every logged message of the live row, so a delivery that passed the
duplicate check did so before whoever handled the same message logged it (`BesideInv`), and a delivery older
than a settled one will be found a duplicate (`OlderInv`). `FlagInv`: what a handler read of
`needsAttentionAt` is what is there, unless the flag moved in between (`RaisingInv`). `AlertInv`:
an alert that was sent is followed by a stamp of its tick, unless the tick broke off or the flag
was cleared. `LateRetriesAreSkipped`, `NewerRepliesWin` and `UnansweredStaysFlagged` follow from the
first two. A lemma per part says what the actions outside it leave alone. `EscalationIsFlagged`
and `WaitIsMeasuredFromStart` are inductive once a handler's reading is known to be true or recorded
as outdated, and so are conjuncts of `FlagInv`; `OneAlertPerFlag` is one of `AlertInv`, and
`StampHasAlert` (`StampsAreAccountedFor`) follows from what that says of stamps in time.

**Contacts.** `BlindInv` is the heart: a job about to create a row knows every stored row with its
contact, or that row was created since the look and is in `blind`. `SweepInv` says the same of a
purge's snapshot: a condemned row is converted and aged, or it changed since. The action property
`StopIsRemembered` follows from these and the one action it is about: a purge forgets a stop only if
that overtook its snapshot. `BookTypeCorrect` is type correctness in full; that an import's next line exists needs
`JobsInv`, that a job which is not over is at a line of its file.

**Billing.** `NewestEventDecides` speaks of the settled events and not of the columns, so it needs
`LatestInv`: the row's `paddleLastEventAt` is the time of the newest settled event and the status
is that event's, unless the tenant was stirred. That a write keeps it needs `ReadingInv`: a
delivery that nothing outran decided from a reading that still holds, hence its event is newer
than everything settled. `OneEventPerTime` makes two events of equal time one.

**NumberHosting.** `RefreshKeepsConfig` is about the row, but what breaks it is written from what a
refresh read before it asked Twilio. `RefreshInv` says that such a reading agrees with what is meant
(the channels saved last with the number that went live since, the order opened last) in every column
that no write has `overtaken` since and that was not `clobbered` when it was read. `OrderInv` says
that orders in rows and in requests are ones Twilio has.

**SignIn.** `NumberInv` (secrets are issued once) and `UseInv` (a used secret is not on file, so
whoever still holds it read it before) give `SecretUsedOnce`; `CountInv` says that without
overlap the guesses made are the row's counter, plus the one that is not written yet.

**Logins.** The unique indexes give uniqueness in each table (`IndexInv`). Across the tables it
rests on what requests have looked up (`LooksInv`): a request past a table knows all its accounts
with the address, or one was written since, and then the address is `contested` (`AcrossInv`).

**Only model-checked.** The six liveness properties `DueLeadIsTried`, `WaitingRunGetsIn`,
`EveryCallSettles`, `PendingEnds`, `FlagIsAlerted` and `EventSettles`, as TLAPS does not reason about
fairness and ENABLED here. Every safety property a passing run checks is a theorem. The six runs of
section 6 show the opposite of what they check, so there is nothing to prove.

## 6. Where the code departs from what it says

* `replied`: a lead that answers while its first message is being accounted for gets the
  first message again and is back in the follow-ups (`workflow.ts:209`); `followup.ts:17-19`
  says any reply removes it immediately and permanently. The guard protects the status but
  drops the first-outreach mark with it.
* `stale_reminder`: the unguarded reminder stamp (`workflow.ts:268`) marks a just rescheduled
  appointment as announced; `routes/publicBooking.ts:141-143` clears the flag to prevent it.
* `lock_leak`: after a failed unlock, `client.release()` (`workflowLock.ts:77`) pools a working
  session with the lock in it; the comment at 71-72 says the lock is released there. The
  lock goes when the idle connection is closed, which is why `EveryCallSettles` still holds.

* `slow_reply`: the `MessageSid` check "guards against processing the same inbound delivery twice",
  in particular when "a slow enough response" of the classifier makes Twilio retry
  (`webhooks/index.ts:136-142`, also `types.ts:563-567` and `COMPLIANCE.md:427-432`). The check
  (154) comes before the classifier (159) and the log (161) after it, so the retry finds nothing and
  both deliveries are classified and answered.
* `new_occurrence`: the second reading of `attentionSlaAlert.ts` is there so that no stamp
  suppresses "the SLA alert for a genuinely new, separate occurrence" (37-46). An answer between that
  reading and the stamp (66) clears the flag, the stamp lands on the empty row, and the next message
  raises a flag that already counts as alerted: `flagNeedsAttention` does not reset
  `attentionAlertedAt`.
* `late_stop`: opted-out leads are exempt from the purge "no matter how old"
  (`COMPLIANCE.md:400-401`, `dataRetention.ts:18-26`). `worker.ts:112` deletes what the list of the
  tick's start condemned, without a condition: a past customer who texts STOP after that list was
  read loses row and opt-out.

Rules that a unit test of one function reaches, and so not worth a run:

* `winback.ts:33-42` never looks at `consentStatus`, so a converted, opted-in customer whose consent
  is then withdrawn keeps getting win-backs; `compliance.ts:40-44` and `COMPLIANCE.md:186-189` call a
  withdrawal a genuine suppression signal.
* `POST /webhooks/lead` changes `appointmentAt` and keeps `appointmentReminderSentAt`
  (`webhooks/index.ts:692`); `routes/leads.ts:218-221` explains why that must not be.
* The comment of `flagNeedsAttention` (`notify.ts:163-169`) expects its second reading to keep a
  concurrent clearing from leaving an old start time; it narrows that gap and does not close it.

Two of wording: `COMPLIANCE.md:403` and the comment of `dataRetention.ts` speak of
imports as if they were not deduplicated, and the comment of `dataRetentionDays` in `types.ts`
lists `opted_out` and `do_not_contact` among the purged statuses; `PURGE_ELIGIBLE_STATUSES` does not.

## 7. What is left

**To prove.** An abstract specification of a notification as its receiver and the operator see it
(filed, delivered or given up, in that order and once) that `Notifications` implements, and one of
the needs-attention flag that `Conversation` implements, with the overlaps the exceptions name as
explicit steps.

**Not modelled.** The fan-out of a tick over tenants and the single-worker lock (tenants share
no row; `Outreach` and `Conversation` are about one); the choice of a channel; change-password,
roles and bearer keys, which read and compare; rate limiting, which protects the server and no
lead; request verification and encryption, scoring and wording, sales inquiries, scripts and the
pages under `public/`. `PROJECT.json` gives the reason of each.
