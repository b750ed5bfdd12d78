-------------------------------- MODULE Billing --------------------------------
(***************************************************************************)
(* The status of a tenant and the subscription that pays for it.  Paddle      *)
(* reports what happens to subscriptions, in any order, more than once and    *)
(* several reports at a time; an administrator creates tenants, suspends them *)
(* and binds subscriptions by hand.  The handler of an event is cut at its    *)
(* awaits: it reads the tenant, decides from that reading whether the event is *)
(* stale and what to change, may look for a conflict, and writes.             *)
(*                                                                         *)
(* The database has a partial unique index on paddle_subscription_id; a write *)
(* it refuses throws, the request is answered with an error, and Paddle        *)
(* delivers the event again.                                                 *)
(***************************************************************************)
EXTENDS Naturals, FiniteSets

CONSTANTS
    Tenants,
    Subscriptions,
    Deliveries,       \* events Paddle delivers; two may be the same event
    AdminRequests,
    MaxOccurredAt,    \* bound: occurred_at of an event; 0 stands for none
    MaxBillingFaults, \* bound: store calls that throw
    None

ASSUME BillingAssumption ==
    /\ None \notin Tenants \cup Subscriptions
    /\ MaxOccurredAt \in Nat /\ MaxBillingFaults \in Nat

VARIABLES
    account,       \* tenant -> the columns of its row that are about billing
    event,         \* delivery -> the event it carries
    handling,      \* delivery -> how far its handler is
    target,        \* delivery -> the tenant it matched
    reading,       \* delivery -> that tenant's row as it was read
    binds,         \* delivery -> it will write the subscription id
    request,       \* administrator's request -> what it asks and how far it is
    auditLog,      \* status changes of Paddle's that were recorded
    billingFaults

(* History variables.                                                        *)
VARIABLES
    settled,  \* tenant -> deliveries about it that were decided
    outrun,   \* deliveries whose reading is no longer true
    stirred   \* tenants whose status such a delivery or an admin wrote since

billingVars ==
    <<account, event, handling, target, reading, binds, request, auditLog,
      billingFaults, settled, outrun, stirred>>

(* statusReason is informational, and no rule reads it. *)
Accounts ==
    [stored : BOOLEAN, status : {"active", "suspended"},
     subscription : Subscriptions \cup {None}, lastEventAt : 0 .. MaxOccurredAt]

Absent == [stored |-> FALSE, status |-> "active", subscription |-> None, lastEventAt |-> 0]

(* PADDLE_EVENT_ACTIONS; every other event is acknowledged and ignored.        *)
PaddleEvents ==
    [newStatus : {"active", "suspended"}, tenantId : Tenants \cup {None},
     subscription : Subscriptions \cup {None}, occurredAt : 0 .. MaxOccurredAt]

(* What an administrator sends: PATCH /admin/tenants/:id with a status, a       *)
(* subscription (None clears it) or neither, and POST /admin/tenants.          *)
Patches ==
    [op : {"patch"}, id : Tenants, status : {"keep", "active", "suspended"},
     subscription : Subscriptions \cup {None, "keep"}]
    \cup [op : {"create"}, id : Tenants, status : {"active"},
          subscription : Subscriptions \cup {None}]
    \cup [op : {"delete"}, id : Tenants, status : {"keep"}, subscription : {"keep"}]

Handling == {"undelivered", "matched", "checked", "audit", "accepted", "failed"}

BillingTypeOK ==
    /\ account \in [Tenants -> Accounts]
    /\ event \in [Deliveries -> PaddleEvents]
    /\ handling \in [Deliveries -> Handling]
    /\ target \in [Deliveries -> Tenants \cup {None}]
    /\ reading \in [Deliveries -> Accounts]
    /\ binds \in [Deliveries -> BOOLEAN]
    /\ request \in [AdminRequests ->
           [patch : Patches, stage : {"new", "checked", "done", "refused"}]]
    /\ auditLog \in SUBSET Deliveries
    /\ billingFaults \in 0 .. MaxBillingFaults
    /\ settled \in [Tenants -> SUBSET Deliveries]
    /\ outrun \subseteq Deliveries
    /\ stirred \subseteq Tenants

(* occurred_at has microseconds: equal times are one event, delivered twice.    *)
OneEventPerTime ==
    \A d, e \in Deliveries :
        event[d].occurredAt = event[e].occurredAt /\ event[d].occurredAt # 0
        => event[d] = event[e]

SubscriptionsAreUnique(acc) ==
    \A t, u \in Tenants :
        /\ t # u /\ acc[t].stored /\ acc[u].stored
        /\ acc[t].subscription # None
        => acc[t].subscription # acc[u].subscription

BillingInit ==
    /\ account \in [Tenants -> Accounts]
    /\ \A t \in Tenants : /\ account[t].lastEventAt = 0
                          /\ account[t].stored \/ account[t] = Absent
    /\ SubscriptionsAreUnique(account)
    /\ event \in [Deliveries -> PaddleEvents]
    /\ OneEventPerTime
    /\ handling = [d \in Deliveries |-> "undelivered"]
    /\ target = [d \in Deliveries |-> None]
    /\ reading = [d \in Deliveries |-> Absent]
    /\ binds = [d \in Deliveries |-> FALSE]
    /\ request \in [AdminRequests -> [patch : Patches, stage : {"new"}]]
    /\ auditLog = {}
    /\ billingFaults = 0
    /\ settled = [t \in Tenants |-> {}]
    /\ outrun = {} /\ stirred = {}

BillingFault == billingFaults < MaxBillingFaults /\ billingFaults' = billingFaults + 1

-------------------------------------------------------------------------------
(* POST /webhooks/paddle. *)

Handle(d, s) == handling' = [handling EXCEPT ![d] = s]

(* custom_data decides; the subscription only if there is none.               *)
Match(d) ==
    LET e == event[d]
    IN {t \in Tenants :
          /\ account[t].stored
          /\ IF e.tenantId # None THEN t = e.tenantId
             ELSE e.subscription # None /\ account[t].subscription = e.subscription}

(* Faulty variant of IsStale: both times are cut to milliseconds.              *)
IsStaleByDate(d, row) ==
    /\ event[d].occurredAt # 0 /\ row.lastEventAt # 0
    /\ (event[d].occurredAt + 1) \div 2 <= (row.lastEventAt + 1) \div 2

(* compareIsoTimestamps(occurredAt, paddleLastEventAt) <= 0, if both are there. *)
IsStaleEvent(d, row) ==
    /\ event[d].occurredAt # 0 /\ row.lastEventAt # 0
    /\ event[d].occurredAt <= row.lastEventAt

NoTenant(d) ==
    /\ handling[d] = "undelivered"
    /\ Match(d) = {}
    /\ Handle(d, "accepted")
    /\ UNCHANGED <<account, event, target, reading, binds, request, auditLog,
                   billingFaults, settled, outrun, stirred>>

(* The handler reads the tenant; a stale event is acknowledged and dropped.     *)
MatchTenant(d, t) ==
    /\ handling[d] = "undelivered"
    /\ t \in Match(d)
    /\ target' = [target EXCEPT ![d] = t]
    /\ reading' = [reading EXCEPT ![d] = account[t]]
    /\ binds' = [binds EXCEPT ![d] = FALSE]
    /\ outrun' = outrun \ {d}
    /\ IF IsStaleEvent(d, account[t])
       THEN Handle(d, "accepted") /\ settled' = [settled EXCEPT ![t] = @ \cup {d}]
       ELSE /\ Handle(d, IF event[d].subscription \in {None, account[t].subscription}
                         THEN "checked" ELSE "matched")
            /\ UNCHANGED settled
    /\ UNCHANGED <<account, event, request, auditLog, billingFaults, stirred>>

BoundTo(s) == {t \in Tenants : account[t].stored /\ account[t].subscription = s}

(* Faulty variant of CheckConflict: the id is bound whoever has it.            *)
BindAnyway(d) ==
    /\ handling[d] = "matched"
    /\ binds' = [binds EXCEPT ![d] = TRUE]
    /\ Handle(d, "checked")
    /\ UNCHANGED <<account, event, target, reading, request, auditLog, billingFaults,
                   settled, outrun, stirred>>

(* Does another tenant have the subscription?  Then it is not bound.           *)
CheckConflict(d) ==
    /\ handling[d] = "matched"
    /\ binds' = [binds EXCEPT ![d] = BoundTo(event[d].subscription) \subseteq {target[d]}]
    /\ Handle(d, "checked")
    /\ UNCHANGED <<account, event, target, reading, request, auditLog, billingFaults,
                   settled, outrun, stirred>>

ChangesStatus(d) == reading[d].status # event[d].newStatus

(* The row after one UPDATE of the columns in the patch.                       *)
Patched(d, row) ==
    [row EXCEPT !.status = IF ChangesStatus(d) THEN event[d].newStatus ELSE @,
                !.subscription = IF binds[d] THEN event[d].subscription ELSE @,
                !.lastEventAt = IF event[d].occurredAt # 0 THEN event[d].occurredAt ELSE @]

(* The unique index, checked when a row is written.                           *)
IndexAllows(acc) == SubscriptionsAreUnique(acc)

(* Deliveries whose reading of t the write of another row makes untrue.        *)
Outruns(t, row) ==
    {e \in Deliveries :
        /\ handling[e] \in {"matched", "checked"} /\ target[e] = t
        /\ row.status # account[t].status \/ row.lastEventAt # account[t].lastEventAt}

Newest(D) == {d \in D : \A e \in D : event[e].occurredAt <= event[d].occurredAt}

WritePatch(d) ==
    LET t == target[d]
        row == account[t]
        written == IF row.stored THEN [account EXCEPT ![t] = Patched(d, row)] ELSE account
    IN /\ handling[d] = "checked"
       /\ IndexAllows(written)
       /\ account' = written
       /\ Handle(d, IF ChangesStatus(d) THEN "audit" ELSE "accepted")
       /\ settled' = [settled EXCEPT ![t] = @ \cup {d}]
       /\ outrun' = outrun \cup (Outruns(t, written[t]) \ {d})
       /\ stirred' = IF d \in outrun \/ event[d].occurredAt = 0 THEN stirred \cup {t}
                     ELSE IF d \in Newest(settled'[t]) THEN stirred \ {t}
                     ELSE stirred
       /\ UNCHANGED <<event, target, reading, binds, request, auditLog, billingFaults>>

(* The unique index refuses the write: nothing of the patch is stored.          *)
RefusePatch(d) ==
    LET t == target[d]
    IN /\ handling[d] = "checked"
       /\ account[t].stored
       /\ ~IndexAllows([account EXCEPT ![t] = Patched(d, account[t])])
       /\ Handle(d, "failed")
       /\ UNCHANGED <<account, event, target, reading, binds, request, auditLog,
                      billingFaults, settled, outrun, stirred>>

(* recordAudit never throws: an entry that cannot be written is lost.           *)
Audit(d) ==
    /\ handling[d] = "audit"
    /\ Handle(d, "accepted")
    /\ \/ auditLog' = auditLog \cup {d} /\ UNCHANGED billingFaults
       \/ BillingFault /\ UNCHANGED auditLog
    /\ UNCHANGED <<account, event, target, reading, binds, request, settled, outrun,
                   stirred>>

(* A store call throws, or the process dies before the response.               *)
DeliveryFails(d) ==
    /\ handling[d] \in {"matched", "checked", "audit"}
    /\ BillingFault
    /\ Handle(d, "failed")
    /\ UNCHANGED <<account, event, target, reading, binds, request, auditLog, settled,
                   outrun, stirred>>

(* Paddle delivers again what was not acknowledged.                            *)
Redeliver(d) ==
    /\ handling[d] = "failed"
    /\ Handle(d, "undelivered")
    /\ UNCHANGED <<account, event, target, reading, binds, request, auditLog,
                   billingFaults, settled, outrun, stirred>>

-------------------------------------------------------------------------------
(* The administrator. *)

Serve(p, s) == request' = [request EXCEPT ![p].stage = s]

(* checkPaddleSubscriptionIdConflict. *)
Conflicts(patch) ==
    /\ patch.subscription \in Subscriptions
    /\ ~(BoundTo(patch.subscription) \subseteq
           IF patch.op = "create" THEN {} ELSE {patch.id})

(* A patch reads the tenant and looks for a conflict; a created tenant has a    *)
(* new id.                                                                   *)
CheckRequest(p) ==
    LET patch == request[p].patch
    IN /\ request[p].stage = "new"
       /\ patch.op \in {"patch", "create"}
       /\ patch.op = "create" => account[patch.id] = Absent
       /\ Serve(p, IF Conflicts(patch) \/ (patch.op = "patch" /\ ~account[patch.id].stored)
                   THEN "refused" ELSE "checked")
       /\ UNCHANGED <<account, event, handling, target, reading, binds, auditLog,
                      billingFaults, settled, outrun, stirred>>

(* buildTenantPatch with includeStatus, or the new row.                        *)
Administered(patch, row) ==
    IF patch.op = "create"
    THEN [Absent EXCEPT !.stored = TRUE, !.subscription = patch.subscription]
    ELSE [row EXCEPT
            !.status = IF patch.status = "keep" THEN @ ELSE patch.status,
            !.subscription = IF patch.subscription = "keep" THEN @ ELSE patch.subscription]

WriteRequest(p) ==
    LET patch == request[p].patch
        t == patch.id
        written == IF patch.op = "patch" /\ ~account[t].stored THEN account
                   ELSE [account EXCEPT ![t] = Administered(patch, @)]
    IN /\ request[p].stage = "checked"
       /\ IF IndexAllows(written)
          THEN /\ account' = written /\ Serve(p, "done")
               /\ outrun' = outrun \cup Outruns(t, written[t])
               /\ stirred' = IF patch.status = "keep" THEN stirred ELSE stirred \cup {t}
          ELSE /\ Serve(p, "refused") /\ UNCHANGED <<account, outrun, stirred>>
       /\ UNCHANGED <<event, handling, target, reading, binds, auditLog, billingFaults,
                      settled>>

(* DELETE /admin/tenants/:id. *)
DeleteTenant(p) ==
    LET t == request[p].patch.id
    IN /\ request[p].stage = "new"
       /\ request[p].patch.op = "delete"
       /\ account' = [account EXCEPT ![t].stored = FALSE]
       /\ Serve(p, "done")
       /\ UNCHANGED <<event, handling, target, reading, binds, auditLog, billingFaults,
                      settled, outrun, stirred>>

DeliveryStep(d) ==
    \/ NoTenant(d)
    \/ \E t \in Tenants : MatchTenant(d, t)
    \/ CheckConflict(d) \/ WritePatch(d) \/ RefusePatch(d) \/ Audit(d)
    \/ Redeliver(d)

BillingNext ==
    \/ \E d \in Deliveries : DeliveryStep(d) \/ DeliveryFails(d)
    \/ \E p \in AdminRequests : CheckRequest(p) \/ WriteRequest(p) \/ DeleteTenant(p)

(* A handler that runs goes on, and Paddle delivers an event until it gets a    *)
(* 2xx for it.  Nobody promises that an administrator comes.                   *)
BillingFairness ==
    \A d \in Deliveries : WF_billingVars(DeliveryStep(d))

BillingSpec == BillingInit /\ [][BillingNext]_billingVars
FairBillingSpec == BillingSpec /\ BillingFairness

-------------------------------------------------------------------------------
(* Properties. *)

(* The status of a tenant is the one the newest event about it asks for,       *)
(* whatever the order of the deliveries, unless an administrator set it since  *)
(* or a delivery wrote from a reading that another write had outrun.           *)
NewestEventDecides ==
    \A t \in Tenants :
        account[t].stored /\ t \notin stirred
        => \A d \in Newest(settled[t]) :
               event[d].occurredAt # 0 => account[t].status = event[d].newStatus

(* Every delivery is acknowledged in the end: one the unique index refused is   *)
(* delivered again and then takes the conflict into account, so a subscription *)
(* of another tenant never keeps Paddle's event from being applied.            *)
EventSettles == \A d \in Deliveries : handling[d] = "failed" ~> handling[d] = "accepted"
===============================================================================
