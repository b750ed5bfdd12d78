------------------------------ MODULE TenantProofs ------------------------------
(***************************************************************************)
(* Proofs about Billing and NumberHosting, the two writers of a tenant's row   *)
(* that read it, wait for something else and write it back.                   *)
(*                                                                         *)
(* Billing: the newest event decides a tenant's status, for any number of      *)
(* tenants, deliveries and administrator's requests.  A delivery that was not  *)
(* outrun wrote from a reading that still held, so it was newer than           *)
(* everything settled before; LatestInv says that the row remembers the time   *)
(* of the newest.                                                            *)
(*                                                                         *)
(* NumberHosting: a refresh keeps the channels and the order that were asked   *)
(* for last, for any number of requests, numbers and orders.  What a refresh   *)
(* has read is what is meant, in every column that no write has made untrue    *)
(* since.                                                                    *)
(***************************************************************************)
EXTENDS Billing, NumberHosting, TLAPS

-------------------------------------------------------------------------------
(* Billing. *)

(* A delivery that was not outrun has a true reading, and is not stale by it.    *)
ReadingInv ==
    \A d \in Deliveries : handling[d] \in {"matched", "checked"} =>
        /\ target[d] \in Tenants
        /\ d \notin outrun =>
               /\ reading[d].status = account[target[d]].status
               /\ reading[d].lastEventAt = account[target[d]].lastEventAt
               /\ ~IsStaleEvent(d, account[target[d]])

(* The row has the time and the status of the newest event that was settled.     *)
LatestInv ==
    \A t \in Tenants : account[t].stored /\ t \notin stirred =>
        /\ \A d \in settled[t] :
               /\ event[d].occurredAt <= account[t].lastEventAt
               /\ event[d].occurredAt # 0 /\ event[d].occurredAt = account[t].lastEventAt
                  => event[d].newStatus = account[t].status
        /\ account[t].lastEventAt # 0 =>
               \E d \in settled[t] : event[d].occurredAt = account[t].lastEventAt

BillingInv == BillingTypeOK /\ OneEventPerTime /\ ReadingInv /\ LatestInv

-------------------------------------------------------------------------------

(* Nothing is settled or read at the start. *)
LEMMA BillingInitially == BillingInit => BillingInv
<1> SUFFICES ASSUME BillingInit
             PROVE  BillingInv
  OBVIOUS
<1>1. BillingTypeOK
  <2>1. /\ Absent \in Accounts /\ billingFaults \in 0 .. MaxBillingFaults
    BY BillingAssumption DEF BillingInit, Absent, Accounts
  <2>2. /\ handling \in [Deliveries -> Handling]
        /\ binds \in [Deliveries -> BOOLEAN]
    BY DEF BillingInit, Handling
  <2>3. request \in [AdminRequests ->
            [patch : Patches, stage : {"new", "checked", "done", "refused"}]]
    BY DEF BillingInit
  <2> QED BY <2>1, <2>2, <2>3 DEF BillingInit, BillingTypeOK
<1>2. ReadingInv /\ LatestInv
  BY DEF BillingInit, ReadingInv, LatestInv
<1> QED BY <1>1, <1>2 DEF BillingInit, BillingInv

(* The patch of an event, and what an administrator sends, make a row.          *)
LEMMA PatchedRow ==
    ASSUME BillingTypeOK, NEW d \in Deliveries, NEW row \in Accounts
    PROVE  /\ Patched(d, row) \in Accounts
           /\ Patched(d, row).stored = row.stored
           /\ Patched(d, row).status = IF ChangesStatus(d) THEN event[d].newStatus ELSE row.status
           /\ Patched(d, row).lastEventAt =
                IF event[d].occurredAt # 0 THEN event[d].occurredAt ELSE row.lastEventAt
<1> DEFINE s == IF ChangesStatus(d) THEN event[d].newStatus ELSE row.status
           u == IF binds[d] THEN event[d].subscription ELSE row.subscription
           o == IF event[d].occurredAt # 0 THEN event[d].occurredAt ELSE row.lastEventAt
           r1 == [row EXCEPT !.status = s]
           r2 == [r1 EXCEPT !.subscription = u]
           r3 == [r2 EXCEPT !.lastEventAt = o]
<1>1. /\ s \in {"active", "suspended"} /\ u \in Subscriptions \cup {None}
      /\ o \in 0 .. MaxOccurredAt
  BY DEF BillingTypeOK, PaddleEvents, Accounts
<1> HIDE DEF s, u, o
<1>2. /\ r1 \in Accounts /\ r1.stored = row.stored /\ r1.status = s
      /\ r1.lastEventAt = row.lastEventAt /\ r1.subscription = row.subscription
  BY <1>1 DEF Accounts
<1>3. r2 \in Accounts /\ r2.stored = row.stored /\ r2.status = s
  <2> HIDE DEF r1
  <2> QED BY <1>1, <1>2 DEF Accounts
<1>4. r3 \in Accounts /\ r3.stored = row.stored /\ r3.status = s /\ r3.lastEventAt = o
  <2> HIDE DEF r2
  <2> QED BY <1>1, <1>3 DEF Accounts
<1>5. Patched(d, row) = r3
  BY <1>2 DEF Patched, s, u, o
<1> HIDE DEF r3
<1> QED BY <1>4, <1>5 DEF s, o

(* An administrator's write makes a row, with the old status unless asked.       *)
LEMMA AdministeredRow ==
    ASSUME NEW patch \in Patches, NEW row \in Accounts
    PROVE  /\ Administered(patch, row) \in Accounts
           /\ patch.status = "keep" =>
                  /\ Administered(patch, row).stored = row.stored
                  /\ Administered(patch, row).status = row.status
                  /\ Administered(patch, row).lastEventAt = row.lastEventAt
<1>1. CASE patch.op = "create"
  <2> DEFINE r1 == [Absent EXCEPT !.stored = TRUE]
  <2>1. Absent \in Accounts /\ patch.status = "active"
        /\ patch.subscription \in Subscriptions \cup {None}
    BY <1>1, BillingAssumption DEF Absent, Accounts, Patches
  <2>2. r1 \in Accounts
    BY <2>1 DEF Accounts
  <2>3. [r1 EXCEPT !.subscription = patch.subscription] \in Accounts
    <3> HIDE DEF r1
    <3> QED BY <2>1, <2>2 DEF Accounts
  <2> QED BY <1>1, <2>1, <2>3 DEF Administered
<1>2. CASE patch.op # "create"
  <2> DEFINE s == IF patch.status = "keep" THEN row.status ELSE patch.status
             u == IF patch.subscription = "keep" THEN row.subscription ELSE patch.subscription
             r1 == [row EXCEPT !.status = s]
  <2>1. s \in {"active", "suspended"} /\ u \in Subscriptions \cup {None}
    BY <1>2 DEF Accounts, Patches
  <2> HIDE DEF s, u
  <2>2. /\ r1 \in Accounts /\ r1.stored = row.stored /\ r1.status = s
        /\ r1.lastEventAt = row.lastEventAt /\ r1.subscription = row.subscription
    BY <2>1 DEF Accounts
  <2>3. /\ [r1 EXCEPT !.subscription = u] \in Accounts
        /\ [r1 EXCEPT !.subscription = u].stored = row.stored
        /\ [r1 EXCEPT !.subscription = u].status = s
        /\ [r1 EXCEPT !.subscription = u].lastEventAt = row.lastEventAt
    <3> HIDE DEF r1
    <3> QED BY <2>1, <2>2 DEF Accounts
  <2>4. Administered(patch, row) = [r1 EXCEPT !.subscription = u]
    BY <1>2, <2>2 DEF Administered, s, u
  <2>5. patch.status = "keep" => s = row.status
    BY DEF s
  <2> HIDE DEF r1
  <2> QED BY <2>3, <2>4, <2>5
<1> QED BY <1>1, <1>2

(* A deleted row is still one, of which only the presence changed.               *)
LEMMA DeletedRow ==
    ASSUME NEW row \in Accounts
    PROVE  LET deleted == [row EXCEPT !.stored = FALSE]
           IN /\ deleted \in Accounts
              /\ ~deleted.stored
              /\ deleted.status = row.status
              /\ deleted.lastEventAt = row.lastEventAt
BY DEF Accounts

(* Types are kept by every step. *)
LEMMA BillingTypes ==
    ASSUME BillingTypeOK, ReadingInv, [BillingNext]_billingVars
    PROVE  BillingTypeOK'
<1> USE DEF BillingTypeOK, Handle, Serve, Handling
<1>1. CASE UNCHANGED billingVars
  BY <1>1 DEF billingVars
<1>2. ASSUME NEW d \in Deliveries, DeliveryStep(d) \/ DeliveryFails(d)
      PROVE  BillingTypeOK'
  <2>1. CASE NoTenant(d)
    BY <2>1 DEF NoTenant
  <2>2. ASSUME NEW t \in Tenants, MatchTenant(d, t)
        PROVE  BillingTypeOK'
    <3>1. settled' \in [Tenants -> SUBSET Deliveries] /\ handling' \in [Deliveries -> Handling]
      BY <2>2 DEF MatchTenant
    <3> QED BY <2>2, <3>1 DEF MatchTenant
  <2>3. CASE CheckConflict(d)
    <3>1. binds' \in [Deliveries -> BOOLEAN]
      BY <2>3 DEF CheckConflict
    <3> QED BY <2>3, <3>1 DEF CheckConflict
  <2>4. CASE WritePatch(d)
    <3> DEFINE t == target[d]
    <3>1. account' \in [Tenants -> Accounts]
      <4>1. CASE ~account[t].stored
        BY <2>4, <4>1 DEF WritePatch
      <4>2. CASE t \notin Tenants
        BY <2>4, <4>2 DEF WritePatch
      <4>3. CASE t \in Tenants /\ account[t].stored
        <5>1. Patched(d, account[t]) \in Accounts
          BY <4>3, PatchedRow
        <5> QED BY <2>4, <4>3, <5>1 DEF WritePatch
      <4> QED BY <4>1, <4>2, <4>3
    <3>2. /\ settled' \in [Tenants -> SUBSET Deliveries]
          /\ outrun' \subseteq Deliveries
      BY <2>4 DEF WritePatch, Outruns
    <3>3. stirred' \subseteq Tenants
      <4>1. t \in Tenants
        BY <2>4 DEF WritePatch, ReadingInv
      <4> QED BY <2>4, <4>1 DEF WritePatch
    <3> QED BY <2>4, <3>1, <3>2, <3>3 DEF WritePatch
  <2>5. CASE RefusePatch(d)
    BY <2>5 DEF RefusePatch
  <2>6. CASE Audit(d)
    BY <2>6, BillingAssumption DEF Audit, BillingFault
  <2>7. CASE Redeliver(d)
    BY <2>7 DEF Redeliver
  <2>8. CASE DeliveryFails(d)
    BY <2>8, BillingAssumption DEF DeliveryFails, BillingFault
  <2> QED BY <1>2, <2>1, <2>2, <2>3, <2>4, <2>5, <2>6, <2>7, <2>8 DEF DeliveryStep
<1>3. ASSUME NEW p \in AdminRequests, CheckRequest(p)
      PROVE  BillingTypeOK'
  BY <1>3 DEF CheckRequest
<1>4. ASSUME NEW p \in AdminRequests, WriteRequest(p)
      PROVE  BillingTypeOK'
  <2> DEFINE patch == request[p].patch
             t == patch.id
  <2>1. patch \in Patches /\ t \in Tenants
    BY DEF Patches
  <2>2. Administered(patch, account[t]) \in Accounts
    BY <2>1, AdministeredRow
  <2>3. account' \in [Tenants -> Accounts]
    <3> DEFINE row == Administered(patch, account[t])
    <3>1. \/ account' = account
          \/ account' = [account EXCEPT ![t] = row]
      <4> HIDE DEF BillingTypeOK, row, Handling
      <4> QED BY <1>4 DEF WriteRequest, row
    <3> HIDE DEF row, Accounts
    <3>2. row \in Accounts
      BY <2>2 DEF row
    <3> HIDE DEF t
    <3> QED BY <3>1, <3>2
  <2>4. outrun' \subseteq Deliveries
    BY <1>4 DEF WriteRequest, Outruns
  <2>5. stirred' \subseteq Tenants
    BY <1>4, <2>1 DEF WriteRequest
  <2>6. request' \in [AdminRequests ->
            [patch : Patches, stage : {"new", "checked", "done", "refused"}]]
    BY <1>4 DEF WriteRequest
  <2> QED BY <1>4, <2>3, <2>4, <2>5, <2>6 DEF WriteRequest
<1>5. ASSUME NEW p \in AdminRequests, DeleteTenant(p)
      PROVE  BillingTypeOK'
  <2> DEFINE t == request[p].patch.id
             deleted == [account[t] EXCEPT !.stored = FALSE]
  <2>1. t \in Tenants
    BY DEF Patches
  <2>2. deleted \in Accounts
    BY <2>1, DeletedRow
  <2>3. account' = [account EXCEPT ![t] = deleted]
    BY <1>5 DEF DeleteTenant
  <2> HIDE DEF deleted
  <2>4. account' \in [Tenants -> Accounts]
    BY <2>2, <2>3
  <2>5. request' \in [AdminRequests ->
            [patch : Patches, stage : {"new", "checked", "done", "refused"}]]
    BY <1>5 DEF DeleteTenant
  <2> QED BY <1>5, <2>4, <2>5 DEF DeleteTenant
<1> QED BY <1>1, <1>2, <1>3, <1>4, <1>5 DEF BillingNext

-------------------------------------------------------------------------------

(* A step that moves no row, settles nothing and sends no delivery to its write. *)
LEMMA NothingDecided ==
    ASSUME BillingInv,
           UNCHANGED <<account, event, target, reading, settled, outrun, stirred>>,
           \A d \in Deliveries : handling'[d] \in {"matched", "checked"} =>
               handling[d] \in {"matched", "checked"}
    PROVE  (OneEventPerTime /\ ReadingInv /\ LatestInv)'
BY DEF BillingInv, OneEventPerTime, ReadingInv, LatestInv, IsStaleEvent

(* A delivery reads its tenant; a stale one is settled without a write.           *)
LEMMA MatchKeeps ==
    ASSUME BillingInv, NEW d \in Deliveries, NEW t \in Tenants, MatchTenant(d, t)
    PROVE  (OneEventPerTime /\ ReadingInv /\ LatestInv)'
<1> USE DEF BillingInv, BillingTypeOK
<1>1. /\ UNCHANGED <<account, event, stirred>>
      /\ target'[d] = t /\ \A e \in Deliveries \ {d} : target'[e] = target[e]
      /\ reading'[d] = account[t] /\ \A e \in Deliveries \ {d} : reading'[e] = reading[e]
      /\ outrun' = outrun \ {d}
      /\ \A e \in Deliveries \ {d} : handling'[e] = handling[e]
  BY DEF MatchTenant, Handle
<1>2. OneEventPerTime'
  BY <1>1 DEF OneEventPerTime
<1>3. CASE IsStaleEvent(d, account[t])
  <2>1. handling'[d] = "accepted"
    BY <1>3 DEF MatchTenant, Handle
  <2>2. /\ settled'[t] = settled[t] \cup {d}
        /\ \A u \in Tenants \ {t} : settled'[u] = settled[u]
    BY <1>3 DEF MatchTenant
  <2>3. ReadingInv'
    BY <1>1, <2>1 DEF ReadingInv, IsStaleEvent
  <2>4. /\ event[d].occurredAt # 0
        /\ event[d].occurredAt <= account[t].lastEventAt
        /\ account[t].lastEventAt # 0
    BY <1>3 DEF IsStaleEvent
  <2>5. ASSUME account[t].stored, t \notin stirred,
               event[d].occurredAt = account[t].lastEventAt
        PROVE  event[d].newStatus = account[t].status
    <3>1. PICK e \in settled[t] : event[e].occurredAt = account[t].lastEventAt
      BY <2>4, <2>5 DEF LatestInv
    <3>2. e \in Deliveries
      OBVIOUS
    <3>3. event[e] = event[d]
      BY <2>4, <2>5, <3>1, <3>2 DEF OneEventPerTime
    <3> QED BY <2>4, <2>5, <3>1, <3>3 DEF LatestInv
  <2>6. LatestInv'
    <3> HIDE DEF BillingTypeOK
    <3> QED BY <1>1, <2>2, <2>4, <2>5 DEF LatestInv
  <2> QED BY <1>2, <2>3, <2>6
<1>4. CASE ~IsStaleEvent(d, account[t])
  <2>1. UNCHANGED settled
    BY <1>4 DEF MatchTenant
  <2>2. ReadingInv'
    <3> HIDE DEF BillingTypeOK
    <3> QED BY <1>1, <1>4 DEF ReadingInv, IsStaleEvent
  <2>3. LatestInv'
    BY <1>1, <2>1 DEF LatestInv
  <2> QED BY <1>2, <2>2, <2>3
<1> QED BY <1>3, <1>4

(* One row changes: the readings of it that become untrue are recorded as outrun.   *)
LEMMA ReadingsOutrun ==
    ASSUME BillingInv, NEW t \in Tenants, NEW row,
           account' = [account EXCEPT ![t] = row],
           UNCHANGED <<event, target, reading>>,
           \A e \in Deliveries : handling'[e] \in {"matched", "checked"} =>
               /\ handling[e] \in {"matched", "checked"}
               /\ e \in outrun => e \in outrun'
               /\ e \in Outruns(t, row) => e \in outrun'
    PROVE  ReadingInv'
<1> SUFFICES ASSUME NEW e \in Deliveries, handling'[e] \in {"matched", "checked"}
             PROVE  /\ target[e] \in Tenants
                    /\ e \notin outrun' =>
                           /\ reading[e].status = account'[target[e]].status
                           /\ reading[e].lastEventAt = account'[target[e]].lastEventAt
                           /\ ~IsStaleEvent(e, account[target[e]])'
  BY DEF ReadingInv
<1>1. /\ handling[e] \in {"matched", "checked"} /\ target[e] \in Tenants
      /\ e \notin outrun' =>
             /\ reading[e].status = account[target[e]].status
             /\ reading[e].lastEventAt = account[target[e]].lastEventAt
             /\ ~IsStaleEvent(e, account[target[e]])
  BY DEF BillingInv, ReadingInv
<1>2. \A u \in Tenants : account'[u] = IF u = t THEN row ELSE account[u]
  BY DEF BillingInv, BillingTypeOK
<1>3. CASE target[e] # t
  BY <1>1, <1>2, <1>3 DEF IsStaleEvent
<1>4. CASE target[e] = t
  <2>1. e \notin outrun' => row.status = account[t].status /\ row.lastEventAt = account[t].lastEventAt
    BY <1>1, <1>4 DEF Outruns
  <2> QED BY <1>1, <1>2, <1>4, <2>1 DEF IsStaleEvent
<1> QED BY <1>3, <1>4

(* The write of a delivery: what it leaves is the newest, or the tenant is stirred.  *)
LEMMA WriteKeeps ==
    ASSUME BillingInv, NEW d \in Deliveries, WritePatch(d)
    PROVE  (OneEventPerTime /\ ReadingInv /\ LatestInv)'
<1> USE DEF BillingInv
<1> DEFINE t == target[d]
           row == account[t]
           e == event[d]
<1>1. /\ handling[d] = "checked"
      /\ UNCHANGED <<event, target, reading>>
      /\ settled' = [settled EXCEPT ![t] = @ \cup {d}]
  BY DEF WritePatch
<1>2. /\ handling'[d] \in {"audit", "accepted"}
      /\ \A x \in Deliveries \ {d} : handling'[x] = handling[x]
  BY DEF WritePatch, Handle, BillingTypeOK
<1>3. t \in Tenants
  BY <1>1 DEF ReadingInv
<1>4. stirred' = IF d \in outrun \/ e.occurredAt = 0 THEN stirred \cup {t}
                 ELSE IF d \in Newest(settled'[t]) THEN stirred \ {t}
                 ELSE stirred
  BY <1>1 DEF WritePatch, Newest
<1>5. OneEventPerTime'
  BY <1>1 DEF OneEventPerTime
<1>6. CASE ~row.stored
  <2>1. account' = account
    BY <1>6 DEF WritePatch
  <2>2. ReadingInv'
    BY <1>1, <1>2, <2>1 DEF ReadingInv, WritePatch, IsStaleEvent
  <2>3. \A u \in Tenants \ {t} : settled'[u] = settled[u] /\ (u \in stirred' <=> u \in stirred)
    BY <1>1, <1>4 DEF BillingTypeOK
  <2>4. LatestInv'
    BY <1>1, <1>6, <2>1, <2>3 DEF LatestInv
  <2> QED BY <1>5, <2>2, <2>4
<1>7. CASE row.stored
  <2> DEFINE new == Patched(d, row)
  <2>1. /\ account' = [account EXCEPT ![t] = new]
        /\ outrun' = outrun \cup (Outruns(t, account'[t]) \ {d})
    BY <1>7 DEF WritePatch
  <2>2. account'[t] = new /\ \A u \in Tenants \ {t} : account'[u] = account[u]
    BY <1>3, <2>1 DEF BillingTypeOK
  <2>3. ReadingInv'
    <3>1. \A x \in Deliveries : handling'[x] \in {"matched", "checked"} =>
              /\ handling[x] \in {"matched", "checked"}
              /\ x \in outrun => x \in outrun'
              /\ x \in Outruns(t, new) => x \in outrun'
      BY <1>2, <2>1, <2>2
    <3> HIDE DEF new
    <3> QED BY <1>1, <1>3, <2>1, <3>1, ReadingsOutrun
  <2>4. /\ new.status = IF ChangesStatus(d) THEN e.newStatus ELSE row.status
        /\ new.lastEventAt = IF e.occurredAt # 0 THEN e.occurredAt ELSE row.lastEventAt
    <3>1. row \in Accounts
      BY <1>3 DEF BillingTypeOK
    <3> QED BY <3>1, PatchedRow
  <2> HIDE DEF new
  <2>5. /\ settled'[t] = settled[t] \cup {d}
        /\ \A u \in Tenants \ {t} : settled'[u] = settled[u] /\ (u \in stirred' <=> u \in stirred)
    BY <1>1, <1>3, <1>4 DEF BillingTypeOK
  <2>6. ASSUME t \notin stirred'
        PROVE  /\ \A x \in settled'[t] :
                      /\ event[x].occurredAt <= new.lastEventAt
                      /\ event[x].occurredAt = new.lastEventAt => event[x].newStatus = new.status
               /\ e.occurredAt = new.lastEventAt
    <3>1. d \notin outrun /\ e.occurredAt # 0
      BY <1>3, <1>4, <2>6
    <3>2. /\ reading[d].status = row.status
          /\ ~IsStaleEvent(d, row)
      BY <1>1, <3>1 DEF ReadingInv
    <3>3. new.status = e.newStatus /\ new.lastEventAt = e.occurredAt
      BY <2>4, <3>1, <3>2 DEF ChangesStatus
    <3>4. \A x \in settled'[t] : x \in Deliveries
      BY <1>3, <2>5 DEF BillingTypeOK
    <3>5. \A x \in Deliveries : event[x].occurredAt \in Nat
      BY BillingAssumption DEF BillingTypeOK, PaddleEvents
    <3>6. row.lastEventAt \in Nat
      BY <1>3, BillingAssumption DEF BillingTypeOK, Accounts
    <3>7. \A x \in settled'[t] : event[x].occurredAt <= e.occurredAt
      <4>1. CASE t \in stirred
        BY <1>1, <1>3, <1>4, <2>6, <3>1, <4>1 DEF Newest
      <4>2. CASE t \notin stirred
        <5>1. row.lastEventAt = 0 \/ row.lastEventAt < e.occurredAt
          BY <3>1, <3>2, <3>5, <3>6 DEF IsStaleEvent
        <5>2. \A x \in settled[t] : event[x].occurredAt <= row.lastEventAt
          BY <1>3, <1>7, <4>2 DEF LatestInv
        <5> QED BY <2>5, <3>4, <3>5, <3>6, <5>1, <5>2
      <4> QED BY <4>1, <4>2
    <3>8. \A x \in settled'[t] : event[x].occurredAt = e.occurredAt => event[x] = e
      BY <3>1, <3>4 DEF OneEventPerTime
    <3> QED BY <3>3, <3>7, <3>8
  <2>7. d \in settled'[t]
    BY <2>5
  <2>8. LatestInv'
    <3> SUFFICES ASSUME NEW u \in Tenants, account'[u].stored, u \notin stirred'
                 PROVE  /\ \A x \in settled'[u] :
                               /\ event[x].occurredAt <= account'[u].lastEventAt
                               /\ event[x].occurredAt # 0
                                  /\ event[x].occurredAt = account'[u].lastEventAt
                                  => event[x].newStatus = account'[u].status
                        /\ account'[u].lastEventAt # 0 =>
                               \E x \in settled'[u] : event[x].occurredAt = account'[u].lastEventAt
      BY <1>1 DEF LatestInv
    <3>1. CASE u = t
      BY <2>2, <2>6, <2>7, <3>1
    <3>2. CASE u # t
      BY <2>2, <2>5, <3>2 DEF LatestInv
    <3> QED BY <3>1, <3>2
  <2> QED BY <1>5, <2>3, <2>8
<1> QED BY <1>6, <1>7

(* The administrator's write keeps a row's status and time, or stirs the tenant.     *)
LEMMA RequestKeeps ==
    ASSUME BillingInv, NEW p \in AdminRequests, WriteRequest(p)
    PROVE  (OneEventPerTime /\ ReadingInv /\ LatestInv)'
<1> USE DEF BillingInv
<1> DEFINE patch == request[p].patch
           t == patch.id
           row == Administered(patch, account[t])
<1>1. UNCHANGED <<event, target, reading, handling, settled>>
  BY DEF WriteRequest
<1>2. patch \in Patches /\ t \in Tenants /\ account[t] \in Accounts
  BY DEF BillingTypeOK, Patches
<1>3. CASE account' = account /\ outrun' = outrun /\ stirred \subseteq stirred'
  BY <1>1, <1>3 DEF OneEventPerTime, ReadingInv, LatestInv, IsStaleEvent
<1>4. CASE /\ account' = [account EXCEPT ![t] = row]
           /\ outrun' = outrun \cup Outruns(t, account'[t])
           /\ stirred' = IF patch.status = "keep" THEN stirred ELSE stirred \cup {t}
  <2>1. patch.status = "keep" =>
            /\ row.stored = account[t].stored
            /\ row.status = account[t].status
            /\ row.lastEventAt = account[t].lastEventAt
    BY <1>2, AdministeredRow
  <2> HIDE DEF row
  <2>2. account'[t] = row /\ \A u \in Tenants \ {t} : account'[u] = account[u]
    BY <1>2, <1>4 DEF BillingTypeOK
  <2>3. ReadingInv'
    BY <1>1, <1>2, <1>4, <2>2, ReadingsOutrun
  <2>4. LatestInv'
    BY <1>1, <1>2, <1>4, <2>1, <2>2 DEF LatestInv
  <2> QED BY <1>1, <2>3, <2>4 DEF OneEventPerTime
<1>5. QED
  <2> DEFINE written == IF patch.op = "patch" /\ ~account[t].stored THEN account
                        ELSE [account EXCEPT ![t] = row]
  <2>1. \/ UNCHANGED <<account, outrun, stirred>>
        \/ /\ account' = written
           /\ outrun' = outrun \cup Outruns(t, account'[t])
           /\ stirred' = IF patch.status = "keep" THEN stirred ELSE stirred \cup {t}
    BY DEF WriteRequest
  <2>2. CASE UNCHANGED <<account, outrun, stirred>>
    BY <1>3, <2>2
  <2>3. CASE /\ account' = account
             /\ outrun' = outrun \cup Outruns(t, account'[t])
             /\ stirred \subseteq stirred'
    <3>1. outrun' = outrun
      BY <2>3 DEF Outruns
    <3> QED BY <1>3, <2>3, <3>1
  <2> HIDE DEF row
  <2> QED BY <1>4, <2>1, <2>2, <2>3

(* A deleted row keeps its status and time, so no reading of it becomes untrue.     *)
LEMMA DeleteKeeps ==
    ASSUME BillingInv, NEW p \in AdminRequests, DeleteTenant(p)
    PROVE  (OneEventPerTime /\ ReadingInv /\ LatestInv)'
<1> USE DEF BillingInv
<1> DEFINE t == request[p].patch.id
           deleted == [account[t] EXCEPT !.stored = FALSE]
<1>1. /\ UNCHANGED <<event, target, reading, handling, settled, outrun, stirred>>
      /\ account' = [account EXCEPT ![t] = deleted]
  BY DEF DeleteTenant
<1>2. t \in Tenants /\ account[t] \in Accounts
  BY DEF BillingTypeOK, Patches
<1>3. /\ ~deleted.stored
      /\ deleted.status = account[t].status
      /\ deleted.lastEventAt = account[t].lastEventAt
  BY <1>2, DeletedRow
<1> HIDE DEF deleted
<1>4. account'[t] = deleted /\ \A u \in Tenants \ {t} : account'[u] = account[u]
  BY <1>1, <1>2 DEF BillingTypeOK
<1>5. Outruns(t, deleted) = {}
  BY <1>3 DEF Outruns
<1>6. ReadingInv'
  BY <1>1, <1>2, <1>5, ReadingsOutrun
<1>7. LatestInv'
  BY <1>1, <1>3, <1>4 DEF LatestInv
<1> QED BY <1>1, <1>6, <1>7 DEF OneEventPerTime

(* A tenant's row has the time and the status of the newest event settled for it,   *)
(* unless it was stirred, and a handler that was not outrun holds a true reading of  *)
(* it (webhooks/index.ts), for any number of tenants and deliveries.                *)
THEOREM BillingIsConsistent == BillingSpec => []BillingInv
<1>1. BillingInit => BillingInv
  BY BillingInitially
<1>2. BillingInv /\ [BillingNext]_billingVars => BillingInv'
  <2> SUFFICES ASSUME BillingInv, [BillingNext]_billingVars
               PROVE  BillingInv'
    OBVIOUS
  <2>1. BillingTypeOK'
    BY BillingTypes DEF BillingInv
  <2>2. (OneEventPerTime /\ ReadingInv /\ LatestInv)'
    <3>1. CASE UNCHANGED billingVars
      BY <3>1, NothingDecided DEF billingVars
    <3>2. ASSUME NEW d \in Deliveries, DeliveryStep(d) \/ DeliveryFails(d)
          PROVE  (OneEventPerTime /\ ReadingInv /\ LatestInv)'
      <4>1. ASSUME \/ NoTenant(d) \/ CheckConflict(d) \/ RefusePatch(d)
                   \/ Audit(d) \/ Redeliver(d) \/ DeliveryFails(d)
            PROVE  (OneEventPerTime /\ ReadingInv /\ LatestInv)'
        <5>1. UNCHANGED <<account, event, target, reading, settled, outrun, stirred>>
          BY <4>1 DEF NoTenant, CheckConflict, RefusePatch, Audit, Redeliver, DeliveryFails
        <5>2. \A e \in Deliveries : handling'[e] \in {"matched", "checked"} =>
                  handling[e] \in {"matched", "checked"}
          BY <4>1 DEF NoTenant, CheckConflict, RefusePatch, Audit, Redeliver,
                      DeliveryFails, Handle, BillingInv, BillingTypeOK
        <5> QED BY <5>1, <5>2, NothingDecided
      <4>2. ASSUME NEW t \in Tenants, MatchTenant(d, t)
            PROVE  (OneEventPerTime /\ ReadingInv /\ LatestInv)'
        BY <4>2, MatchKeeps
      <4>3. CASE WritePatch(d)
        BY <4>3, WriteKeeps
      <4> QED BY <3>2, <4>1, <4>2, <4>3 DEF DeliveryStep
    <3>3. ASSUME NEW p \in AdminRequests, CheckRequest(p)
          PROVE  (OneEventPerTime /\ ReadingInv /\ LatestInv)'
      BY <3>3, NothingDecided DEF CheckRequest
    <3>4. ASSUME NEW p \in AdminRequests, WriteRequest(p) \/ DeleteTenant(p)
          PROVE  (OneEventPerTime /\ ReadingInv /\ LatestInv)'
      BY <3>4, RequestKeeps, DeleteKeeps
    <3> QED BY <3>1, <3>2, <3>3, <3>4 DEF BillingNext
  <2> QED BY <2>1, <2>2 DEF BillingInv
<1> QED BY <1>1, <1>2, PTL DEF BillingSpec

(* The newest event about a tenant decides its status, in whatever order Paddle      *)
(* delivers and however the handlers overlap, unless an administrator or a handler    *)
(* with an outrun reading wrote since.                                             *)
THEOREM NewestEventWins == BillingSpec => []NewestEventDecides
<1>1. BillingInv => NewestEventDecides
  <2> SUFFICES ASSUME BillingInv, NEW t \in Tenants, account[t].stored, t \notin stirred,
                      NEW d \in Newest(settled[t]), event[d].occurredAt # 0
               PROVE  account[t].status = event[d].newStatus
    BY DEF NewestEventDecides
  <2>1. /\ d \in settled[t] /\ \A e \in settled[t] : event[e].occurredAt <= event[d].occurredAt
        /\ settled[t] \subseteq Deliveries
    BY DEF Newest, BillingInv, BillingTypeOK
  <2>2. /\ account[t].lastEventAt \in Nat
        /\ \A e \in Deliveries : event[e].occurredAt \in Nat
    BY BillingAssumption DEF BillingInv, BillingTypeOK, Accounts, PaddleEvents
  <2>3. event[d].occurredAt <= account[t].lastEventAt
    BY <2>1 DEF BillingInv, LatestInv
  <2>4. PICK e \in settled[t] : event[e].occurredAt = account[t].lastEventAt
    BY <2>1, <2>2, <2>3 DEF BillingInv, LatestInv
  <2>5. event[d].occurredAt = account[t].lastEventAt
    BY <2>1, <2>2, <2>3, <2>4
  <2> QED BY <2>1, <2>5 DEF BillingInv, LatestInv
<1> QED BY <1>1, BillingIsConsistent, PTL

-------------------------------------------------------------------------------
(* NumberHosting. *)

(* A refresh that has read the row and not written it yet. *)
Refreshing(j) == hosting[j].stage \in {"asking", "answered"}

(* An order somebody knows was opened at Twilio, for one of the numbers.         *)
OrderInv ==
    /\ \A o \in 1 .. opened : twilio[o].number \in Numbers
    /\ tenantRow.order # NoValue => tenantRow.order.sid \in 1 .. opened
    /\ \A j \in HostingRequests :
           hosting[j].stage = "opened" \/ Refreshing(j) => hosting[j].sid \in 1 .. opened

(* What a refresh has read is what is meant, in each column that no write has    *)
(* made untrue since, and that did not hold a clobbered value to begin with.    *)
RefreshInv ==
    \A j \in HostingRequests : Refreshing(j) =>
        /\ hosting[j].read.order # NoValue
        /\ hosting[j].read.order.sid = hosting[j].sid
        /\ "channels" \notin overtaken[j] \cup clobbered =>
               hosting[j].read.channels = meant.channels
        /\ "order" \notin overtaken[j] \cup clobbered =>
               hosting[j].read.order.sid = meant.order

HostingInv == HostingTypeOK /\ OrderInv /\ RefreshInv /\ RefreshKeepsConfig

-------------------------------------------------------------------------------

(* Nothing is ordered or read at the start. *)
LEMMA HostingInitially == HostingInit => HostingInv
<1> SUFFICES ASSUME HostingInit
             PROVE  HostingInv
  OBVIOUS
<1>1. HostingTypeOK
  <2>1. EmptyRow \in TenantRows /\ EmptyRow.channels \in Channels
    BY DEF EmptyRow, TenantRows, Channels
  <2>2. 0 \in 0 .. MaxOrders
    BY HostingAssumption
  <2> QED BY <2>1, <2>2 DEF HostingInit, HostingTypeOK, OrderStates
<1>2. tenantRow.order = NoValue /\ tenantRow.channels = meant.channels /\ meant.order = 0
  BY DEF HostingInit, EmptyRow
<1> QED BY <1>1, <1>2 DEF HostingInit, HostingInv, OrderInv, RefreshInv, RefreshKeepsConfig,
                         Refreshing

(* Overtake marks the running refreshes, and no others. *)
LEMMA OvertakeType ==
    ASSUME HostingTypeOK, NEW cols \in SUBSET {"channels", "order"}, Overtake(cols)
    PROVE  /\ overtaken' \in [HostingRequests -> SUBSET {"channels", "order"}]
           /\ \A j \in HostingRequests :
                  overtaken'[j] = IF Refreshing(j) THEN overtaken[j] \cup cols ELSE overtaken[j]
BY DEF Overtake, HostingTypeOK, Refreshing

(* A request that ends has neither an order to store nor a reading. *)
LEMMA RequestEnds ==
    ASSUME HostingTypeOK, NEW j \in HostingRequests,
           hosting' = [hosting EXCEPT ![j].stage = "done"]
    PROVE  /\ hosting' \in [HostingRequests ->
                  [stage : {"new", "opened", "asking", "answered", "done"}, read : TenantRows,
                   sid : 0 .. MaxOrders, answer : OrderStates]]
           /\ hosting'[j].stage = "done"
           /\ \A i \in HostingRequests : i # j => hosting'[i] = hosting[i]
BY DEF HostingTypeOK

LEMMA SaveChannelsKeeps ==
    ASSUME HostingInv, NEW body \in Bodies, SaveChannels(body)
    PROVE  HostingInv'
<1>1. Resolved(body) \in Channels
  BY DEF SaveChannels, Resolvable, Resolved, Bodies, Channels
<1>2. /\ tenantRow' \in TenantRows
      /\ tenantRow'.channels = Resolved(body) /\ tenantRow'.order = tenantRow.order
      /\ meant' \in [channels : Channels, order : 0 .. MaxOrders]
      /\ meant'.channels = Resolved(body) /\ meant'.order = meant.order
  BY <1>1 DEF SaveChannels, HostingInv, HostingTypeOK, TenantRows
<1>3. HostingTypeOK'
  BY <1>2, OvertakeType DEF SaveChannels, HostingInv, HostingTypeOK
<1>4. OrderInv'
  BY <1>2 DEF SaveChannels, HostingInv, OrderInv, Refreshing
<1>5. RefreshInv'
  <2> SUFFICES ASSUME NEW j \in HostingRequests, Refreshing(j)
               PROVE  /\ hosting[j].read.order # NoValue
                      /\ hosting[j].read.order.sid = hosting[j].sid
                      /\ "channels" \in overtaken'[j]
                      /\ "order" \notin overtaken'[j] \cup clobbered' =>
                             hosting[j].read.order.sid = meant'.order
    BY DEF RefreshInv, SaveChannels, Refreshing
  <2>1. overtaken'[j] = overtaken[j] \cup {"channels"}
    BY OvertakeType DEF SaveChannels, HostingInv
  <2> QED BY <1>2, <2>1 DEF HostingInv, RefreshInv, SaveChannels
<1>6. RefreshKeepsConfig'
  BY <1>2 DEF SaveChannels, HostingInv, RefreshKeepsConfig
<1> QED BY <1>3, <1>4, <1>5, <1>6 DEF HostingInv

LEMMA OpenOrderKeeps ==
    ASSUME HostingInv, NEW j \in HostingRequests, NEW n \in Numbers, OpenOrder(j, n)
    PROVE  HostingInv'
<1>0. opened \in 0 .. MaxOrders /\ MaxOrders \in Nat
  BY HostingAssumption DEF HostingInv, HostingTypeOK
<1>1. opened' \in Orders /\ opened' = opened + 1
  BY <1>0 DEF OpenOrder, Orders
<1>2. /\ twilio' \in [Orders -> [number : Numbers \cup {NoValue}, status : OrderStates]]
      /\ twilio'[opened'].number = n
      /\ \A o \in Orders : o # opened' => twilio'[o] = twilio[o]
  BY <1>1 DEF OpenOrder, HostingInv, HostingTypeOK
<1>3. /\ hosting' \in [HostingRequests ->
             [stage : {"new", "opened", "asking", "answered", "done"}, read : TenantRows,
              sid : 0 .. MaxOrders, answer : OrderStates]]
      /\ hosting'[j].stage = "opened" /\ hosting'[j].sid = opened'
      /\ \A i \in HostingRequests : i # j => hosting'[i] = hosting[i]
  <2> DEFINE mid == [hosting EXCEPT ![j].stage = "opened"]
  <2>1. /\ mid \in [HostingRequests ->
                [stage : {"new", "opened", "asking", "answered", "done"}, read : TenantRows,
                 sid : 0 .. MaxOrders, answer : OrderStates]]
        /\ mid[j].stage = "opened"
        /\ \A i \in HostingRequests : i # j => mid[i] = hosting[i]
    BY DEF HostingInv, HostingTypeOK
  <2>2. hosting' = [mid EXCEPT ![j].sid = opened']
    BY DEF OpenOrder, HostingInv, HostingTypeOK
  <2>3. opened' \in 0 .. MaxOrders
    BY <1>0, <1>1 DEF Orders
  <2> HIDE DEF mid
  <2> QED BY <2>1, <2>2, <2>3
<1>4. HostingTypeOK'
  BY <1>0, <1>1, <1>2, <1>3 DEF OpenOrder, HostingInv, HostingTypeOK, Orders
<1>5. OrderInv'
  <2>1. \A o \in 1 .. opened : o \in Orders /\ o # opened'
    BY <1>0, <1>1 DEF Orders
  <2>2. 1 .. opened' = (1 .. opened) \cup {opened'}
    BY <1>0, <1>1
  <2> QED BY <1>2, <1>3, <2>1, <2>2 DEF OpenOrder, HostingInv, OrderInv, Refreshing
<1>6. RefreshInv' /\ RefreshKeepsConfig'
  BY <1>3 DEF OpenOrder, HostingInv, RefreshInv, RefreshKeepsConfig, Refreshing
<1> QED BY <1>4, <1>5, <1>6 DEF HostingInv

LEMMA StoreOrderKeeps ==
    ASSUME HostingInv, NEW j \in HostingRequests, StoreOrder(j)
    PROVE  HostingInv'
<1> DEFINE o == hosting[j].sid
           new == [sid |-> o, number |-> twilio[o].number, status |-> "pending"]
<1>1. /\ o \in 1 .. opened /\ o \in Orders /\ o \in 0 .. MaxOrders /\ o # 0
      /\ new \in HostingOrders
  <2>1. o \in 1 .. opened /\ twilio[o].number \in Numbers
    BY DEF StoreOrder, HostingInv, OrderInv
  <2>2. o \in Orders /\ o \in 0 .. MaxOrders /\ o # 0
    BY <2>1, HostingAssumption DEF HostingInv, HostingTypeOK, Orders
  <2> QED BY <2>1, <2>2 DEF HostingOrders, OrderStates
<1>2. new # NoValue /\ new.sid = o
  BY <1>1, HostingOrderAssumption
<1>3. /\ tenantRow' \in TenantRows
      /\ tenantRow'.channels = tenantRow.channels /\ tenantRow'.order = new
  <2>1. tenantRow' = [tenantRow EXCEPT !.order = new]
    BY DEF StoreOrder
  <2> HIDE DEF new
  <2> QED BY <1>1, <2>1 DEF HostingInv, HostingTypeOK, TenantRows
<1>4. /\ meant' \in [channels : Channels, order : 0 .. MaxOrders]
      /\ meant'.channels = meant.channels /\ meant'.order = o
  BY <1>1 DEF StoreOrder, HostingInv, HostingTypeOK
<1>5. hosting' = [hosting EXCEPT ![j].stage = "done"] /\ Overtake({"order"})
  BY DEF StoreOrder
<1>6. HostingTypeOK'
  BY <1>3, <1>4, <1>5, RequestEnds, OvertakeType DEF StoreOrder, HostingInv, HostingTypeOK
<1> HIDE DEF new
<1>7. OrderInv'
  BY <1>1, <1>2, <1>3, <1>5, RequestEnds DEF StoreOrder, HostingInv, OrderInv, Refreshing
<1>8. RefreshInv'
  <2> SUFFICES ASSUME NEW i \in HostingRequests, Refreshing(i)'
               PROVE  /\ hosting'[i].read.order # NoValue
                      /\ hosting'[i].read.order.sid = hosting'[i].sid
                      /\ "channels" \notin overtaken'[i] \cup clobbered' =>
                             hosting'[i].read.channels = meant'.channels
                      /\ "order" \in overtaken'[i]
    BY DEF RefreshInv
  <2>1. hosting'[i] = hosting[i] /\ Refreshing(i)
    BY <1>5, RequestEnds DEF HostingInv, Refreshing
  <2>2. overtaken'[i] = overtaken[i] \cup {"order"}
    BY <1>5, <2>1, OvertakeType DEF HostingInv
  <2> QED BY <1>4, <2>1, <2>2 DEF StoreOrder, HostingInv, RefreshInv
<1>9. RefreshKeepsConfig'
  BY <1>1, <1>2, <1>3, <1>4 DEF StoreOrder, HostingInv, RefreshKeepsConfig
<1> QED BY <1>6, <1>7, <1>8, <1>9 DEF HostingInv

LEMMA OrderMovesKeeps ==
    ASSUME HostingInv, NEW o \in Orders, NEW status \in OrderStates, OrderMoves(o, status)
    PROVE  HostingInv'
<1>1. /\ twilio' \in [Orders -> [number : Numbers \cup {NoValue}, status : OrderStates]]
      /\ \A x \in Orders : twilio'[x].number = twilio[x].number
  BY DEF OrderMoves, HostingInv, HostingTypeOK
<1>2. \A x \in 1 .. opened : x \in Orders
  BY HostingAssumption DEF HostingInv, HostingTypeOK, Orders
<1>3. HostingTypeOK'
  BY <1>1 DEF OrderMoves, HostingInv, HostingTypeOK
<1> QED BY <1>1, <1>2, <1>3 DEF OrderMoves, HostingInv, OrderInv, RefreshInv, RefreshKeepsConfig,
                               Refreshing

LEMMA AskTwilioKeeps ==
    ASSUME HostingInv, NEW j \in HostingRequests, AskTwilio(j)
    PROVE  HostingInv'
<1>1. tenantRow.order.sid \in 1 .. opened /\ tenantRow.order.sid \in 0 .. MaxOrders
  BY HostingAssumption DEF AskTwilio, HostingInv, OrderInv, HostingTypeOK
<1>2. /\ hosting' \in [HostingRequests ->
             [stage : {"new", "opened", "asking", "answered", "done"}, read : TenantRows,
              sid : 0 .. MaxOrders, answer : OrderStates]]
      /\ hosting'[j].stage = "asking" /\ hosting'[j].read = tenantRow
      /\ hosting'[j].sid = tenantRow.order.sid
      /\ \A i \in HostingRequests : i # j => hosting'[i] = hosting[i]
  <2> DEFINE Types == [HostingRequests ->
                 [stage : {"new", "opened", "asking", "answered", "done"}, read : TenantRows,
                  sid : 0 .. MaxOrders, answer : OrderStates]]
             first == [hosting EXCEPT ![j].stage = "asking"]
             second == [first EXCEPT ![j].read = tenantRow]
  <2>1. first \in Types /\ first[j].stage = "asking"
        /\ \A i \in HostingRequests : i # j => first[i] = hosting[i]
    BY DEF HostingInv, HostingTypeOK
  <2>2. hosting' = [second EXCEPT ![j].sid = tenantRow.order.sid]
    BY DEF AskTwilio, HostingInv, HostingTypeOK
  <2> HIDE DEF first
  <2>3. second \in Types /\ second[j].stage = "asking" /\ second[j].read = tenantRow
        /\ \A i \in HostingRequests : i # j => second[i] = hosting[i]
    BY <2>1 DEF HostingInv, HostingTypeOK
  <2> HIDE DEF second
  <2> QED BY <1>1, <2>2, <2>3
<1>3. /\ overtaken' \in [HostingRequests -> SUBSET {"channels", "order"}]
      /\ overtaken'[j] = {}
      /\ \A i \in HostingRequests : i # j => overtaken'[i] = overtaken[i]
  BY DEF AskTwilio, HostingInv, HostingTypeOK
<1>4. HostingTypeOK'
  BY <1>2, <1>3 DEF AskTwilio, HostingInv, HostingTypeOK
<1>5. OrderInv'
  BY <1>1, <1>2 DEF AskTwilio, HostingInv, OrderInv, Refreshing
<1>6. RefreshInv'
  <2> SUFFICES ASSUME NEW i \in HostingRequests, Refreshing(i)'
               PROVE  /\ hosting'[i].read.order # NoValue
                      /\ hosting'[i].read.order.sid = hosting'[i].sid
                      /\ "channels" \notin overtaken'[i] \cup clobbered =>
                             hosting'[i].read.channels = meant.channels
                      /\ "order" \notin overtaken'[i] \cup clobbered =>
                             hosting'[i].read.order.sid = meant.order
    BY DEF RefreshInv, AskTwilio
  <2>1. CASE i = j
    BY <1>2, <1>3, <2>1 DEF AskTwilio, HostingInv, RefreshKeepsConfig
  <2>2. CASE i # j
    BY <1>2, <1>3, <2>2 DEF HostingInv, RefreshInv, Refreshing
  <2> QED BY <2>1, <2>2
<1>7. RefreshKeepsConfig'
  BY DEF AskTwilio, HostingInv, RefreshKeepsConfig
<1> QED BY <1>4, <1>5, <1>6, <1>7 DEF HostingInv

LEMMA TwilioAnswersKeeps ==
    ASSUME HostingInv, NEW j \in HostingRequests, TwilioAnswers(j)
    PROVE  HostingInv'
<1> DEFINE Types == [HostingRequests ->
               [stage : {"new", "opened", "asking", "answered", "done"}, read : TenantRows,
                sid : 0 .. MaxOrders, answer : OrderStates]]
           s == twilio[hosting[j].sid].status
           first == [hosting EXCEPT ![j].stage = "answered"]
<1>1. s \in OrderStates
  <2>1. hosting[j].sid \in 1 .. opened
    BY DEF TwilioAnswers, HostingInv, OrderInv, Refreshing
  <2>2. hosting[j].sid \in Orders
    BY <2>1, HostingAssumption DEF HostingInv, HostingTypeOK, Orders
  <2> QED BY <2>2 DEF HostingInv, HostingTypeOK
<1>2. /\ first \in Types /\ first[j].stage = "answered"
      /\ first[j].read = hosting[j].read /\ first[j].sid = hosting[j].sid
      /\ \A i \in HostingRequests : i # j => first[i] = hosting[i]
  BY DEF HostingInv, HostingTypeOK
<1>3. hosting' = [first EXCEPT ![j].answer = s]
  BY DEF TwilioAnswers, HostingInv, HostingTypeOK
<1> HIDE DEF first, s
<1>4. /\ hosting' \in Types
      /\ \A i \in HostingRequests :
             /\ hosting'[i].read = hosting[i].read /\ hosting'[i].sid = hosting[i].sid
             /\ Refreshing(i)' => Refreshing(i)
             /\ hosting'[i].stage = "opened" => hosting[i].stage = "opened"
  <2>1. /\ hosting' \in Types /\ hosting'[j].stage = "answered"
        /\ hosting'[j].read = hosting[j].read /\ hosting'[j].sid = hosting[j].sid
        /\ \A i \in HostingRequests : i # j => hosting'[i] = hosting[i]
    BY <1>1, <1>2, <1>3
  <2>2. Refreshing(j)
    BY DEF TwilioAnswers, Refreshing
  <2> HIDE DEF Types
  <2> QED BY <2>1, <2>2 DEF Refreshing
<1>5. HostingTypeOK'
  BY <1>4 DEF TwilioAnswers, HostingInv, HostingTypeOK
<1> QED BY <1>4, <1>5 DEF TwilioAnswers, HostingInv, OrderInv, RefreshInv, RefreshKeepsConfig

(* The write of a refresh: what it read is what is meant, or the column is      *)
(* clobbered from now on.                                                      *)
LEMMA StoreAnswerKeeps ==
    ASSUME HostingInv, NEW j \in HostingRequests, StoreAnswer(j)
    PROVE  HostingInv'
<1> DEFINE read == hosting[j].read
           n == twilio[hosting[j].sid].number
           cols == IF AddsNumber(j) THEN {"channels"} ELSE {}
           written == [read.order EXCEPT !.status = hosting[j].answer]
<1>0. /\ Refreshing(j) /\ read \in TenantRows /\ hosting[j].answer \in OrderStates
      /\ read.channels \in Channels
      /\ hosting[j].sid \in 1 .. opened /\ n \in Numbers
      /\ cols \in SUBSET {"channels", "order"}
  BY DEF StoreAnswer, HostingInv, HostingTypeOK, OrderInv, Refreshing, TenantRows
<1>1. /\ written \in HostingOrders /\ written # NoValue
      /\ written.sid = hosting[j].sid /\ written.sid # 0
      /\ read.order.sid = hosting[j].sid
  <2>1. read.order \in HostingOrders /\ read.order.sid = hosting[j].sid
    BY <1>0 DEF HostingInv, RefreshInv, TenantRows
  <2>2. written \in HostingOrders /\ written.sid = read.order.sid
    BY <1>0, <2>1 DEF HostingOrders
  <2> QED BY <1>0, <2>1, <2>2, HostingOrderAssumption DEF HostingOrders, Orders
<1>2. WithNumber(read.channels, n) \in Channels
  BY <1>0 DEF WithNumber, Channels
<1>3. /\ tenantRow' \in TenantRows /\ tenantRow'.order = written
      /\ tenantRow'.channels = IF AddsNumber(j) THEN WithNumber(read.channels, n)
                               ELSE tenantRow.channels
  <2>1. tenantRow' = [channels |-> IF AddsNumber(j) THEN WithNumber(read.channels, n)
                                   ELSE tenantRow.channels,
                      order |-> written]
    BY DEF StoreAnswer
  <2> HIDE DEF written, read, n
  <2> QED BY <1>1, <1>2, <2>1 DEF HostingInv, HostingTypeOK, TenantRows
<1>4. /\ meant' \in [channels : Channels, order : 0 .. MaxOrders]
      /\ meant'.order = meant.order
      /\ meant'.channels = IF AddsNumber(j) THEN WithNumber(meant.channels, n)
                           ELSE meant.channels
  <2>1. meant' = IF AddsNumber(j) THEN [meant EXCEPT !.channels.sms = n] ELSE meant
    BY DEF StoreAnswer
  <2> HIDE DEF n
  <2> QED BY <1>0, <2>1 DEF HostingInv, HostingTypeOK, WithNumber, Channels
<1>5. /\ clobbered' = clobbered \cup (overtaken[j] \cap (cols \cup {"order"}))
      /\ Overtake(cols)
      /\ hosting' = [hosting EXCEPT ![j].stage = "done"]
      /\ UNCHANGED <<twilio, opened>>
  BY DEF StoreAnswer
<1> HIDE DEF written, n, cols
<1>6. HostingTypeOK'
  BY <1>0, <1>3, <1>4, <1>5, OvertakeType, RequestEnds DEF HostingInv, HostingTypeOK
<1>7. OrderInv'
  BY <1>0, <1>1, <1>3, <1>5, RequestEnds DEF HostingInv, OrderInv, Refreshing
<1>8. RefreshInv'
  <2> SUFFICES ASSUME NEW i \in HostingRequests, Refreshing(i)'
               PROVE  /\ hosting'[i].read.order # NoValue
                      /\ hosting'[i].read.order.sid = hosting'[i].sid
                      /\ "channels" \notin overtaken'[i] \cup clobbered' =>
                             hosting'[i].read.channels = meant'.channels
                      /\ "order" \notin overtaken'[i] \cup clobbered' =>
                             hosting'[i].read.order.sid = meant'.order
    BY DEF RefreshInv
  <2>1. hosting'[i] = hosting[i] /\ Refreshing(i)
    BY <1>5, RequestEnds DEF HostingInv, Refreshing
  <2>2. overtaken'[i] = overtaken[i] \cup cols
    BY <1>0, <1>5, <2>1, OvertakeType DEF HostingInv
  <2>3. AddsNumber(j) => "channels" \in cols
    BY DEF cols
  <2> QED BY <1>4, <1>5, <2>1, <2>2, <2>3 DEF HostingInv, RefreshInv
<1>9. RefreshKeepsConfig'
  <2>1. "channels" \notin clobbered' => tenantRow'.channels = meant'.channels
    <3>1. CASE AddsNumber(j)
      <4>1. "channels" \in cols
        BY <3>1 DEF cols
      <4>2. "channels" \notin clobbered' => read.channels = meant.channels
        BY <1>0, <1>5, <4>1 DEF HostingInv, RefreshInv
      <4> QED BY <1>3, <1>4, <3>1, <4>2
    <3>2. CASE ~AddsNumber(j)
      BY <1>3, <1>4, <1>5, <3>2 DEF HostingInv, RefreshKeepsConfig
    <3> QED BY <3>1, <3>2
  <2>2. "order" \notin clobbered' => written.sid = meant'.order
    BY <1>0, <1>1, <1>4, <1>5 DEF HostingInv, RefreshInv
  <2> QED BY <1>1, <1>3, <1>4, <2>1, <2>2 DEF RefreshKeepsConfig
<1> QED BY <1>6, <1>7, <1>8, <1>9 DEF HostingInv

LEMMA RequestFailsKeeps ==
    ASSUME HostingInv, NEW j \in HostingRequests, RequestFails(j)
    PROVE  HostingInv'
<1>1. HostingTypeOK'
  BY RequestEnds DEF RequestFails, HostingInv, HostingTypeOK
<1>2. hosting'[j].stage = "done" /\ \A i \in HostingRequests : i # j => hosting'[i] = hosting[i]
  BY RequestEnds DEF RequestFails, HostingInv
<1> QED BY <1>1, <1>2 DEF RequestFails, HostingInv, OrderInv, RefreshInv, RefreshKeepsConfig,
                         Refreshing

(* The inductive invariant of number hosting: orders that are named were opened, *)
(* and a refresh knows what is meant in every column not written since.          *)
THEOREM HostingIsConsistent == HostingSpec => []HostingInv
<1>1. HostingInv /\ [HostingNext]_hostingVars => HostingInv'
  <2> SUFFICES ASSUME HostingInv, [HostingNext]_hostingVars
               PROVE  HostingInv'
    OBVIOUS
  <2>1. CASE UNCHANGED hostingVars
    BY <2>1 DEF hostingVars, HostingInv, HostingTypeOK, OrderInv, RefreshInv,
                RefreshKeepsConfig, Refreshing
  <2>2. ASSUME NEW j \in HostingRequests, HostingStep(j)
        PROVE  HostingInv'
    BY <2>2, OpenOrderKeeps, StoreOrderKeeps, AskTwilioKeeps, TwilioAnswersKeeps,
       StoreAnswerKeeps, RequestFailsKeeps DEF HostingStep
  <2> QED BY <2>1, <2>2, SaveChannelsKeeps, OrderMovesKeeps DEF HostingNext
<1> QED BY <1>1, HostingInitially, PTL DEF HostingSpec

(* RefreshKeepsConfig: a refresh of the number order loses no channel and no      *)
(* order that was stored while it waited for Twilio, but in the columns it is     *)
(* known to overwrite (routes/tenants.ts).                                       *)
THEOREM RefreshLosesNothing == HostingSpec => []RefreshKeepsConfig
BY HostingIsConsistent, PTL DEF HostingInv
===============================================================================
