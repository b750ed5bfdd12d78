------------------------------- MODULE MCTenants -------------------------------
(***************************************************************************)
(* One instance of the five modules about a tenant's records: Contacts,       *)
(* Billing, NumberHosting, SignIn and Logins.  They share no column, so a      *)
(* behaviour moves one of them, named by focus, and the others stay at one     *)
(* initial state: the state spaces add up.  A focus may have several casts,    *)
(* which choose the initial states of its component.                          *)
(***************************************************************************)
EXTENDS Contacts, Billing, NumberHosting, SignIn, Logins

VARIABLE focus

tenantsVars ==
    <<bookVars, billingVars, hostingVars, signInVars, loginVars, focus>>

(* Interchangeable requests come in the order of their names.                 *)
InOrder(Ids, isNew(_)) == \A i, j \in Ids : i < j /\ isNew(i) => isNew(j)

-------------------------------------------------------------------------------
(* "intake": jobs race each other and a replying lead; "retention": intake,     *)
(* the purge and everything that changes a row.                               *)

KindRank(k) ==
    CASE k = "crm" -> 0 [] k = "call" -> 1 [] k = "import" -> 2 [] OTHER -> 3

ByPhone(j) == job[j].batch = <<Phones>>

BookCast ==
    /\ BookInit
    /\ \A i, j \in Jobs : i < j => KindRank(job[i].kind) <= KindRank(job[j].kind)
    /\ CASE focus = "intake" ->
              /\ \A j \in Jobs : job[j].kind = "import" => Len(job[j].batch) = MaxLines
              /\ (\A j \in Jobs : job[j].kind = "import") =>
                     \A i, j \in Jobs : job[i].batch[1] = job[j].batch[1]
         [] focus = "retention" ->
              \A j \in Jobs : job[j].kind \in {"crm", "form"} /\ ByPhone(j)
         [] OTHER -> \A j \in Jobs : job[j].kind = "crm" /\ ByPhone(j)

BookMoves ==
    /\ focus \in {"intake", "retention"}
    /\ BookNext
    /\ focus = "intake" =>
           /\ ~\E t \in Sweeps : SweepStep(t)
           /\ \A x \in Rows : ~book'[x].aged /\ book'[x].status # "converted"
           /\ \A j \in Jobs : job'[j].stage = "failed" => job[j].kind = "import"
    /\ focus = "retention" => UNCHANGED bookFaults \/ UNCHANGED job
    /\ UNCHANGED <<billingVars, hostingVars, signInVars, loginVars, focus>>

-------------------------------------------------------------------------------
(* "order": events about one tenant in any order; "bind": events and requests   *)
(* that compete for a subscription.                                           *)

PaddleEvent(s, t, u, o) ==
    [newStatus |-> s, tenantId |-> t, subscription |-> u, occurredAt |-> o]

Nobodys == PaddleEvent("active", None, None, 0)

Customer(s, u) == [Absent EXCEPT !.stored = TRUE, !.status = s, !.subscription = u]

Asked(patches) == request \in [AdminRequests -> [patch : patches, stage : {"new"}]]

OrderCast ==
    /\ event \in [Deliveries -> {PaddleEvent(s, "a", None, o) :
                                     s \in {"active", "suspended"}, o \in 1 .. MaxOccurredAt}]
    /\ \A d, e \in Deliveries : d < e => event[d].occurredAt <= event[e].occurredAt
    /\ account = [t \in Tenants |-> Customer("active", None)]
    /\ Asked({q \in Patches : /\ q.op = "patch" /\ q.id = "a"
                              /\ q.status = "suspended" /\ q.subscription = "keep"})

(* The third event is nobody's. *)
BindCast ==
    /\ event \in [Deliveries ->
           {PaddleEvent("active", t, u, o) :
               t \in Tenants \cup {None}, u \in Subscriptions, o \in 1 .. 2} \cup {Nobodys}]
    /\ \A d \in Deliveries : event[d] = Nobodys <=> d = 3
    /\ account \in [Tenants -> {Absent} \cup
           {Customer("suspended", u) : u \in Subscriptions \cup {None}}]
    /\ event[1].occurredAt <= event[2].occurredAt
    /\ Asked({q \in Patches : q.id = "a" /\ q.status \in {"keep", "active"}})

NoCast ==
    /\ event = [d \in Deliveries |-> Nobodys]
    /\ account = [t \in Tenants |-> Absent]
    /\ Asked({q \in Patches : q.op = "delete" /\ q.id = "a"})

BillingCast ==
    /\ CASE focus = "order" -> OrderCast
         [] focus = "bind" -> BindCast
         [] OTHER -> NoCast
    /\ BillingInit

BillingMoves ==
    /\ focus \in {"order", "bind"}
    /\ BillingNext
    /\ focus = "order" => billingFaults' = 0 \/ \A p \in AdminRequests : request'[p].stage = "new"
    /\ focus = "bind" => /\ handling[3] = "undelivered" => handling'[3] = "accepted"
                         /\ UNCHANGED billingFaults
    /\ UNCHANGED <<bookVars, hostingVars, signInVars, loginVars, focus>>

-------------------------------------------------------------------------------
(* "hosting". *)

HostingMoves ==
    /\ focus = "hosting"
    /\ HostingNext
    /\ LET isNew(j) == hosting'[j].stage = "new" IN InOrder(HostingRequests, isNew)
    /\ "shared" \notin {tenantRow'.channels.sms, tenantRow'.channels.email}
    /\ UNCHANGED <<bookVars, billingVars, signInVars, loginVars, focus>>

-------------------------------------------------------------------------------
(* "codes" and "links" of one account.                                        *)

SignInMoves ==
    /\ focus \in {"codes", "links"}
    /\ SignInNext
    /\ LET isNew(v) == attempt'[v].stage = "new" IN InOrder(Attempts, isNew)
    /\ issued'[IF focus = "codes" THEN "link" ELSE "code"] = 0
    /\ focus = "codes" =>
           /\ Cardinality({v \in Attempts : attempt'[v].stage \in InFlight}) <= 2
           /\ signInFaults' = 0
    /\ UNCHANGED <<bookVars, billingVars, hostingVars, loginVars, focus>>

-------------------------------------------------------------------------------
(* "logins". *)

LoginsCast ==
    /\ LoginsInit
    /\ \A j \in Changes : change[j].of \in Owners => change[j].by = change[j].of
    /\ exists \in {{}, {"a"}, Owners}
    /\ focus = "logins" => change[3].of \in Members
    /\ focus # "logins" =>
           /\ exists = {}
           /\ \A j \in Changes : change[j].email = Unset /\ change[j].of = "a"

LoginsMoves ==
    /\ focus = "logins"
    /\ LoginsNext
    /\ LET isNew(j) == change'[j].stage = "new" IN InOrder(Changes, isNew)
    /\ UNCHANGED <<bookVars, billingVars, hostingVars, signInVars, focus>>

-------------------------------------------------------------------------------

Focuses == {"intake", "retention", "order", "bind", "hosting", "codes", "links", "logins"}

MCTenantsInit ==
    /\ focus \in Focuses
    /\ BookCast /\ BillingCast /\ HostingInit /\ SignInInit /\ LoginsCast

MCTenantsNext ==
    BookMoves \/ BillingMoves \/ HostingMoves \/ SignInMoves \/ LoginsMoves

(* BillingFairness, where billing moves.                                      *)
MCTenantsFairness ==
    \A d \in Deliveries :
        WF_billingVars(focus \in {"order", "bind"} /\ DeliveryStep(d))

MCTenantsSpec ==
    MCTenantsInit /\ [][MCTenantsNext]_tenantsVars /\ MCTenantsFairness
===============================================================================
