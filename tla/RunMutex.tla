------------------------------- MODULE RunMutex -------------------------------
(***************************************************************************)
(* What withTenantWorkflowLock promises: at any time at most one call per   *)
(* tenant is inside.  TenantLock implements it; Outreach relies on it.      *)
(***************************************************************************)
CONSTANTS Tenants, Calls, TenantOf, NoCall

VARIABLE holder  \* tenant -> the call inside its lock, or NoCall

Init == holder = [t \in Tenants |-> NoCall]

Enter(c) ==
    /\ holder[TenantOf[c]] = NoCall
    /\ holder' = [holder EXCEPT ![TenantOf[c]] = c]

(* Calls leave one by one, or several together when their process dies.      *)
Leave ==
    /\ holder' \in [Tenants -> Calls \cup {NoCall}]
    /\ \A t \in Tenants : holder'[t] # NoCall => holder'[t] = holder[t]

Next == (\E c \in Calls : Enter(c)) \/ Leave

Spec == Init /\ [][Next]_holder

===============================================================================
