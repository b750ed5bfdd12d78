-------------------------------- MODULE Logins --------------------------------
(***************************************************************************)
(* Who may sign in with which email address.  Tenants and team members are     *)
(* two tables; each has a unique index of its own, and none spans the two.     *)
(* Signing in and resetting a password look in the tenants' table first, so    *)
(* one address in both would reach somebody else's account.  Settings, a new   *)
(* tenant and an invitation therefore look in both tables before they write.   *)
(***************************************************************************)
EXTENDS Naturals, FiniteSets

CONSTANTS
    Owners,      \* tenants
    Members,     \* team members, by the id an invitation gives them
    Addresses,
    Changes,     \* requests that write an address
    Unset

ASSUME LoginsAssumption ==
    /\ Unset \notin Addresses
    /\ Owners \cap Members = {}

VARIABLES
    address,  \* tenant or member -> its email, if it exists and has one
    employer, \* member -> its tenant, if it exists
    exists,   \* tenants that exist
    change    \* request -> what it writes and how far it is

(* History variables.                                                        *)
VARIABLES
    outdone,  \* request -> addresses written by others since it first looked
    contested \* addresses written by a request that did not see another's write

loginVars == <<address, employer, exists, change, outdone, contested>>

Checking == {"tenants", "team", "writing"}

LoginsTypeOK ==
    /\ address \in [Owners \cup Members -> Addresses \cup {Unset}]
    /\ employer \in [Members -> Owners \cup {Unset}]
    /\ exists \subseteq Owners
    /\ change \in [Changes ->
           [stage : {"new", "done", "refused"} \cup Checking, of : Owners \cup Members,
            by : Owners, email : Addresses \cup {Unset}, creates : BOOLEAN]]
    /\ outdone \in [Changes -> SUBSET Addresses]
    /\ contested \subseteq Addresses

LoginsInit ==
    /\ address = [x \in Owners \cup Members |-> Unset]
    /\ employer = [x \in Members |-> Unset]
    /\ exists \in SUBSET Owners
    /\ change \in [Changes ->
           [stage : {"new"}, of : Owners \cup Members, by : Owners,
            email : Addresses \cup {Unset}, creates : {FALSE}]]
    /\ \A j \in Changes : change[j].of \in Members => change[j].email # Unset
    /\ outdone = [j \in Changes |-> {}]
    /\ contested = {}

Step(j, s) == change' = [change EXCEPT ![j].stage = s]

Exists(x) == IF x \in Owners THEN x \in exists ELSE employer[x] # Unset

(* A random id: no row has it, and no running request knows it.               *)
IsFresh(x) ==
    ~Exists(x) /\ \A i \in Changes : change[i].of = x => change[i].stage \notin Checking

OwnersWith(e) == {t \in exists : address[t] = e}
MembersWith(e) == {x \in Members : employer[x] # Unset /\ address[x] = e}

(* PATCH /tenants/me or /admin/tenants/:id of a tenant that exists, POST        *)
(* /admin/tenants of one that does not, POST /tenants/me/team.  An address      *)
(* that is cleared is not looked up.                                           *)
Begin(j) ==
    LET o == change[j]
    IN /\ o.stage = "new"
       /\ o.of \in Members => o.by \in exists
       /\ IsFresh(o.of) \/ (o.of \in exists)
       /\ change' = [change EXCEPT
              ![j].stage = IF o.email = Unset THEN "writing" ELSE "tenants",
              ![j].creates = ~Exists(o.of)]
       /\ outdone' = [outdone EXCEPT ![j] = {}]
       /\ UNCHANGED <<address, employer, exists, contested>>

(* A tenant may keep its own address. *)
LookInTenants(j) ==
    LET o == change[j]
    IN /\ o.stage = "tenants"
       /\ Step(j, IF OwnersWith(o.email) \subseteq {o.of} THEN "team" ELSE "refused")
       /\ UNCHANGED <<address, employer, exists, outdone, contested>>

(* Faulty variant of LookInTeam: only an invitation looks among the members.    *)
LookInTeamForInvites(j) ==
    LET o == change[j]
    IN /\ o.stage = "team"
       /\ Step(j, IF o.of \in Members /\ MembersWith(o.email) # {} THEN "refused"
                  ELSE "writing")
       /\ UNCHANGED <<address, employer, exists, outdone, contested>>

LookInTeam(j) ==
    LET o == change[j]
    IN /\ o.stage = "team"
       /\ Step(j, IF MembersWith(o.email) = {} THEN "writing" ELSE "refused")
       /\ UNCHANGED <<address, employer, exists, outdone, contested>>

(* The unique index of the table that is written, and the foreign key of a      *)
(* member.  The update of a tenant that was deleted writes nothing.            *)
DatabaseAllows(o) ==
    IF o.of \in Members
    THEN MembersWith(o.email) = {} /\ o.by \in exists
    ELSE /\ o.creates \/ o.of \in exists
         /\ o.email = Unset \/ OwnersWith(o.email) \subseteq {o.of}

WriteLogin(j) ==
    LET o == change[j]
    IN /\ o.stage = "writing"
       /\ IF DatabaseAllows(o)
          THEN /\ Step(j, "done")
               /\ address' = [address EXCEPT ![o.of] = o.email]
               /\ employer' = IF o.of \in Members THEN [employer EXCEPT ![o.of] = o.by]
                              ELSE employer
               /\ exists' = IF o.of \in Owners THEN exists \cup {o.of} ELSE exists
               /\ outdone' = [i \in Changes |-> IF change[i].stage \in Checking
                                               THEN outdone[i] \cup ({o.email} \ {Unset})
                                               ELSE outdone[i]]
               /\ contested' = contested \cup (outdone[j] \cap {o.email})
          ELSE /\ Step(j, "refused")
               /\ UNCHANGED <<address, employer, exists, outdone, contested>>

(* DELETE /tenants/me/team/:id. *)
RemoveMember(x) ==
    /\ employer[x] # Unset
    /\ employer' = [employer EXCEPT ![x] = Unset]
    /\ address' = [address EXCEPT ![x] = Unset]
    /\ UNCHANGED <<exists, change, outdone, contested>>

(* DELETE /admin/tenants/:id takes the team along (ON DELETE CASCADE).          *)
DeleteOwner(t) ==
    /\ t \in exists
    /\ exists' = exists \ {t}
    /\ employer' = [x \in Members |-> IF employer[x] = t THEN Unset ELSE employer[x]]
    /\ address' = [x \in Owners \cup Members |->
           IF x = t \/ (x \in Members /\ employer'[x] = Unset) THEN Unset ELSE address[x]]
    /\ UNCHANGED <<change, outdone, contested>>

LoginsNext ==
    \/ \E j \in Changes :
          Begin(j) \/ LookInTenants(j) \/ LookInTeam(j) \/ WriteLogin(j)
    \/ \E x \in Members : RemoveMember(x)
    \/ \E t \in Owners : DeleteOwner(t)

LoginsSpec == LoginsInit /\ [][LoginsNext]_loginVars

-------------------------------------------------------------------------------
(* Properties. *)

(* An address belongs to one tenant or one member, never to two of either and   *)
(* not to one of each, unless a request wrote it while another was between its   *)
(* first look and its write.                                                   *)
OneAccountPerAddress ==
    \A e \in Addresses \ contested :
        Cardinality(OwnersWith(e)) + Cardinality(MembersWith(e)) <= 1
===============================================================================
