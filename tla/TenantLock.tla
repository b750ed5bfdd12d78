------------------------------ MODULE TenantLock ------------------------------
(***************************************************************************)
(* withTenantWorkflowLock: the two layers that keep workflow runs of one     *)
(* tenant apart.                                                            *)
(*                                                                         *)
(* Inside one process a call waits for the promise of the call before it,   *)
(* found in the inProcessQueues map.  When DATABASE_URL is set it then      *)
(* takes a connection of the process's small lock pool and waits on a        *)
(* session-level advisory lock of the tenant; the lock belongs to the        *)
(* session, counts re-entrant acquisitions, and goes away with the session.  *)
(*                                                                         *)
(* The pool (pg.Pool) and the advisory locks (Postgres) are external and     *)
(* are modelled by what the code relies on.                                 *)
(***************************************************************************)
EXTENDS Naturals, FiniteSets

CONSTANTS
    Procs,     \* operating system processes: API servers, the worker
    Tenants,
    Calls,     \* calls of withTenantWorkflowLock, each made once
    Conns,     \* the slots of the lock pools
    ProcOf,    \* call -> the process that makes it
    TenantOf,  \* call -> the tenant it locks
    Earlier,   \* call -> calls named before it: interchangeable calls are made in
               \* the order of their names ({} puts no order on them)
    PoolOf,    \* slot -> the process whose pool it is in; max is the slots per process
    NoCall,
    NoConn,
    MaxFaults  \* bound: failed queries, lost sessions and crashes

ASSUME LockAssumption ==
    /\ ProcOf \in [Calls -> Procs]
    /\ TenantOf \in [Calls -> Tenants]
    /\ Earlier \in [Calls -> SUBSET Calls]
    /\ PoolOf \in [Conns -> Procs]
    /\ NoCall \notin Calls
    /\ NoConn \notin Conns
    /\ MaxFaults \in Nat

VARIABLES
    database,  \* DATABASE_URL is set
    stage,     \* call -> how far it is
    tail,      \* inProcessQueues: process, tenant -> the last call's promise
    previous,  \* call -> the call whose promise it chains on
    uses,      \* call -> the pooled connection it holds
    slot,      \* pool slot -> state of its connection
    held,      \* session -> tenant -> count of its advisory lock
    faults,    \* faults so far
    ahead,     \* history: call -> unsettled calls of its queue when it was made
    orphaned   \* history: calls that lost their session while inside

vars == <<database, stage, tail, previous, uses, slot, held, faults, ahead,
          orphaned>>
poolVars == <<slot, held>>
queueVars == <<tail, previous, ahead>>

Stages ==
    {"new", "queued", "connecting", "locking", "running", "unlocking",
     "settled", "forgotten"}

(* The promise of the call is settled, well or badly. *)
Settled(c) == stage[c] \in {"settled", "forgotten"}

(* runLocked has been called and has not settled. *)
Active(c) == stage[c] \in {"connecting", "locking", "running", "unlocking"}

(* The call's fn is running, or has run and the lock is not given back yet.   *)
Inside(c) == stage[c] \in {"running", "unlocking"}

SameQueue(c, d) == ProcOf[c] = ProcOf[d] /\ TenantOf[c] = TenantOf[d]

TypeOK ==
    /\ database \in BOOLEAN
    /\ stage \in [Calls -> Stages]
    /\ tail \in [Procs -> [Tenants -> Calls \cup {NoCall}]]
    /\ previous \in [Calls -> Calls \cup {NoCall}]
    /\ uses \in [Calls -> Conns \cup {NoConn}]
    /\ slot \in [Conns -> {"closed", "idle", "used", "broken"}]
    /\ held \in [Conns -> [Tenants -> Nat]]
    /\ faults \in 0 .. MaxFaults
    /\ ahead \in [Calls -> SUBSET Calls]
    /\ orphaned \in SUBSET Calls

Init ==
    /\ database \in BOOLEAN
    /\ stage = [c \in Calls |-> "new"]
    /\ tail = [p \in Procs |-> [t \in Tenants |-> NoCall]]
    /\ previous = [c \in Calls |-> NoCall]
    /\ uses = [c \in Calls |-> NoConn]
    /\ slot = [k \in Conns |-> "closed"]
    /\ held = [k \in Conns |-> [t \in Tenants |-> 0]]
    /\ faults = 0
    /\ ahead = [c \in Calls |-> {}]
    /\ orphaned = {}

-------------------------------------------------------------------------------
(* The in-process queue. *)

(* The synchronous part of withTenantWorkflowLock. *)
Request(c) ==
    LET p == ProcOf[c]
        t == TenantOf[c]
    IN  /\ stage[c] = "new"
        /\ \A d \in Earlier[c] : stage[d] # "new"
        /\ stage' = [stage EXCEPT ![c] = "queued"]
        /\ previous' = [previous EXCEPT ![c] = tail[p][t]]
        /\ tail' = [tail EXCEPT ![p][t] = c]
        /\ ahead' = [ahead EXCEPT ![c] =
               {d \in Calls : SameQueue(c, d) /\ stage[d] # "new" /\ ~Settled(d)}]
        /\ UNCHANGED <<database, uses, faults, orphaned>>
        /\ UNCHANGED poolVars

(* Faulty variant of PreviousSettled: nothing chains on the promise before.   *)
NoQueue(c) == TRUE

(* previous.then(runLocked, runLocked): however the call before it settled.   *)
PreviousSettled(c) == previous[c] # NoCall => Settled(previous[c])

StartCall(c) ==
    /\ stage[c] = "queued"
    /\ PreviousSettled(c)
    /\ stage' = [stage EXCEPT ![c] = IF database THEN "connecting" ELSE "running"]
    /\ UNCHANGED <<database, uses, faults, orphaned>>
    /\ UNCHANGED poolVars
    /\ UNCHANGED queueVars

(* Faulty variant of Cleanup: the entry is dropped whoever it belongs to.     *)
CleanupAlways(c) ==
    /\ stage[c] = "settled"
    /\ stage' = [stage EXCEPT ![c] = "forgotten"]
    /\ tail' = [tail EXCEPT ![ProcOf[c]][TenantOf[c]] = NoCall]
    /\ UNCHANGED <<database, previous, uses, faults, ahead, orphaned>>
    /\ UNCHANGED poolVars

(* The callback on the settled promise drops the map's entry if it is still   *)
(* this call's own.                                                          *)
Cleanup(c) ==
    /\ stage[c] = "settled"
    /\ stage' = [stage EXCEPT ![c] = "forgotten"]
    /\ tail' = [tail EXCEPT ![ProcOf[c]][TenantOf[c]] =
                   IF @ = c THEN NoCall ELSE @]
    /\ UNCHANGED <<database, previous, uses, faults, ahead, orphaned>>
    /\ UNCHANGED poolVars

-------------------------------------------------------------------------------
(* withDbLock. *)

Fault ==
    /\ faults < MaxFaults
    /\ faults' = faults + 1

(* pool.connect(): an idle connection if there is one, else a new session in  *)
(* a free slot; without either the call waits.                               *)
Connect(c, k) ==
    /\ stage[c] = "connecting"
    /\ PoolOf[k] = ProcOf[c]
    /\ \/ slot[k] = "idle"
       \/ /\ slot[k] = "closed"
          /\ \A j \in Conns : PoolOf[j] = ProcOf[c] => slot[j] # "idle"
    /\ slot' = [slot EXCEPT ![k] = "used"]
    /\ uses' = [uses EXCEPT ![c] = k]
    /\ stage' = [stage EXCEPT ![c] = "locking"]
    /\ UNCHANGED <<database, held, faults, orphaned>>
    /\ UNCHANGED queueVars

ConnectFails(c) ==
    /\ stage[c] = "connecting"
    /\ Fault
    /\ stage' = [stage EXCEPT ![c] = "settled"]
    /\ UNCHANGED <<database, uses, orphaned>>
    /\ UNCHANGED poolVars
    /\ UNCHANGED queueVars

(* Faulty variant of Granted: tenants of two processes share nothing.         *)
AlwaysGranted(t, k) == TRUE

(* pg_advisory_lock is granted: no other session has the tenant's lock.       *)
Granted(t, k) == \A j \in Conns \ {k} : held[j][t] = 0

(* Faulty variant of Lock: a session that has the lock does not count it.     *)
LockUncounted(c) ==
    LET k == uses[c] IN
    /\ stage[c] = "locking"
    /\ slot[k] = "used"
    /\ Granted(TenantOf[c], k)
    /\ UNCHANGED held
    /\ stage' = [stage EXCEPT ![c] = "running"]
    /\ UNCHANGED <<database, uses, slot, faults, orphaned>>
    /\ UNCHANGED queueVars

Lock(c) ==
    LET k == uses[c] IN
    /\ stage[c] = "locking"
    /\ slot[k] = "used"
    /\ Granted(TenantOf[c], k)
    /\ held' = [held EXCEPT ![k][TenantOf[c]] = @ + 1]
    /\ stage' = [stage EXCEPT ![c] = "running"]
    /\ UNCHANGED <<database, uses, slot, faults, orphaned>>
    /\ UNCHANGED queueVars

(* Faulty variant of Release: a call that ends keeps its connection.          *)
KeepConnection(c) ==
    /\ slot' = slot
    /\ uses' = [uses EXCEPT ![c] = NoConn]
    /\ stage' = [stage EXCEPT ![c] = "settled"]

(* The two finally blocks end in client.release(), which puts a working       *)
(* connection back into the pool and discards a broken one.                  *)
Release(c) ==
    /\ slot' = [slot EXCEPT ![uses[c]] = IF @ = "broken" THEN "closed" ELSE "idle"]
    /\ uses' = [uses EXCEPT ![c] = NoConn]
    /\ stage' = [stage EXCEPT ![c] = "settled"]

(* The lock query rejects: its session is gone, or a timeout cancelled it.    *)
LockFails(c) ==
    /\ stage[c] = "locking"
    /\ IF slot[uses[c]] = "broken" THEN UNCHANGED faults ELSE Fault
    /\ Release(c)
    /\ UNCHANGED <<database, held, orphaned>>
    /\ UNCHANGED queueVars

(* fn() returns or throws. *)
Finish(c) ==
    /\ stage[c] = "running"
    /\ stage' = [stage EXCEPT ![c] = IF database THEN "unlocking" ELSE "settled"]
    /\ UNCHANGED <<database, uses, faults, orphaned>>
    /\ UNCHANGED poolVars
    /\ UNCHANGED queueVars

Unlock(c) ==
    /\ stage[c] = "unlocking"
    /\ slot[uses[c]] = "used"
    /\ held' = [held EXCEPT ![uses[c]][TenantOf[c]] = @ - 1]
    /\ Release(c)
    /\ UNCHANGED <<database, faults, orphaned>>
    /\ UNCHANGED queueVars

(* The unlock query rejects; it is logged and the connection is released all  *)
(* the same.  On a working session the lock stays where it is.               *)
UnlockFails(c) ==
    /\ stage[c] = "unlocking"
    /\ IF slot[uses[c]] = "broken" THEN UNCHANGED faults ELSE Fault
    /\ Release(c)
    /\ UNCHANGED <<database, held, orphaned>>
    /\ UNCHANGED queueVars

-------------------------------------------------------------------------------
(* The environment. *)

NoLocks == [t \in Tenants |-> 0]

(* The pool closes a connection that has been idle for long. *)
EvictIdle(k) ==
    /\ slot[k] = "idle"
    /\ slot' = [slot EXCEPT ![k] = "closed"]
    /\ held' = [held EXCEPT ![k] = NoLocks]
    /\ UNCHANGED <<database, stage, uses, faults, orphaned>>
    /\ UNCHANGED queueVars

(* Postgres ends a session: its locks go, and a call that is using it goes on *)
(* without knowing.                                                          *)
LoseSession(k) ==
    /\ slot[k] \in {"idle", "used"}
    /\ Fault
    /\ slot' = [slot EXCEPT ![k] = IF @ = "idle" THEN "closed" ELSE "broken"]
    /\ held' = [held EXCEPT ![k] = NoLocks]
    /\ orphaned' = orphaned \cup {c \in Calls : uses[c] = k /\ Inside(c)}
    /\ UNCHANGED <<database, stage, uses>>
    /\ UNCHANGED queueVars

(* A process dies, and with it its queues, its pool and its sessions.         *)
Crash(p) ==
    /\ Fault
    /\ stage' = [c \in Calls |->
           IF ProcOf[c] = p /\ stage[c] # "new" THEN "forgotten" ELSE stage[c]]
    /\ tail' = [tail EXCEPT ![p] = [t \in Tenants |-> NoCall]]
    /\ uses' = [c \in Calls |-> IF ProcOf[c] = p THEN NoConn ELSE uses[c]]
    /\ slot' = [k \in Conns |-> IF PoolOf[k] = p THEN "closed" ELSE slot[k]]
    /\ held' = [k \in Conns |-> IF PoolOf[k] = p THEN NoLocks ELSE held[k]]
    /\ UNCHANGED <<database, previous, ahead, orphaned>>

CallStep(c) ==
    \/ StartCall(c)
    \/ \E k \in Conns : Connect(c, k)
    \/ Lock(c)
    \/ LockFails(c)
    \/ Finish(c)
    \/ Unlock(c)
    \/ UnlockFails(c)
    \/ Cleanup(c)

Next ==
    \/ \E c \in Calls : Request(c) \/ CallStep(c) \/ ConnectFails(c)
    \/ \E k \in Conns : EvictIdle(k) \/ LoseSession(k)
    \/ \E p \in Procs : Crash(p)

Spec == Init /\ [][Next]_vars

SessionLost(c) == uses[c] # NoConn /\ slot[uses[c]] = "broken"

(* Promises that settle run their callbacks, queries are answered, fn()       *)
(* returns or throws, idle connections are closed in the end.  Each call is   *)
(* made once, so one that waits for a connection or for the lock cannot be    *)
(* overtaken for ever: weak fairness is enough.                               *)
Fairness ==
    /\ \A c \in Calls :
           /\ WF_vars(StartCall(c))
           /\ WF_vars(\E k \in Conns : Connect(c, k))
           /\ WF_vars(Lock(c))
           /\ WF_vars(SessionLost(c) /\ LockFails(c))
           /\ WF_vars(Finish(c))
           /\ WF_vars(Unlock(c) \/ (SessionLost(c) /\ UnlockFails(c)))
    /\ \A k \in Conns : WF_vars(EvictIdle(k))

FairSpec == Spec /\ Fairness

-------------------------------------------------------------------------------
(* Properties. *)

(* Two calls of one tenant are inside together only in different processes,   *)
(* and with a database only after one of them lost its session: the lock is   *)
(* not renewed or checked while fn() runs.                                   *)
MutualExclusion ==
    \A c, d \in Calls :
        /\ c # d
        /\ TenantOf[c] = TenantOf[d]
        /\ Inside(c) /\ Inside(d)
        => /\ ProcOf[c] # ProcOf[d]
           /\ database => c \in orphaned \/ d \in orphaned

(* Within a process, calls of a tenant start in the order they were made, and *)
(* none before those ahead of it have settled, whatever became of them.       *)
QueueOrder ==
    \A c \in Calls : Active(c) => \A d \in ahead[c] : Settled(d)

(* A connection is out of the pool exactly while one call uses it: no path    *)
(* through the two finally blocks leaks one or returns it twice.             *)
PoolConserved ==
    /\ \A k \in Conns :
           slot[k] \in {"used", "broken"} <=> \E c \in Calls : uses[c] = k
    /\ \A c, d \in Calls : c # d /\ uses[c] = uses[d] => uses[c] = NoConn

(* Every call settles: a failed, crashed or slow call never blocks the ones   *)
(* behind it for ever, nor do two pools wait on each other's locks.           *)
EveryCallSettles == \A c \in Calls : stage[c] = "queued" ~> Settled(c)

(* "The lock still releases on its own once client.release() returns this     *)
(* connection" (workflowLock.ts): an idle session holds no lock.             *)
IdleSessionsHoldNoLock ==
    \A k \in Conns : slot[k] = "idle" => held[k] = NoLocks

-------------------------------------------------------------------------------
(* The abstract lock. *)

(* The call is inside and its session is alive. *)
Live(c) == database /\ Inside(c) /\ c \notin orphaned

LiveHolder(t) ==
    IF \E c \in Calls : Live(c) /\ TenantOf[c] = t
    THEN CHOOSE c \in Calls : Live(c) /\ TenantOf[c] = t
    ELSE NoCall

Mutex == INSTANCE RunMutex WITH holder <- [t \in Tenants |-> LiveHolder(t)]

(* TenantLock implements RunMutex, where losing the session is leaving it.    *)
ImplementsRunMutex == Mutex!Spec

-------------------------------------------------------------------------------
(* The inductive invariant. *)

UseInv ==
    /\ ~database =>
           \A c \in Calls : stage[c] \notin {"connecting", "locking", "unlocking"}
    /\ \A c \in Calls :
           uses[c] # NoConn <=>
               database /\ stage[c] \in {"locking", "running", "unlocking"}
    /\ \A c \in Calls :
           uses[c] # NoConn => /\ PoolOf[uses[c]] = ProcOf[c]
                               /\ slot[uses[c]] \in {"used", "broken"}

HoldInv ==
    /\ \A t \in Tenants : \A j, k \in Conns :
           j # k => held[j][t] = 0 \/ held[k][t] = 0
    /\ \A c \in Calls :
           database /\ Inside(c) =>
               IF c \in orphaned
               THEN slot[uses[c]] = "broken"
               ELSE slot[uses[c]] = "used" /\ held[uses[c]][TenantOf[c]] > 0
    /\ \A c \in orphaned : Inside(c) \/ Settled(c)

Pending(c) == stage[c] # "new" /\ ~Settled(c)

AheadInv ==
    /\ \A c \in Calls : \A d \in ahead[c] :
           c # d /\ SameQueue(c, d) /\ stage[c] # "new" /\ stage[d] # "new"
    /\ \A c, d \in Calls :
           c # d /\ SameQueue(c, d) /\ Pending(c) /\ Pending(d)
               => c \in ahead[d] \/ d \in ahead[c]
    /\ \A c \in Calls :
           Active(c) \/ Settled(c) => \A d \in ahead[c] : Settled(d)

ChainInv ==
    /\ \A c \in Calls :
           LET d == previous[c] IN
           stage[c] = "queued" =>
               /\ d # NoCall => SameQueue(c, d) /\ stage[d] # "new"
               /\ \A e \in ahead[c] :
                      Settled(e) \/ (d # NoCall /\ (e = d \/ e \in ahead[d]))
    /\ \A c \in Calls :
           LET d == tail[ProcOf[c]][TenantOf[c]] IN
           /\ d # NoCall => SameQueue(c, d) /\ stage[d] # "new"
           /\ Pending(c) => d # NoCall /\ (c = d \/ c \in ahead[d])

LockInvariant ==
    /\ UseInv
    /\ PoolConserved
    /\ HoldInv
    /\ AheadInv
    /\ ChainInv

===============================================================================
