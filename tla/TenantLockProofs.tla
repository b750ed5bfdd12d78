--------------------------- MODULE TenantLockProofs ---------------------------
(***************************************************************************)
(* Proofs about TenantLock, for every number of processes, calls, pool       *)
(* slots and faults.                                                        *)
(*                                                                         *)
(* The inductive invariant is TypeOK /\ LockInvariant.  It falls into two     *)
(* halves that hardly touch: the in-process queues (AheadInv, ChainInv) and   *)
(* the sessions (UseInv, PoolConserved, HoldInv).  Exclusion within a process *)
(* comes from the first half, exclusion across processes from the second.     *)
(***************************************************************************)
EXTENDS TenantLock, TLAPS

QueueInv == AheadInv /\ ChainInv

SessionInv == UseInv /\ PoolConserved /\ HoldInv

-------------------------------------------------------------------------------
(* The in-process queues. *)

LEMMA TailType ==
    ASSUME TypeOK, NEW c \in Calls
    PROVE  tail[ProcOf[c]][TenantOf[c]] \in Calls \cup {NoCall}
<1>1. tail \in [Procs -> [Tenants -> Calls \cup {NoCall}]]
    BY DEF TypeOK
<1>2. ProcOf[c] \in Procs /\ TenantOf[c] \in Tenants
    BY LockAssumption DEF LockAssumption
<1>. QED  BY <1>1, <1>2

(* A call that moves on keeps the queues in order, provided it leaves its     *)
(* place only when the call it chains on has settled.                        *)
LEMMA QueueProgress ==
    ASSUME TypeOK, QueueInv,
           NEW c \in Calls,
           NEW s \in Stages \ {"new", "queued"},
           Pending(c),
           stage[c] = "queued" => PreviousSettled(c),
           stage' = [stage EXCEPT ![c] = s],
           UNCHANGED queueVars
    PROVE  QueueInv'
<1> USE LockAssumption DEF LockAssumption, queueVars
<1>1. stage \in [Calls -> Stages]
    BY DEF TypeOK
<1>2. /\ stage'[c] = s
      /\ \A d \in Calls : d # c => stage'[d] = stage[d]
    BY <1>1
<1>3. /\ \A d \in Calls : Settled(d) => Settled(d)'
      /\ \A d \in Calls : stage[d] # "new" <=> stage'[d] # "new"
      /\ \A d \in Calls : Pending(d)' => Pending(d)
    BY <1>2 DEF Settled, Pending
<1>4. ahead \in [Calls -> SUBSET Calls] /\ previous \in [Calls -> Calls \cup {NoCall}]
    BY DEF TypeOK
<1>5. \A d \in ahead[c] : Settled(d)
    <2>1. CASE stage[c] = "queued"
        <3>1. \A e \in ahead[c] :
                  Settled(e) \/ /\ previous[c] # NoCall
                                /\ e = previous[c] \/ e \in ahead[previous[c]]
            BY <2>1 DEF QueueInv, ChainInv
        <3>2. previous[c] # NoCall => \A e \in ahead[previous[c]] : Settled(e)
            BY <2>1, <1>4 DEF PreviousSettled, QueueInv, AheadInv
        <3>. QED  BY <3>1, <3>2, <2>1 DEF PreviousSettled
    <2>2. CASE stage[c] # "queued"
        <3>1. Active(c)
            BY <2>2, <1>1 DEF Pending, Active, Settled, Stages
        <3>. QED  BY <3>1 DEF QueueInv, AheadInv
    <2>. QED  BY <2>1, <2>2
<1>6. AheadInv'
    <2>1. ASSUME NEW d \in Calls, NEW e \in ahead[d]
          PROVE  (d # e /\ SameQueue(d, e) /\ stage[d] # "new" /\ stage[e] # "new")'
        BY <1>3, <1>4 DEF QueueInv, AheadInv, SameQueue
    <2>2. ASSUME NEW d \in Calls, NEW e \in Calls, d # e, SameQueue(d, e),
                 Pending(d)', Pending(e)'
          PROVE  d \in ahead[e] \/ e \in ahead[d]
        BY <2>2, <1>3 DEF QueueInv, AheadInv
    <2>3. ASSUME NEW d \in Calls, (Active(d) \/ Settled(d))', NEW e \in ahead[d]
          PROVE  Settled(e)'
        <3>1. d = c \/ Active(d) \/ Settled(d)
            BY <2>3, <1>2 DEF Active, Settled
        <3>2. Settled(e)
            BY <3>1, <1>5 DEF QueueInv, AheadInv
        <3>. QED  BY <3>2, <1>3, <1>4
    <2>. QED  BY <2>1, <2>2, <2>3 DEF AheadInv, SameQueue
<1>7. ChainInv'
    <2>1. ASSUME NEW d \in Calls, stage'[d] = "queued"
          PROVE  stage[d] = "queued"
        BY <2>1, <1>2
    <2>2. ASSUME NEW d \in Calls, stage'[d] = "queued", previous[d] # NoCall
          PROVE  SameQueue(d, previous[d]) /\ stage'[previous[d]] # "new"
        BY <2>1, <2>2, <1>3, <1>4 DEF QueueInv, ChainInv
    <2>3. ASSUME NEW d \in Calls, stage'[d] = "queued", NEW e \in ahead[d]
          PROVE  Settled(e)' \/ /\ previous[d] # NoCall
                                /\ e = previous[d] \/ e \in ahead[previous[d]]
        BY <2>1, <2>3, <1>3, <1>4 DEF QueueInv, ChainInv
    <2>4. ASSUME NEW d \in Calls, tail[ProcOf[d]][TenantOf[d]] # NoCall
          PROVE  /\ SameQueue(d, tail[ProcOf[d]][TenantOf[d]])
                 /\ stage'[tail[ProcOf[d]][TenantOf[d]]] # "new"
        <3>1. tail[ProcOf[d]][TenantOf[d]] \in Calls
            BY <2>4, TailType
        <3>. QED  BY <3>1, <2>4, <1>3 DEF QueueInv, ChainInv
    <2>5. ASSUME NEW d \in Calls, Pending(d)'
          PROVE  /\ tail[ProcOf[d]][TenantOf[d]] # NoCall
                 /\ \/ d = tail[ProcOf[d]][TenantOf[d]]
                    \/ d \in ahead[tail[ProcOf[d]][TenantOf[d]]]
        BY <2>5, <1>3 DEF QueueInv, ChainInv
    <2>. QED  BY <2>2, <2>3, <2>4, <2>5 DEF ChainInv, SameQueue
<1>. QED  BY <1>6, <1>7 DEF QueueInv

(* A step that touches neither the stages nor the map leaves the queues alone. *)
LEMMA QueueUntouched ==
    ASSUME QueueInv, UNCHANGED <<stage, tail, previous, ahead>>
    PROVE  QueueInv'
BY DEF QueueInv, AheadInv, ChainInv, Pending, Active, Settled, SameQueue

(* Request appends the call to its queue: everything unsettled is ahead of it. *)
LEMMA QueueRequest ==
    ASSUME TypeOK, QueueInv, NEW c \in Calls, Request(c)
    PROVE  QueueInv'
<1> DEFINE p == ProcOf[c]
           t == TenantOf[c]
           waiting == {d \in Calls :
                          SameQueue(c, d) /\ stage[d] # "new" /\ ~Settled(d)}
<1>0. p \in Procs /\ t \in Tenants
    BY LockAssumption DEF LockAssumption
<1>1. /\ stage[c] = "new"
      /\ stage' = [stage EXCEPT ![c] = "queued"]
      /\ previous' = [previous EXCEPT ![c] = tail[p][t]]
      /\ tail' = [tail EXCEPT ![p][t] = c]
      /\ ahead' = [ahead EXCEPT ![c] = waiting]
    BY DEF Request
<1> HIDE DEF waiting
<1>2. /\ stage'[c] = "queued"
      /\ \A d \in Calls : d # c => stage'[d] = stage[d]
    <2>. stage \in [Calls -> Stages]
        BY DEF TypeOK
    <2>. QED  BY <1>1
<1>3. /\ ahead'[c] = waiting
      /\ \A d \in Calls : d # c => ahead'[d] = ahead[d]
      /\ ahead \in [Calls -> SUBSET Calls]
    <2>. ahead \in [Calls -> SUBSET Calls]
        BY DEF TypeOK
    <2>. QED  BY <1>1
<1>4. /\ previous'[c] = tail[p][t]
      /\ \A d \in Calls : d # c => previous'[d] = previous[d]
      /\ previous \in [Calls -> Calls \cup {NoCall}]
    <2>. previous \in [Calls -> Calls \cup {NoCall}]
        BY DEF TypeOK
    <2>. QED  BY <1>1
<1>5. \A d \in Calls :
          tail'[ProcOf[d]][TenantOf[d]] =
              IF SameQueue(c, d) THEN c ELSE tail[ProcOf[d]][TenantOf[d]]
    <2>1. tail \in [Procs -> [Tenants -> Calls \cup {NoCall}]]
        BY DEF TypeOK
    <2>2. \A d \in Calls : ProcOf[d] \in Procs /\ TenantOf[d] \in Tenants
        BY LockAssumption DEF LockAssumption
    <2>. QED  BY <1>1, <2>1, <2>2 DEF SameQueue
<1>6. /\ \A d \in Calls : Settled(d)' <=> Settled(d)
      /\ \A d \in Calls : stage[d] # "new" => d # c /\ stage'[d] # "new"
      /\ \A d \in Calls : d # c => (Pending(d)' <=> Pending(d))
      /\ \A d \in Calls : d # c => (Active(d)' <=> Active(d))
      /\ ~Active(c)' /\ ~Settled(c)
    BY <1>1, <1>2 DEF Settled, Pending, Active
<1>7. \A d \in Calls : d \in waiting <=> SameQueue(c, d) /\ Pending(d)
    BY DEF waiting, Pending
<1>8. waiting \subseteq Calls
    BY DEF waiting
<1>9. AheadInv'
    <2>1. ASSUME NEW d \in Calls, NEW e \in ahead'[d]
          PROVE  d # e /\ SameQueue(d, e) /\ stage'[d] # "new" /\ stage'[e] # "new"
        <3>1. CASE d = c
            <4>1. e \in Calls /\ SameQueue(c, e) /\ stage[e] # "new"
                BY <3>1, <2>1, <1>3, <1>7, <1>8 DEF Pending
            <4>. QED  BY <4>1, <3>1, <1>2, <1>6
        <3>2. CASE d # c
            BY <3>2, <2>1, <1>3, <1>6 DEF QueueInv, AheadInv
        <3>. QED  BY <3>1, <3>2
    <2>2. ASSUME NEW d \in Calls, NEW e \in Calls, d # e, SameQueue(d, e),
                 Pending(d)', Pending(e)'
          PROVE  d \in ahead'[e] \/ e \in ahead'[d]
        <3>1. CASE d # c /\ e # c
            BY <3>1, <2>2, <1>3, <1>6 DEF QueueInv, AheadInv
        <3>2. CASE d = c
            BY <3>2, <2>2, <1>3, <1>6, <1>7
        <3>3. CASE e = c
            BY <3>3, <2>2, <1>3, <1>6, <1>7 DEF SameQueue
        <3>. QED  BY <3>1, <3>2, <3>3
    <2>3. ASSUME NEW d \in Calls, (Active(d) \/ Settled(d))', NEW e \in ahead'[d]
          PROVE  Settled(e)'
        <3>1. d # c /\ (Active(d) \/ Settled(d))
            BY <2>3, <1>6
        <3>. QED  BY <3>1, <2>3, <1>3, <1>6 DEF QueueInv, AheadInv
    <2>. QED  BY <2>1, <2>2, <2>3 DEF AheadInv, SameQueue
<1>10. ChainInv'
    <2>1. tail[p][t] # NoCall =>
              /\ tail[p][t] \in Calls
              /\ SameQueue(c, tail[p][t])
              /\ stage[tail[p][t]] # "new"
        BY TailType DEF QueueInv, ChainInv
    <2>2. \A e \in waiting :
              /\ tail[p][t] # NoCall
              /\ e = tail[p][t] \/ e \in ahead[tail[p][t]]
        <3>1. \A e \in waiting : e \in Calls /\ ProcOf[e] = p /\ TenantOf[e] = t /\ Pending(e)
            BY <1>7, <1>8 DEF SameQueue
        <3>. QED  BY <3>1 DEF QueueInv, ChainInv
    <2>3. ASSUME NEW d \in Calls, stage'[d] = "queued", previous'[d] # NoCall
          PROVE  SameQueue(d, previous'[d]) /\ stage'[previous'[d]] # "new"
        <3>1. CASE d = c
            BY <3>1, <2>3, <2>1, <1>4, <1>6
        <3>2. CASE d # c
            BY <3>2, <2>3, <1>2, <1>4, <1>6 DEF QueueInv, ChainInv
        <3>. QED  BY <3>1, <3>2
    <2>4. ASSUME NEW d \in Calls, stage'[d] = "queued", NEW e \in ahead'[d]
          PROVE  Settled(e)' \/ /\ previous'[d] # NoCall
                                /\ e = previous'[d] \/ e \in ahead'[previous'[d]]
        <3>1. CASE d = c
            BY <3>1, <2>4, <2>1, <2>2, <1>3, <1>4, <1>6
        <3>2. CASE d # c
            <4>1. e \in Calls /\ stage[d] = "queued" /\ e \in ahead[d]
                BY <3>2, <2>4, <1>2, <1>3
            <4>2. previous[d] # NoCall => previous[d] \in Calls /\ previous[d] # c
                BY <4>1, <1>1, <1>4 DEF QueueInv, ChainInv
            <4>. QED  BY <3>2, <4>1, <4>2, <1>3, <1>4, <1>6 DEF QueueInv, ChainInv
        <3>. QED  BY <3>1, <3>2
    <2>5. ASSUME NEW d \in Calls, tail'[ProcOf[d]][TenantOf[d]] # NoCall
          PROVE  /\ SameQueue(d, tail'[ProcOf[d]][TenantOf[d]])
                 /\ stage'[tail'[ProcOf[d]][TenantOf[d]]] # "new"
        <3>1. CASE SameQueue(c, d)
            BY <3>1, <1>2, <1>5 DEF SameQueue
        <3>2. CASE ~SameQueue(c, d)
            BY <3>2, <2>5, <1>5, <1>6, TailType DEF QueueInv, ChainInv
        <3>. QED  BY <3>1, <3>2
    <2>6. ASSUME NEW d \in Calls, Pending(d)'
          PROVE  /\ tail'[ProcOf[d]][TenantOf[d]] # NoCall
                 /\ \/ d = tail'[ProcOf[d]][TenantOf[d]]
                    \/ d \in ahead'[tail'[ProcOf[d]][TenantOf[d]]]
        <3>0. c # NoCall
            BY LockAssumption DEF LockAssumption
        <3>1. CASE SameQueue(c, d)
            BY <3>0, <3>1, <2>6, <1>3, <1>5, <1>6, <1>7
        <3>2. CASE ~SameQueue(c, d)
            <4>1. d # c /\ Pending(d)
                BY <3>2, <2>6, <1>6 DEF SameQueue
            <4>2. /\ tail[ProcOf[d]][TenantOf[d]] # NoCall
                  /\ \/ d = tail[ProcOf[d]][TenantOf[d]]
                     \/ d \in ahead[tail[ProcOf[d]][TenantOf[d]]]
                BY <4>1 DEF QueueInv, ChainInv
            <4>3. tail[ProcOf[d]][TenantOf[d]] # c
                BY <4>2, <1>1 DEF QueueInv, ChainInv
            <4>. QED  BY <4>2, <4>3, <3>2, <1>3, <1>5, TailType
        <3>. QED  BY <3>1, <3>2
    <2>. QED  BY <2>3, <2>4, <2>5, <2>6 DEF ChainInv, SameQueue
<1>. QED  BY <1>9, <1>10 DEF QueueInv

(* Cleanup forgets the map's entry only when nothing is left to wait for.     *)
LEMMA QueueCleanup ==
    ASSUME TypeOK, QueueInv, NEW c \in Calls, Cleanup(c)
    PROVE  QueueInv'
<1>1. /\ stage[c] = "settled"
      /\ stage' = [stage EXCEPT ![c] = "forgotten"]
      /\ UNCHANGED <<previous, ahead>>
    BY DEF Cleanup
<1>2. /\ stage'[c] = "forgotten"
      /\ \A d \in Calls : d # c => stage'[d] = stage[d]
    <2>. stage \in [Calls -> Stages]
        BY DEF TypeOK
    <2>. QED  BY <1>1
<1>3. /\ \A d \in Calls : Settled(d)' <=> Settled(d)
      /\ \A d \in Calls : stage'[d] # "new" <=> stage[d] # "new"
      /\ \A d \in Calls : Pending(d)' <=> Pending(d)
      /\ \A d \in Calls : Active(d)' <=> Active(d)
      /\ \A d \in Calls : stage'[d] = "queued" <=> stage[d] = "queued"
    BY <1>1, <1>2 DEF Settled, Pending, Active
<1>4. \A d \in Calls :
          tail'[ProcOf[d]][TenantOf[d]] =
              IF SameQueue(c, d) /\ tail[ProcOf[d]][TenantOf[d]] = c
              THEN NoCall
              ELSE tail[ProcOf[d]][TenantOf[d]]
    <2>1. tail \in [Procs -> [Tenants -> Calls \cup {NoCall}]]
        BY DEF TypeOK
    <2>2. \A d \in Calls : ProcOf[d] \in Procs /\ TenantOf[d] \in Tenants
        BY LockAssumption DEF LockAssumption
    <2>. QED  BY <2>1, <2>2 DEF Cleanup, SameQueue
<1>5. ahead \in [Calls -> SUBSET Calls] /\ previous \in [Calls -> Calls \cup {NoCall}]
    BY DEF TypeOK
<1>6. AheadInv'
    BY <1>1, <1>3, <1>5 DEF QueueInv, AheadInv, SameQueue
<1>7. ChainInv'
    <2>1. ASSUME NEW d \in Calls, stage'[d] = "queued", previous[d] # NoCall
          PROVE  SameQueue(d, previous[d]) /\ stage'[previous[d]] # "new"
        BY <2>1, <1>3, <1>5 DEF QueueInv, ChainInv
    <2>2. ASSUME NEW d \in Calls, stage'[d] = "queued", NEW e \in ahead[d]
          PROVE  Settled(e)' \/ /\ previous[d] # NoCall
                                /\ e = previous[d] \/ e \in ahead[previous[d]]
        BY <2>2, <1>3, <1>5 DEF QueueInv, ChainInv
    <2>3. ASSUME NEW d \in Calls, tail'[ProcOf[d]][TenantOf[d]] # NoCall
          PROVE  /\ SameQueue(d, tail'[ProcOf[d]][TenantOf[d]])
                 /\ stage'[tail'[ProcOf[d]][TenantOf[d]]] # "new"
        BY <2>3, <1>3, <1>4, TailType DEF QueueInv, ChainInv
    <2>4. ASSUME NEW d \in Calls, Pending(d)'
          PROVE  /\ tail'[ProcOf[d]][TenantOf[d]] # NoCall
                 /\ \/ d = tail'[ProcOf[d]][TenantOf[d]]
                    \/ d \in ahead[tail'[ProcOf[d]][TenantOf[d]]]
        <3>1. /\ Pending(d)
              /\ tail[ProcOf[d]][TenantOf[d]] # NoCall
              /\ \/ d = tail[ProcOf[d]][TenantOf[d]]
                 \/ d \in ahead[tail[ProcOf[d]][TenantOf[d]]]
            BY <2>4, <1>3 DEF QueueInv, ChainInv
        <3>2. tail[ProcOf[d]][TenantOf[d]] # c
            BY <3>1, <1>1 DEF QueueInv, AheadInv, Pending, Settled
        <3>. QED  BY <3>1, <3>2, <1>4
    <2>. QED  BY <1>1, <2>1, <2>2, <2>3, <2>4 DEF ChainInv, SameQueue
<1>. QED  BY <1>6, <1>7 DEF QueueInv

(* A crash empties every queue of its process. *)
LEMMA QueueCrash ==
    ASSUME TypeOK, QueueInv, NEW p \in Procs, Crash(p)
    PROVE  QueueInv'
<1>1. \A d \in Calls :
          stage'[d] = IF ProcOf[d] = p /\ stage[d] # "new"
                      THEN "forgotten" ELSE stage[d]
    BY DEF Crash
<1>2. UNCHANGED <<previous, ahead>>
    BY DEF Crash
<1>3. /\ \A d \in Calls : Settled(d) => Settled(d)'
      /\ \A d \in Calls : ProcOf[d] = p /\ stage[d] # "new" => Settled(d)'
      /\ \A d \in Calls : Settled(d)' => Settled(d) \/ ProcOf[d] = p
      /\ \A d \in Calls : stage'[d] # "new" <=> stage[d] # "new"
      /\ \A d \in Calls : Pending(d)' => Pending(d) /\ ProcOf[d] # p
      /\ \A d \in Calls : Active(d)' => Active(d)
      /\ \A d \in Calls : stage'[d] = "queued" => stage[d] = "queued" /\ ProcOf[d] # p
    BY <1>1 DEF Settled, Pending, Active
<1>4. \A d \in Calls :
          tail'[ProcOf[d]][TenantOf[d]] =
              IF ProcOf[d] = p THEN NoCall ELSE tail[ProcOf[d]][TenantOf[d]]
    <2>1. tail \in [Procs -> [Tenants -> Calls \cup {NoCall}]]
        BY DEF TypeOK
    <2>2. \A d \in Calls : ProcOf[d] \in Procs /\ TenantOf[d] \in Tenants
        BY LockAssumption DEF LockAssumption
    <2>. QED  BY <2>1, <2>2 DEF Crash
<1>5. ahead \in [Calls -> SUBSET Calls] /\ previous \in [Calls -> Calls \cup {NoCall}]
    BY DEF TypeOK
<1>6. AheadInv'
    <2>1. ASSUME NEW d \in Calls, NEW e \in ahead[d]
          PROVE  d # e /\ SameQueue(d, e) /\ stage'[d] # "new" /\ stage'[e] # "new"
        BY <1>3, <1>5 DEF QueueInv, AheadInv
    <2>2. ASSUME NEW d \in Calls, NEW e \in Calls, d # e, SameQueue(d, e),
                 Pending(d)', Pending(e)'
          PROVE  d \in ahead[e] \/ e \in ahead[d]
        BY <2>2, <1>3 DEF QueueInv, AheadInv
    <2>3. ASSUME NEW d \in Calls, (Active(d) \/ Settled(d))', NEW e \in ahead[d]
          PROVE  Settled(e)'
        <3>1. e \in Calls /\ SameQueue(d, e) /\ stage[e] # "new"
            BY <1>5 DEF QueueInv, AheadInv
        <3>2. CASE Active(d) \/ Settled(d)
            BY <3>1, <3>2, <1>3 DEF QueueInv, AheadInv
        <3>3. CASE ProcOf[d] = p
            BY <3>1, <3>3, <1>3 DEF SameQueue
        <3>. QED  BY <2>3, <3>2, <3>3, <1>3
    <2>. QED  BY <1>2, <2>1, <2>2, <2>3 DEF AheadInv, SameQueue
<1>7. ChainInv'
    <2>1. ASSUME NEW d \in Calls, stage'[d] = "queued", previous[d] # NoCall
          PROVE  SameQueue(d, previous[d]) /\ stage'[previous[d]] # "new"
        BY <2>1, <1>3, <1>5 DEF QueueInv, ChainInv
    <2>2. ASSUME NEW d \in Calls, stage'[d] = "queued", NEW e \in ahead[d]
          PROVE  Settled(e)' \/ /\ previous[d] # NoCall
                                /\ e = previous[d] \/ e \in ahead[previous[d]]
        BY <2>2, <1>3, <1>5 DEF QueueInv, ChainInv
    <2>3. ASSUME NEW d \in Calls, tail'[ProcOf[d]][TenantOf[d]] # NoCall
          PROVE  /\ SameQueue(d, tail'[ProcOf[d]][TenantOf[d]])
                 /\ stage'[tail'[ProcOf[d]][TenantOf[d]]] # "new"
        BY <2>3, <1>3, <1>4, TailType DEF QueueInv, ChainInv
    <2>4. ASSUME NEW d \in Calls, Pending(d)'
          PROVE  /\ tail'[ProcOf[d]][TenantOf[d]] # NoCall
                 /\ \/ d = tail'[ProcOf[d]][TenantOf[d]]
                    \/ d \in ahead[tail'[ProcOf[d]][TenantOf[d]]]
        BY <2>4, <1>3, <1>4 DEF QueueInv, ChainInv
    <2>. QED  BY <1>2, <2>1, <2>2, <2>3, <2>4 DEF ChainInv, SameQueue
<1>. QED  BY <1>6, <1>7 DEF QueueInv

LEMMA QueueStep ==
    ASSUME TypeOK, QueueInv, [Next]_vars
    PROVE  QueueInv'
<1>1. ASSUME NEW c \in Calls, Request(c)
      PROVE  QueueInv'
    BY <1>1, QueueRequest
<1>2. ASSUME NEW c \in Calls,
             \/ StartCall(c) \/ \E k \in Conns : Connect(c, k)
             \/ ConnectFails(c) \/ Lock(c) \/ LockFails(c)
             \/ Finish(c) \/ Unlock(c) \/ UnlockFails(c)
      PROVE  QueueInv'
    <2>1. PICK s \in Stages \ {"new", "queued"} :
              stage' = [stage EXCEPT ![c] = s]
        BY <1>2 DEF StartCall, Connect, ConnectFails, Lock, LockFails, Finish,
                    Unlock, UnlockFails, Release, Stages
    <2>2. UNCHANGED queueVars
        BY <1>2 DEF StartCall, Connect, ConnectFails, Lock, LockFails, Finish,
                    Unlock, UnlockFails
    <2>3. Pending(c) /\ (stage[c] = "queued" => PreviousSettled(c))
        BY <1>2 DEF StartCall, Connect, ConnectFails, Lock, LockFails, Finish,
                    Unlock, UnlockFails, Pending, Settled
    <2>. QED  BY <2>1, <2>2, <2>3, QueueProgress
<1>3. ASSUME NEW c \in Calls, Cleanup(c)
      PROVE  QueueInv'
    BY <1>3, QueueCleanup
<1>4. ASSUME NEW k \in Conns, EvictIdle(k) \/ LoseSession(k)
      PROVE  QueueInv'
    BY <1>4, QueueUntouched DEF EvictIdle, LoseSession, queueVars
<1>5. ASSUME NEW p \in Procs, Crash(p)
      PROVE  QueueInv'
    BY <1>5, QueueCrash
<1>6. CASE UNCHANGED vars
    BY <1>6, QueueUntouched DEF vars
<1>. QED  BY <1>1, <1>2, <1>3, <1>4, <1>5, <1>6 DEF Next, CallStep

-------------------------------------------------------------------------------
(* The sessions. *)

LEMMA TypeStep ==
    ASSUME TypeOK, LockInvariant, [Next]_vars
    PROVE  TypeOK'
<1> USE LockAssumption DEF LockAssumption
<1>1. /\ NoLocks \in [Tenants -> Nat]
      /\ \A c \in Calls : TenantOf[c] \in Tenants /\ ProcOf[c] \in Procs
    BY DEF NoLocks
<1>2. ASSUME NEW c \in Calls, Request(c)
      PROVE  TypeOK'
    <2>1. stage' \in [Calls -> Stages]
        BY <1>2 DEF TypeOK, Request, Stages
    <2>2. tail' \in [Procs -> [Tenants -> Calls \cup {NoCall}]]
        BY <1>1, <1>2 DEF TypeOK, Request
    <2>3. previous' \in [Calls -> Calls \cup {NoCall}]
        BY <1>2, TailType DEF TypeOK, Request
    <2>4. ahead' \in [Calls -> SUBSET Calls]
        BY <1>2 DEF TypeOK, Request
    <2>. QED  BY <1>2, <2>1, <2>2, <2>3, <2>4 DEF TypeOK, Request, poolVars
<1>3. ASSUME NEW c \in Calls, StartCall(c) \/ Finish(c) \/ ConnectFails(c)
      PROVE  TypeOK'
    <2>1. stage' \in [Calls -> Stages]
        BY <1>3 DEF TypeOK, StartCall, Finish, ConnectFails, Stages
    <2>2. faults' \in 0 .. MaxFaults
        BY <1>3 DEF TypeOK, StartCall, Finish, ConnectFails, Fault
    <2>. QED  BY <1>3, <2>1, <2>2 DEF TypeOK, StartCall, Finish, ConnectFails,
                                      poolVars, queueVars
<1>4. ASSUME NEW c \in Calls, NEW k \in Conns, Connect(c, k)
      PROVE  TypeOK'
    <2>1. stage' \in [Calls -> Stages]
        BY <1>4 DEF TypeOK, Connect, Stages
    <2>. QED  BY <1>4, <2>1 DEF TypeOK, Connect, queueVars
<1>5. ASSUME NEW c \in Calls, Lock(c)
      PROVE  TypeOK'
    <2>1. stage' \in [Calls -> Stages]
        BY <1>5 DEF TypeOK, Lock, Stages
    <2>2. uses[c] \in Conns
        BY <1>5 DEF Lock, LockInvariant, UseInv, TypeOK
    <2>3. held' \in [Conns -> [Tenants -> Nat]]
        BY <1>1, <1>5, <2>2 DEF TypeOK, Lock
    <2>. QED  BY <1>5, <2>1, <2>3 DEF TypeOK, Lock, queueVars
<1>6. ASSUME NEW c \in Calls, LockFails(c) \/ Unlock(c) \/ UnlockFails(c)
      PROVE  TypeOK'
    <2>1. stage' \in [Calls -> Stages]
        <3>1. stage' = [stage EXCEPT ![c] = "settled"]
            BY <1>6 DEF LockFails, Unlock, UnlockFails, Release
        <3>. QED  BY <3>1 DEF TypeOK, Stages
    <2>2. uses[c] \in Conns
        BY <1>6 DEF LockFails, Unlock, UnlockFails, LockInvariant, UseInv, TypeOK
    <2>3. slot' \in [Conns -> {"closed", "idle", "used", "broken"}]
        <3>1. slot \in [Conns -> {"closed", "idle", "used", "broken"}]
            BY DEF TypeOK
        <3>2. \E v \in {"closed", "idle"} : slot' = [slot EXCEPT ![uses[c]] = v]
            BY <1>6, <2>2, <3>1 DEF LockFails, Unlock, UnlockFails, Release
        <3>. QED  BY <2>2, <3>1, <3>2
    <2>4. uses' \in [Calls -> Conns \cup {NoConn}]
        BY <1>6 DEF TypeOK, LockFails, Unlock, UnlockFails, Release
    <2>5. faults' \in 0 .. MaxFaults
        BY <1>6 DEF TypeOK, LockFails, Unlock, UnlockFails, Fault
    <2>6. held' \in [Conns -> [Tenants -> Nat]]
        <3>1. CASE Unlock(c)
            <4>1. database /\ Inside(c) /\ slot[uses[c]] = "used"
                BY <3>1 DEF Unlock, Inside, LockInvariant, UseInv
            <4>2. held[uses[c]][TenantOf[c]] > 0
                BY <4>1 DEF LockInvariant, HoldInv
            <4>3. held \in [Conns -> [Tenants -> Nat]]
                BY DEF TypeOK
            <4>. QED  BY <1>1, <3>1, <4>2, <4>3, <2>2 DEF Unlock
        <3>2. CASE LockFails(c) \/ UnlockFails(c)
            BY <3>2 DEF LockFails, UnlockFails, TypeOK
        <3>. QED  BY <1>6, <3>1, <3>2
    <2>. QED  BY <1>6, <2>1, <2>3, <2>4, <2>5, <2>6
              DEF TypeOK, LockFails, Unlock, UnlockFails, queueVars
<1>7. ASSUME NEW c \in Calls, Cleanup(c)
      PROVE  TypeOK'
    <2>1. stage' \in [Calls -> Stages]
        BY <1>7 DEF TypeOK, Cleanup, Stages
    <2>2. tail' \in [Procs -> [Tenants -> Calls \cup {NoCall}]]
        BY <1>1, <1>7 DEF TypeOK, Cleanup
    <2>. QED  BY <1>7, <2>1, <2>2 DEF TypeOK, Cleanup, poolVars
<1>8. ASSUME NEW k \in Conns, EvictIdle(k) \/ LoseSession(k)
      PROVE  TypeOK'
    <2>1. held' \in [Conns -> [Tenants -> Nat]]
        BY <1>1, <1>8 DEF TypeOK, EvictIdle, LoseSession
    <2>2. slot' \in [Conns -> {"closed", "idle", "used", "broken"}]
        <3>1. slot \in [Conns -> {"closed", "idle", "used", "broken"}]
            BY DEF TypeOK
        <3>2. \E v \in {"closed", "broken"} : slot' = [slot EXCEPT ![k] = v]
            BY <1>8, <3>1 DEF EvictIdle, LoseSession
        <3>. QED  BY <3>1, <3>2
    <2>3. faults' \in 0 .. MaxFaults
        BY <1>8 DEF TypeOK, EvictIdle, LoseSession, Fault
    <2>. QED  BY <1>8, <2>1, <2>2, <2>3 DEF TypeOK, EvictIdle, LoseSession, queueVars
<1>9. ASSUME NEW p \in Procs, Crash(p)
      PROVE  TypeOK'
    <2>1. stage' \in [Calls -> Stages]
        BY <1>9 DEF TypeOK, Crash, Stages
    <2>2. tail' \in [Procs -> [Tenants -> Calls \cup {NoCall}]]
        BY <1>9 DEF TypeOK, Crash
    <2>3. uses' \in [Calls -> Conns \cup {NoConn}]
        BY <1>9 DEF TypeOK, Crash
    <2>4. slot' \in [Conns -> {"closed", "idle", "used", "broken"}]
        BY <1>9 DEF TypeOK, Crash
    <2>5. held' \in [Conns -> [Tenants -> Nat]]
        BY <1>1, <1>9 DEF TypeOK, Crash
    <2>6. faults' \in 0 .. MaxFaults
        BY <1>9 DEF TypeOK, Crash, Fault
    <2>. QED  BY <1>9, <2>1, <2>2, <2>3, <2>4, <2>5, <2>6 DEF TypeOK, Crash
<1>10. CASE UNCHANGED vars
    BY <1>10 DEF TypeOK, vars
<1>. QED  BY <1>2, <1>3, <1>4, <1>5, <1>6, <1>7, <1>8, <1>9, <1>10
          DEF Next, CallStep

(* A call that moves on without touching a session. *)
LEMMA SessionsUntouched ==
    ASSUME TypeOK, SessionInv,
           NEW c \in Calls,
           NEW s \in Stages,
           stage' = [stage EXCEPT ![c] = s],
           UNCHANGED <<database, uses, slot, held, orphaned>>,
           database =>
               (s \in {"locking", "running", "unlocking"} <=>
                   stage[c] \in {"locking", "running", "unlocking"}),
           ~database => s \notin {"connecting", "locking", "unlocking"},
           database /\ s \in {"running", "unlocking"} => Inside(c),
           c \in orphaned => s \in {"running", "unlocking", "settled", "forgotten"}
    PROVE  SessionInv'
<1>1. /\ stage'[c] = s
      /\ \A d \in Calls : d # c => stage'[d] = stage[d]
    <2>. stage \in [Calls -> Stages]
        BY DEF TypeOK
    <2>. QED  OBVIOUS
<1>2. UseInv'
    BY <1>1 DEF SessionInv, UseInv
<1>3. PoolConserved'
    BY DEF SessionInv, PoolConserved
<1>4. HoldInv'
    <2>1. ASSUME NEW d \in Calls, database, Inside(d)'
          PROVE  Inside(d)
        BY <1>1, <2>1 DEF Inside
    <2>2. ASSUME NEW d \in orphaned
          PROVE  Inside(d)' \/ Settled(d)'
        <3>. d \in Calls
            BY DEF TypeOK
        <3>. QED  BY <1>1 DEF SessionInv, HoldInv, Inside, Settled
    <2>. QED  BY <2>1, <2>2 DEF SessionInv, HoldInv
<1>. QED  BY <1>2, <1>3, <1>4 DEF SessionInv

(* A connection goes to one call, and nobody else had it. *)
LEMMA SessionConnect ==
    ASSUME TypeOK, SessionInv, NEW c \in Calls, NEW k \in Conns, Connect(c, k)
    PROVE  SessionInv'
<1>1. /\ stage[c] = "connecting"
      /\ PoolOf[k] = ProcOf[c]
      /\ slot[k] \in {"idle", "closed"}
      /\ UNCHANGED <<database, held, orphaned>>
    BY DEF Connect
<1>2. /\ stage'[c] = "locking" /\ uses'[c] = k
      /\ \A d \in Calls : d # c => stage'[d] = stage[d] /\ uses'[d] = uses[d]
    <2>. stage \in [Calls -> Stages] /\ uses \in [Calls -> Conns \cup {NoConn}]
        BY DEF TypeOK
    <2>. QED  BY DEF Connect
<1>3. slot'[k] = "used" /\ \A j \in Conns : j # k => slot'[j] = slot[j]
    <2>. slot \in [Conns -> {"closed", "idle", "used", "broken"}]
        BY DEF TypeOK
    <2>. QED  BY DEF Connect
<1>4. \A d \in Calls : uses[d] \in Conns \cup {NoConn} /\ uses[d] # k
    BY <1>1 DEF TypeOK, SessionInv, PoolConserved
<1>5. k # NoConn
    BY LockAssumption DEF LockAssumption
<1>6. database /\ uses[c] = NoConn
    BY <1>1 DEF SessionInv, UseInv
<1>7. UseInv'
    <2>1. ASSUME NEW d \in Calls
          PROVE  /\ uses'[d] # NoConn <=>
                        database /\ stage'[d] \in {"locking", "running", "unlocking"}
                 /\ uses'[d] # NoConn =>
                        /\ PoolOf[uses'[d]] = ProcOf[d]
                        /\ slot'[uses'[d]] \in {"used", "broken"}
        <3>1. CASE d = c
            BY <3>1, <1>1, <1>2, <1>3, <1>5, <1>6
        <3>2. CASE d # c
            BY <3>2, <1>2, <1>3, <1>4 DEF SessionInv, UseInv
        <3>. QED  BY <3>1, <3>2
    <2>. QED  BY <2>1, <1>1, <1>6 DEF UseInv
<1>8. PoolConserved'
    <2>1. ASSUME NEW j \in Conns
          PROVE  slot'[j] \in {"used", "broken"} <=> \E d \in Calls : uses'[d] = j
        <3>1. CASE j = k
            BY <3>1, <1>2, <1>3
        <3>2. CASE j # k
            <4>1. slot[j] \in {"used", "broken"} <=> \E d \in Calls : uses[d] = j
                BY DEF SessionInv, PoolConserved
            <4>2. \A d \in Calls : uses'[d] = j <=> uses[d] = j
                BY <3>2, <1>2, <1>6, LockAssumption DEF LockAssumption
            <4>. QED  BY <4>1, <4>2, <3>2, <1>3
        <3>. QED  BY <3>1, <3>2
    <2>2. ASSUME NEW d \in Calls, NEW e \in Calls, d # e, uses'[d] = uses'[e]
          PROVE  uses'[d] = NoConn
        BY <2>2, <1>2, <1>4 DEF SessionInv, PoolConserved
    <2>. QED  BY <2>1, <2>2 DEF PoolConserved
<1>9. HoldInv'
    <2>1. ASSUME NEW d \in Calls, Inside(d)'
          PROVE  IF d \in orphaned
                 THEN slot'[uses'[d]] = "broken"
                 ELSE slot'[uses'[d]] = "used" /\ held[uses'[d]][TenantOf[d]] > 0
        <3>1. d # c /\ Inside(d)
            BY <2>1, <1>2 DEF Inside
        <3>2. uses[d] \in Conns \ {k}
            BY <3>1, <1>4, <1>6 DEF SessionInv, UseInv, Inside
        <3>. QED  BY <3>1, <3>2, <1>2, <1>3, <1>6 DEF SessionInv, HoldInv
    <2>2. ASSUME NEW d \in orphaned
          PROVE  Inside(d)' \/ Settled(d)'
        <3>1. d \in Calls /\ d # c
            BY <1>1 DEF TypeOK, SessionInv, HoldInv, Inside, Settled
        <3>. QED  BY <3>1, <1>2 DEF SessionInv, HoldInv, Inside, Settled
    <2>. QED  BY <2>1, <2>2, <1>1 DEF SessionInv, HoldInv
<1>. QED  BY <1>7, <1>8, <1>9 DEF SessionInv

(* The lock is granted when no other session has it. *)
LEMMA SessionLock ==
    ASSUME TypeOK, SessionInv, NEW c \in Calls, Lock(c)
    PROVE  SessionInv'
<1> DEFINE k == uses[c]
           t == TenantOf[c]
<1>1. /\ stage[c] = "locking" /\ slot[k] = "used"
      /\ \A j \in Conns \ {k} : held[j][t] = 0
      /\ UNCHANGED <<database, uses, slot, orphaned>>
    BY DEF Lock, Granted
<1>2. database /\ k \in Conns /\ t \in Tenants
    BY <1>1, LockAssumption DEF TypeOK, SessionInv, UseInv, LockAssumption
<1>3. /\ stage'[c] = "running"
      /\ \A d \in Calls : d # c => stage'[d] = stage[d]
    <2>. stage \in [Calls -> Stages]
        BY DEF TypeOK
    <2>. QED  BY DEF Lock
<1>4. /\ held'[k][t] > 0
      /\ \A j \in Conns : \A u \in Tenants :
             ~(j = k /\ u = t) => held'[j][u] = held[j][u]
    <2>1. held \in [Conns -> [Tenants -> Nat]]
        BY DEF TypeOK
    <2>2. held[k][t] \in Nat
        BY <2>1, <1>2
    <2>. QED  BY <2>1, <2>2, <1>2 DEF Lock
<1>5. UseInv' /\ PoolConserved'
    BY <1>1, <1>2, <1>3 DEF SessionInv, UseInv, PoolConserved
<1>6. HoldInv'
    <2>1. ASSUME NEW u \in Tenants, NEW i \in Conns, NEW j \in Conns, i # j
          PROVE  held'[i][u] = 0 \/ held'[j][u] = 0
        BY <2>1, <1>1, <1>4 DEF SessionInv, HoldInv
    <2>2. ASSUME NEW d \in Calls, Inside(d)'
          PROVE  IF d \in orphaned
                 THEN slot[uses[d]] = "broken"
                 ELSE slot[uses[d]] = "used" /\ held'[uses[d]][TenantOf[d]] > 0
        <3>1. CASE d = c
            <4>1. c \notin orphaned
                BY <1>1 DEF SessionInv, HoldInv, Inside, Settled
            <4>. QED  BY <3>1, <4>1, <1>1, <1>4
        <3>2. CASE d # c
            <4>1. Inside(d)
                BY <3>2, <2>2, <1>3 DEF Inside
            <4>2. uses[d] \in Conns /\ uses[d] # k
                BY <4>1, <3>2, <1>2 DEF TypeOK, SessionInv, UseInv, PoolConserved, Inside
            <4>3. TenantOf[d] \in Tenants
                BY LockAssumption DEF LockAssumption
            <4>. QED  BY <4>1, <4>2, <4>3, <1>2, <1>4 DEF SessionInv, HoldInv
        <3>. QED  BY <3>1, <3>2
    <2>3. ASSUME NEW d \in orphaned
          PROVE  Inside(d)' \/ Settled(d)'
        <3>. d \in Calls
            BY DEF TypeOK
        <3>. QED  BY <1>3 DEF SessionInv, HoldInv, Inside, Settled
    <2>. QED  BY <2>1, <2>2, <2>3, <1>1 DEF HoldInv
<1>. QED  BY <1>5, <1>6 DEF SessionInv

(* A call that gives its connection back, having released its lock once or    *)
(* not at all.                                                               *)
LEMMA SessionRelease ==
    ASSUME TypeOK, SessionInv,
           NEW c \in Calls, Release(c),
           stage[c] \in {"locking", "running", "unlocking"},
           uses[c] # NoConn,
           UNCHANGED <<database, orphaned>>,
           \/ held' = held
           \/ /\ held[uses[c]][TenantOf[c]] > 0
              /\ held' = [held EXCEPT ![uses[c]][TenantOf[c]] = @ - 1]
    PROVE  SessionInv'
<1> DEFINE k == uses[c]
           t == TenantOf[c]
<1>1. database /\ k \in Conns /\ k # NoConn /\ t \in Tenants
    BY LockAssumption DEF TypeOK, SessionInv, UseInv, LockAssumption
<1>2. /\ stage'[c] = "settled" /\ uses'[c] = NoConn
      /\ \A d \in Calls : d # c => stage'[d] = stage[d] /\ uses'[d] = uses[d]
    <2>. stage \in [Calls -> Stages] /\ uses \in [Calls -> Conns \cup {NoConn}]
        BY DEF TypeOK
    <2>. QED  BY DEF Release
<1>3. /\ slot'[k] \in {"closed", "idle"}
      /\ \A j \in Conns : j # k => slot'[j] = slot[j]
    <2>. slot \in [Conns -> {"closed", "idle", "used", "broken"}]
        BY DEF TypeOK
    <2>. QED  BY <1>1 DEF Release
<1>4. \A j \in Conns : \A u \in Tenants :
          ~(j = k /\ u = t) => held'[j][u] = held[j][u]
    <2>. held \in [Conns -> [Tenants -> Nat]]
        BY DEF TypeOK
    <2>. QED  BY <1>1
<1>5. \A d \in Calls : d # c => uses[d] # k
    BY <1>1 DEF SessionInv, PoolConserved
<1>6. UseInv'
    <2>1. ASSUME NEW d \in Calls
          PROVE  /\ uses'[d] # NoConn <=>
                        database /\ stage'[d] \in {"locking", "running", "unlocking"}
                 /\ uses'[d] # NoConn =>
                        /\ PoolOf[uses'[d]] = ProcOf[d]
                        /\ slot'[uses'[d]] \in {"used", "broken"}
        <3>1. CASE d = c
            BY <3>1, <1>2
        <3>2. CASE d # c
            BY <3>2, <1>2, <1>3, <1>5 DEF TypeOK, SessionInv, UseInv
        <3>. QED  BY <3>1, <3>2
    <2>. QED  BY <2>1, <1>1 DEF UseInv
<1>7. PoolConserved'
    <2>1. ASSUME NEW j \in Conns
          PROVE  slot'[j] \in {"used", "broken"} <=> \E d \in Calls : uses'[d] = j
        <3>0. j # NoConn
            BY LockAssumption DEF LockAssumption
        <3>1. CASE j = k
            BY <3>0, <3>1, <1>2, <1>3, <1>5
        <3>2. CASE j # k
            <4>1. slot[j] \in {"used", "broken"} <=> \E d \in Calls : uses[d] = j
                BY DEF SessionInv, PoolConserved
            <4>2. \A d \in Calls : uses'[d] = j <=> uses[d] = j
                BY <3>0, <3>2, <1>2
            <4>. QED  BY <4>1, <4>2, <3>2, <1>3
        <3>. QED  BY <3>1, <3>2
    <2>2. ASSUME NEW d \in Calls, NEW e \in Calls, d # e, uses'[d] = uses'[e]
          PROVE  uses'[d] = NoConn
        BY <2>2, <1>2 DEF SessionInv, PoolConserved
    <2>. QED  BY <2>1, <2>2 DEF PoolConserved
<1>8. HoldInv'
    <2>1. ASSUME NEW u \in Tenants, NEW i \in Conns, NEW j \in Conns, i # j
          PROVE  held'[i][u] = 0 \/ held'[j][u] = 0
        <3>1. CASE u = t /\ held' # held
            <4>1. held[k][t] > 0
                BY <3>1
            <4>2. \A m \in Conns : m # k => held'[m][u] = held[m][u]
                BY <1>4
            <4>3. \A m \in Conns : m # k => held[m][u] = 0
                BY <3>1, <4>1, <1>1 DEF SessionInv, HoldInv
            <4>. QED  BY <2>1, <4>2, <4>3
        <3>2. CASE u # t \/ held' = held
            BY <2>1, <3>2, <1>4 DEF SessionInv, HoldInv
        <3>. QED  BY <3>1, <3>2
    <2>2. ASSUME NEW d \in Calls, Inside(d)'
          PROVE  IF d \in orphaned
                 THEN slot'[uses'[d]] = "broken"
                 ELSE slot'[uses'[d]] = "used" /\ held'[uses'[d]][TenantOf[d]] > 0
        <3>1. d # c /\ Inside(d)
            BY <2>2, <1>2 DEF Inside
        <3>2. uses[d] \in Conns /\ uses[d] # k /\ TenantOf[d] \in Tenants
            BY <3>1, <1>1, <1>5, LockAssumption
            DEF TypeOK, SessionInv, UseInv, Inside, LockAssumption
        <3>. QED  BY <3>1, <3>2, <1>1, <1>2, <1>3, <1>4 DEF SessionInv, HoldInv
    <2>3. ASSUME NEW d \in orphaned
          PROVE  Inside(d)' \/ Settled(d)'
        <3>. d \in Calls
            BY DEF TypeOK
        <3>. QED  BY <1>2 DEF SessionInv, HoldInv, Inside, Settled
    <2>. QED  BY <2>1, <2>2, <2>3 DEF HoldInv
<1>. QED  BY <1>6, <1>7, <1>8 DEF SessionInv

(* An idle session that ends was nobody's; one in use turns its call, if it   *)
(* is inside, into an orphan.                                                *)
LEMMA SessionEnds ==
    ASSUME TypeOK, SessionInv, NEW k \in Conns, EvictIdle(k) \/ LoseSession(k)
    PROVE  SessionInv'
<1>1. UNCHANGED <<database, stage, uses>>
    BY DEF EvictIdle, LoseSession
<1>2. /\ \A j \in Conns : j # k => slot'[j] = slot[j]
      /\ slot[k] = "idle" => slot'[k] = "closed"
      /\ slot[k] # "idle" => slot[k] = "used" /\ slot'[k] = "broken"
    <2>. slot \in [Conns -> {"closed", "idle", "used", "broken"}]
        BY DEF TypeOK
    <2>. QED  BY DEF EvictIdle, LoseSession
<1>3. /\ \A u \in Tenants : held'[k][u] = 0
      /\ \A j \in Conns : j # k => held'[j] = held[j]
    <2>. held \in [Conns -> [Tenants -> Nat]]
        BY DEF TypeOK
    <2>. QED  BY DEF EvictIdle, LoseSession, NoLocks
<1>4. \A d \in Calls :
          d \in orphaned' <=> d \in orphaned \/ (uses[d] = k /\ Inside(d))
    <2>1. CASE EvictIdle(k)
        <3>1. \A d \in Calls : uses[d] # k
            BY <2>1 DEF EvictIdle, SessionInv, PoolConserved
        <3>. QED  BY <2>1, <3>1 DEF EvictIdle
    <2>2. CASE LoseSession(k)
        BY <2>2 DEF LoseSession
    <2>. QED  BY <2>1, <2>2
<1>5. orphaned' \subseteq orphaned \cup Calls
    BY DEF EvictIdle, LoseSession
<1>6. \A d \in Calls : uses[d] = k => slot[k] # "idle"
    BY DEF SessionInv, PoolConserved
<1>7. UseInv' /\ PoolConserved'
    BY <1>1, <1>2, <1>6 DEF TypeOK, SessionInv, UseInv, PoolConserved
<1>8. HoldInv'
    <2>1. ASSUME NEW u \in Tenants, NEW i \in Conns, NEW j \in Conns, i # j
          PROVE  held'[i][u] = 0 \/ held'[j][u] = 0
        BY <2>1, <1>3 DEF SessionInv, HoldInv
    <2>2. ASSUME NEW d \in Calls, database, Inside(d)
          PROVE  IF d \in orphaned'
                 THEN slot'[uses[d]] = "broken"
                 ELSE slot'[uses[d]] = "used" /\ held'[uses[d]][TenantOf[d]] > 0
        <3>1. uses[d] \in Conns
            BY <2>2 DEF TypeOK, SessionInv, UseInv, Inside
        <3>2. CASE uses[d] = k
            BY <2>2, <3>2, <1>2, <1>4, <1>6
        <3>3. CASE uses[d] # k
            BY <2>2, <3>1, <3>3, <1>2, <1>3, <1>4 DEF SessionInv, HoldInv
        <3>. QED  BY <3>2, <3>3
    <2>3. ASSUME NEW d \in orphaned'
          PROVE  Inside(d) \/ Settled(d)
        BY <1>4, <1>5 DEF TypeOK, SessionInv, HoldInv
    <2>. QED  BY <2>1, <2>2, <2>3, <1>1 DEF HoldInv, Inside, Settled
<1>. QED  BY <1>7, <1>8 DEF SessionInv

(* A crash ends the sessions of its process, and only those. *)
LEMMA SessionCrash ==
    ASSUME TypeOK, SessionInv, NEW p \in Procs, Crash(p)
    PROVE  SessionInv'
<1>1. /\ UNCHANGED <<database, orphaned>>
      /\ \A d \in Calls :
             stage'[d] = IF ProcOf[d] = p /\ stage[d] # "new"
                         THEN "forgotten" ELSE stage[d]
      /\ \A d \in Calls : uses'[d] = IF ProcOf[d] = p THEN NoConn ELSE uses[d]
    BY DEF Crash
<1>2. /\ \A k \in Conns : slot'[k] = IF PoolOf[k] = p THEN "closed" ELSE slot[k]
      /\ \A k \in Conns : PoolOf[k] # p => held'[k] = held[k]
      /\ \A k \in Conns : PoolOf[k] = p => \A u \in Tenants : held'[k][u] = 0
    BY DEF Crash, NoLocks
<1>3. \A d \in Calls :
          uses[d] # NoConn => uses[d] \in Conns /\ PoolOf[uses[d]] = ProcOf[d]
    BY DEF TypeOK, SessionInv, UseInv
<1>4. NoConn \notin Conns
    BY LockAssumption DEF LockAssumption
<1>5. UseInv'
    BY <1>1, <1>2, <1>3 DEF SessionInv, UseInv
<1>6. PoolConserved'
    <2>1. ASSUME NEW k \in Conns
          PROVE  slot'[k] \in {"used", "broken"} <=> \E d \in Calls : uses'[d] = k
        <3>1. CASE PoolOf[k] = p
            BY <3>1, <1>1, <1>2, <1>3, <1>4
        <3>2. CASE PoolOf[k] # p
            <4>1. slot[k] \in {"used", "broken"} <=> \E d \in Calls : uses[d] = k
                BY DEF SessionInv, PoolConserved
            <4>2. \A d \in Calls : uses'[d] = k <=> uses[d] = k
                BY <3>2, <1>1, <1>3, <1>4
            <4>. QED  BY <4>1, <4>2, <3>2, <1>2
        <3>. QED  BY <3>1, <3>2
    <2>2. ASSUME NEW d \in Calls, NEW e \in Calls, d # e, uses'[d] = uses'[e]
          PROVE  uses'[d] = NoConn
        BY <2>2, <1>1 DEF SessionInv, PoolConserved
    <2>. QED  BY <2>1, <2>2 DEF PoolConserved
<1>7. HoldInv'
    <2>1. ASSUME NEW u \in Tenants, NEW i \in Conns, NEW j \in Conns, i # j
          PROVE  held'[i][u] = 0 \/ held'[j][u] = 0
        BY <2>1, <1>2 DEF SessionInv, HoldInv
    <2>2. ASSUME NEW d \in Calls, database, Inside(d)'
          PROVE  IF d \in orphaned
                 THEN slot'[uses'[d]] = "broken"
                 ELSE slot'[uses'[d]] = "used" /\ held'[uses'[d]][TenantOf[d]] > 0
        <3>1. Inside(d) /\ ProcOf[d] # p
            BY <2>2, <1>1 DEF Inside
        <3>2. uses[d] \in Conns /\ PoolOf[uses[d]] # p
            BY <2>2, <3>1, <1>3 DEF SessionInv, UseInv, Inside
        <3>. QED  BY <2>2, <3>1, <3>2, <1>1, <1>2 DEF SessionInv, HoldInv
    <2>3. ASSUME NEW d \in orphaned
          PROVE  Inside(d)' \/ Settled(d)'
        <3>. d \in Calls
            BY DEF TypeOK
        <3>. QED  BY <1>1 DEF SessionInv, HoldInv, Inside, Settled
    <2>. QED  BY <2>1, <2>2, <2>3, <1>1 DEF HoldInv
<1>. QED  BY <1>5, <1>6, <1>7 DEF SessionInv

LEMMA SessionStep ==
    ASSUME TypeOK, SessionInv, [Next]_vars
    PROVE  SessionInv'
<1>1. ASSUME NEW c \in Calls,
             Request(c) \/ StartCall(c) \/ ConnectFails(c) \/ Finish(c) \/ Cleanup(c)
      PROVE  SessionInv'
    <2>1. UNCHANGED <<database, uses, slot, held, orphaned>>
        BY <1>1 DEF Request, StartCall, ConnectFails, Finish, Cleanup, poolVars
    <2>2. PICK s \in Stages : stage' = [stage EXCEPT ![c] = s]
                  /\ \/ stage[c] = "new" /\ s = "queued"
                     \/ stage[c] = "queued" /\ s = IF database THEN "connecting" ELSE "running"
                     \/ stage[c] = "connecting" /\ s = "settled"
                     \/ stage[c] = "running" /\ s = IF database THEN "unlocking" ELSE "settled"
                     \/ stage[c] = "settled" /\ s = "forgotten"
        BY <1>1 DEF Request, StartCall, ConnectFails, Finish, Cleanup, Stages
    <2>3. c \in orphaned => Inside(c) \/ Settled(c)
        BY DEF SessionInv, HoldInv
    <2>4. database \/ ~database
        OBVIOUS
    <2>5. /\ database => (s \in {"locking", "running", "unlocking"} <=>
                             stage[c] \in {"locking", "running", "unlocking"})
          /\ ~database => s \notin {"connecting", "locking", "unlocking"}
          /\ database /\ s \in {"running", "unlocking"} => Inside(c)
          /\ c \in orphaned => s \in {"running", "unlocking", "settled", "forgotten"}
        BY <2>2, <2>3 DEF Inside, Settled
    <2>. QED  BY <2>1, <2>2, <2>5, SessionsUntouched
<1>2. ASSUME NEW c \in Calls, NEW k \in Conns, Connect(c, k)
      PROVE  SessionInv'
    BY <1>2, SessionConnect
<1>3. ASSUME NEW c \in Calls, Lock(c)
      PROVE  SessionInv'
    BY <1>3, SessionLock
<1>4. ASSUME NEW c \in Calls, LockFails(c) \/ Unlock(c) \/ UnlockFails(c)
      PROVE  SessionInv'
    <2>1. /\ Release(c)
          /\ stage[c] \in {"locking", "running", "unlocking"}
          /\ UNCHANGED <<database, orphaned>>
        BY <1>4 DEF LockFails, Unlock, UnlockFails
    <2>2. uses[c] # NoConn
        BY <1>4 DEF LockFails, Unlock, UnlockFails, SessionInv, UseInv
    <2>3. CASE Unlock(c)
        <3>1. database /\ Inside(c) /\ slot[uses[c]] = "used"
            BY <2>3 DEF Unlock, Inside, SessionInv, UseInv
        <3>2. held[uses[c]][TenantOf[c]] > 0
            BY <3>1 DEF SessionInv, HoldInv
        <3>3. held' = [held EXCEPT ![uses[c]][TenantOf[c]] = @ - 1]
            BY <2>3 DEF Unlock
        <3>. QED  BY <2>1, <2>2, <3>2, <3>3, SessionRelease
    <2>4. CASE LockFails(c) \/ UnlockFails(c)
        <3>1. held' = held
            BY <2>4 DEF LockFails, UnlockFails
        <3>. QED  BY <2>1, <2>2, <3>1, SessionRelease
    <2>. QED  BY <1>4, <2>3, <2>4
<1>5. ASSUME NEW k \in Conns, EvictIdle(k) \/ LoseSession(k)
      PROVE  SessionInv'
    BY <1>5, SessionEnds
<1>6. ASSUME NEW p \in Procs, Crash(p)
      PROVE  SessionInv'
    BY <1>6, SessionCrash
<1>7. CASE UNCHANGED vars
    BY <1>7 DEF vars, SessionInv, UseInv, PoolConserved, HoldInv, Inside, Settled
<1>. QED  BY <1>1, <1>2, <1>3, <1>4, <1>5, <1>6, <1>7 DEF Next, CallStep

-------------------------------------------------------------------------------
(* The theorems. *)

LEMMA InitInv == Init => TypeOK /\ LockInvariant
<1>. SUFFICES ASSUME Init PROVE TypeOK /\ LockInvariant
    OBVIOUS
<1>. USE LockAssumption DEF LockAssumption
<1>1. TypeOK
    BY DEF Init, TypeOK, Stages
<1>2. UseInv /\ PoolConserved /\ HoldInv
    BY DEF Init, UseInv, PoolConserved, HoldInv, Inside, Settled
<1>3. AheadInv
    BY DEF Init, AheadInv, Pending, Active, Settled
<1>4. ChainInv
    <2>1. \A c \in Calls : tail[ProcOf[c]][TenantOf[c]] = NoCall
        BY DEF Init
    <2>. QED  BY <2>1 DEF Init, ChainInv, Pending, Settled
<1>. QED  BY <1>1, <1>2, <1>3, <1>4 DEF LockInvariant

(* The queues, the pool and the advisory locks fit together in every state:   *)
(* the type is right, no path through withDbLock's finally blocks loses or    *)
(* doubles a connection, a tenant's lock is held in one session at most, and  *)
(* every unsettled call is reachable from its queue's entry.                  *)
THEOREM LockInvariantHolds == Spec => [](TypeOK /\ LockInvariant)
<1>1. TypeOK /\ LockInvariant /\ [Next]_vars => (TypeOK /\ LockInvariant)'
    <2>. SUFFICES ASSUME TypeOK, LockInvariant, [Next]_vars
                  PROVE  (TypeOK /\ LockInvariant)'
        OBVIOUS
    <2>1. QueueInv /\ SessionInv
        BY DEF LockInvariant, QueueInv, SessionInv
    <2>2. QueueInv' /\ SessionInv'
        BY <2>1, QueueStep, SessionStep
    <2>. QED  BY <2>2, TypeStep DEF LockInvariant, QueueInv, SessionInv
<1>. QED  BY <1>1, InitInv, PTL DEF Spec

(* Calls of a tenant follow each other within a process; across processes     *)
(* they overlap only when one of them has lost its session.                   *)
LEMMA Exclusion ==
    ASSUME TypeOK, LockInvariant
    PROVE  MutualExclusion
<1>. SUFFICES ASSUME NEW c \in Calls, NEW d \in Calls, c # d,
                     TenantOf[c] = TenantOf[d], Inside(c), Inside(d)
              PROVE  /\ ProcOf[c] # ProcOf[d]
                     /\ database => c \in orphaned \/ d \in orphaned
    BY DEF MutualExclusion
<1>1. ProcOf[c] # ProcOf[d]
    <2>. SUFFICES ASSUME ProcOf[c] = ProcOf[d] PROVE FALSE
        OBVIOUS
    <2>1. c \in ahead[d] \/ d \in ahead[c]
        BY DEF LockInvariant, AheadInv, SameQueue, Pending, Inside, Settled
    <2>. QED  BY <2>1 DEF LockInvariant, AheadInv, Active, Inside, Settled
<1>2. ASSUME database, c \notin orphaned, d \notin orphaned
      PROVE  FALSE
    <2>1. uses[c] \in Conns /\ uses[d] \in Conns /\ uses[c] # uses[d]
        BY <1>2, LockAssumption
        DEF TypeOK, LockInvariant, UseInv, PoolConserved, Inside, LockAssumption
    <2>2. held[uses[c]][TenantOf[c]] > 0 /\ held[uses[d]][TenantOf[c]] > 0
        BY <1>2 DEF LockInvariant, HoldInv
    <2>3. TenantOf[c] \in Tenants
        BY LockAssumption DEF LockAssumption
    <2>. QED  BY <2>1, <2>2, <2>3 DEF LockInvariant, HoldInv
<1>. QED  BY <1>1, <1>2

(* Every state of the lock's queues, pools and sessions has its declared type    *)
(* (workflowLock.ts).                                                         *)
THEOREM LockTypesHold == Spec => []TypeOK
BY LockInvariantHolds, PTL

(* Two calls of one tenant are never inside together in one process, nor in   *)
(* two processes while both their sessions live.                             *)
THEOREM MutualExclusionHolds == Spec => []MutualExclusion
<1>. QED  BY LockInvariantHolds, Exclusion, PTL

(* A call starts only when every call made before it in its queue has settled, *)
(* even after Cleanup has dropped the map's entry and a crash has emptied it.  *)
THEOREM QueueOrderHolds == Spec => []QueueOrder
<1>1. LockInvariant => QueueOrder
    BY DEF LockInvariant, AheadInv, QueueOrder
<1>. QED  BY <1>1, LockInvariantHolds, PTL

(* A connection is out of the pool exactly while one call uses it. *)
THEOREM PoolIsConserved == Spec => []PoolConserved
<1>1. LockInvariant => PoolConserved
    BY DEF LockInvariant
<1>. QED  BY <1>1, LockInvariantHolds, PTL

-------------------------------------------------------------------------------
(* The refinement. *)

(* While the invariant holds, the holder of a tenant is the live call inside. *)
LEMMA HolderIsLive ==
    ASSUME TypeOK, LockInvariant
    PROVE  /\ \A c \in Calls : Live(c) => LiveHolder(TenantOf[c]) = c
           /\ \A t \in Tenants :
                  LiveHolder(t) # NoCall =>
                      /\ LiveHolder(t) \in Calls
                      /\ Live(LiveHolder(t))
                      /\ TenantOf[LiveHolder(t)] = t
<1>1. \A c, d \in Calls : Live(c) /\ Live(d) /\ TenantOf[c] = TenantOf[d] => c = d
    BY Exclusion DEF MutualExclusion, Live
<1>. QED  BY <1>1 DEF LiveHolder

(* Granting the lock is Enter: no live call is inside. *)
LEMMA LockEnters ==
    ASSUME TypeOK, LockInvariant, (TypeOK /\ LockInvariant)',
           NEW c \in Calls, Lock(c)
    PROVE  Mutex!Enter(c)
<1> DEFINE t == TenantOf[c]
<1>0. t \in Tenants
    BY LockAssumption DEF LockAssumption
<1>1. database /\ uses[c] \in Conns
    BY DEF Lock, TypeOK, LockInvariant, UseInv
<1>2. UNCHANGED <<database, orphaned>> /\ c \notin orphaned
    BY DEF Lock, LockInvariant, HoldInv, Inside, Settled
<1>3. \A d \in Calls : Live(d)' <=> d = c \/ Live(d)
    <2>. stage \in [Calls -> Stages]
        BY DEF TypeOK
    <2>. QED  BY <1>1, <1>2 DEF Lock, Live, Inside
<1>4. \A d \in Calls : Live(d) => TenantOf[d] # t
    <2>. SUFFICES ASSUME NEW d \in Calls, Live(d), TenantOf[d] = t PROVE FALSE
        OBVIOUS
    <2>1. d # c
        BY DEF Lock, Live, Inside
    <2>2. uses[d] \in Conns \ {uses[c]}
        BY <1>1, <2>1 DEF TypeOK, LockInvariant, UseInv, PoolConserved, Live, Inside
    <2>3. held[uses[d]][t] > 0
        BY DEF LockInvariant, HoldInv, Live
    <2>. QED  BY <2>2, <2>3 DEF Lock, Granted
<1>5. LiveHolder(t) = NoCall
    BY <1>0, <1>4, HolderIsLive
<1>6. \A u \in Tenants : LiveHolder(u)' = IF u = t THEN c ELSE LiveHolder(u)
    <2>. SUFFICES ASSUME NEW u \in Tenants
                  PROVE  LiveHolder(u)' = IF u = t THEN c ELSE LiveHolder(u)
        OBVIOUS
    <2>1. CASE u = t
        <3>1. \E d \in Calls : Live(d)' /\ TenantOf[d] = t
            BY <1>3
        <3>2. \A d \in Calls : Live(d)' /\ TenantOf[d] = t <=> d = c
            BY <1>3, <1>4
        <3>. QED  BY <2>1, <3>1, <3>2 DEF LiveHolder
    <2>2. CASE u # t
        <3>1. \A d \in Calls :
                  Live(d)' /\ TenantOf[d] = u <=> Live(d) /\ TenantOf[d] = u
            BY <2>2, <1>3
        <3>. QED  BY <2>2, <3>1 DEF LiveHolder
    <2>. QED  BY <2>1, <2>2
<1>. QED  BY <1>0, <1>5, <1>6 DEF Mutex!Enter

(* Every other step only takes calls out: it is Leave, perhaps by nobody.     *)
LEMMA OthersLeave ==
    ASSUME TypeOK, LockInvariant, (TypeOK /\ LockInvariant)',
           \A c \in Calls : Live(c)' => Live(c)
    PROVE  Mutex!Leave
<1>1. ASSUME NEW t \in Tenants, LiveHolder(t)' # NoCall
      PROVE  LiveHolder(t)' = LiveHolder(t) /\ LiveHolder(t)' \in Calls
    <2>1. PICK c \in Calls : Live(c)' /\ TenantOf[c] = t /\ LiveHolder(t)' = c
        BY <1>1 DEF LiveHolder
    <2>. QED  BY <2>1, HolderIsLive
<1>. QED  BY <1>1 DEF Mutex!Leave

(* withTenantWorkflowLock implements the abstract lock: every grant is Enter,  *)
(* every other step, failures, lost sessions and crashes included, is Leave.  *)
THEOREM LockImplementsMutex == Spec => ImplementsRunMutex
<1>1. Init => Mutex!Init
    BY DEF Init, Mutex!Init, LiveHolder, Live, Inside
<1>2. TypeOK /\ LockInvariant /\ (TypeOK /\ LockInvariant)' /\ [Next]_vars
          => Mutex!Next
    <2>. SUFFICES ASSUME TypeOK, LockInvariant, (TypeOK /\ LockInvariant)',
                         [Next]_vars
                  PROVE  Mutex!Next
        OBVIOUS
    <2>1. ASSUME NEW c \in Calls, Lock(c)
          PROVE  Mutex!Next
        BY <2>1, LockEnters DEF Mutex!Next
    <2>2. ASSUME ~ \E c \in Calls : Lock(c)
          PROVE  Mutex!Next
        <3>1. ASSUME NEW c \in Calls, Live(c)'
              PROVE  Live(c)
            <4>. USE DEF Live, Inside
            <4>. stage \in [Calls -> Stages]
                BY DEF TypeOK
            <4>1. CASE UNCHANGED vars
                BY <3>1, <4>1 DEF vars
            <4>2. ASSUME NEW d \in Calls,
                         \/ Request(d) \/ StartCall(d) \/ ConnectFails(d)
                         \/ \E k \in Conns : Connect(d, k)
                  PROVE  Live(c)
                BY <3>1, <4>2 DEF Request, StartCall, ConnectFails, Connect
            <4>3. ASSUME NEW d \in Calls,
                         \/ LockFails(d) \/ Finish(d) \/ Unlock(d)
                         \/ UnlockFails(d) \/ Cleanup(d)
                  PROVE  Live(c)
                BY <3>1, <4>3 DEF LockFails, Finish, Unlock, UnlockFails,
                                  Cleanup, Release
            <4>4. ASSUME NEW k \in Conns, EvictIdle(k) \/ LoseSession(k)
                  PROVE  Live(c)
                BY <3>1, <4>4 DEF EvictIdle, LoseSession
            <4>5. ASSUME NEW p \in Procs, Crash(p)
                  PROVE  Live(c)
                BY <3>1, <4>5 DEF Crash
            <4>. QED  BY <2>2, <4>1, <4>2, <4>3, <4>4, <4>5 DEF Next, CallStep
        <3>. QED  BY <3>1, OthersLeave DEF Mutex!Next
    <2>. QED  BY <2>1, <2>2
<1>. QED  BY <1>1, <1>2, LockInvariantHolds, PTL DEF Spec, Mutex!Spec, ImplementsRunMutex

===============================================================================
