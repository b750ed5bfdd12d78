SPECIFICATION FairSpec
CONSTANTS
    api = api
    worker = worker
    t1 = t1
    t2 = t2
    a1 = a1
    a2 = a2
    a3 = a3
    b1 = b1
    w1 = w1
    ka = ka
    kw = kw
    Procs = {api, worker}
    Tenants = {t1, t2}
    Calls = {a1, a2, a3, b1, w1}
    Conns = {ka, kw}
    ProcOf <- MCProcOf
    TenantOf <- MCTenantOf
    Earlier <- MCEarlier
    PoolOf <- MCPoolOf
    NoCall = NoCall
    NoConn = NoConn
    MaxFaults = 1
INVARIANTS
    TypeOK
    MutualExclusion
    QueueOrder
    PoolConserved
    LockInvariant
PROPERTIES
    ImplementsRunMutex
    EveryCallSettles
CHECK_DEADLOCK FALSE
