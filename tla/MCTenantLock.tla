----------------------------- MODULE MCTenantLock -----------------------------
(* Constants of the TenantLock instance: an API server with three calls for   *)
(* one tenant and one for another, a worker with a call for the first, and a  *)
(* lock pool of one connection for each process.                             *)
EXTENDS TenantLock, TLC

CONSTANTS api, worker, t1, t2, a1, a2, a3, b1, w1, ka, kw

MCProcOf ==
    a1 :> api @@ a2 :> api @@ a3 :> api @@ b1 :> api @@ w1 :> worker
MCTenantOf == a1 :> t1 @@ a2 :> t1 @@ a3 :> t1 @@ b1 :> t2 @@ w1 :> t1
MCEarlier == a1 :> {} @@ a2 :> {a1} @@ a3 :> {a2} @@ b1 :> {} @@ w1 :> {}
MCPoolOf == ka :> api @@ kw :> worker
===============================================================================
