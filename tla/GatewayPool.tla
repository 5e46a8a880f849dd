------------------------------ MODULE GatewayPool ------------------------------
(***************************************************************************)
(* The pool of gateway runtimes behind the HTTP server (gateway/pool.go,   *)
(* gateway/http_server.go, StartRuntime and StopRuntime of gateway/core.go)*)
(* One runtime serves a selector; a runtime registers the selector's caller*)
(* with the core when it starts, again with every heartbeat, and removes   *)
(* it when it ends.  What a runtime does in between is the subject of      *)
(* GatewaySync.tla.                                                        *)
(***************************************************************************)
EXTENDS Integers, FiniteSetsExt

CONSTANTS
  Selectors,     \* normalised selectors: the keys of the pool
  Requests,      \* concurrent HTTP requests
  MaxInstances,  \* PoolOptions.MaxInstances, 0 for no limit
  MaxRuntimes,   \* bound: runtimes started
  NoRuntime

ASSUME GatewayPoolAssumption ==
  /\ Selectors # {} /\ MaxInstances \in Nat /\ MaxRuntimes \in Nat \ {0}
  /\ NoRuntime \notin 1..MaxRuntimes

VARIABLES
  pooled, stale,     \* pool.runtimes, and whether a runtime's lastUsed is too old
  closed,
  runtime, serves,   \* the state of each runtime and its selector
  started,           \* runtimes made so far
  caller,            \* whether the core knows the selector's caller
  rqpc, own,         \* a request inside Get, and the runtime it started
  toStop,            \* what the sweeper and Close still have to stop
  poolCtx            \* the server's context is done

poolVars == <<pooled, stale, closed>>
runtimeVars == <<runtime, serves, started, caller>>
requestVars == <<rqpc, own>>
gpVars == <<poolVars, runtimeVars, requestVars, toStop, poolCtx>>

Runtimes == 1..MaxRuntimes
Stoppers == {"sweeper", "close"}
Kept == {k \in Selectors : pooled[k] # NoRuntime}

GPInit ==
  /\ pooled = [k \in Selectors |-> NoRuntime] /\ stale = [k \in Selectors |-> FALSE]
  /\ closed = FALSE /\ poolCtx = FALSE /\ started = 0
  /\ runtime = [r \in Runtimes |-> "unused"]
  /\ serves = [r \in Runtimes |-> CHOOSE k \in Selectors : TRUE]
  /\ caller = [k \in Selectors |-> FALSE]
  /\ rqpc = [q \in Requests |-> "idle"] /\ own = [q \in Requests |-> NoRuntime]
  /\ toStop = [s \in Stoppers |-> {}]

(***************************************************************************)
(* Get: look, start a runtime without the lock, look again.                *)
(***************************************************************************)

\* A closed or a full pool refuses, which changes nothing.
GetPooled(q, k) ==
  /\ rqpc[q] = "idle" /\ ~closed /\ k \in Kept
  /\ stale' = [stale EXCEPT ![k] = FALSE]
  /\ UNCHANGED <<pooled, closed, runtimeVars, requestVars, toStop, poolCtx>>

GetNew(q, k) ==
  LET r == started + 1 IN
  /\ rqpc[q] = "idle" /\ ~closed /\ k \notin Kept
  /\ MaxInstances = 0 \/ Quantify(Selectors, LAMBDA s : s \in Kept) < MaxInstances
  /\ started < MaxRuntimes
  /\ started' = r
  /\ runtime' = [runtime EXCEPT ![r] = "starting"]
  /\ serves' = [serves EXCEPT ![r] = k]
  /\ rqpc' = [rqpc EXCEPT ![q] = "start"] /\ own' = [own EXCEPT ![q] = r]
  /\ UNCHANGED <<poolVars, caller, toStop, poolCtx>>

Leave(q) == rqpc' = [rqpc EXCEPT ![q] = "idle"] /\ own' = [own EXCEPT ![q] = NoRuntime]

\* StartRuntime returns the error of a runtime that ended, or that of its context.
StartFailed(q) ==
  /\ rqpc[q] = "start"
  /\ runtime[own[q]] = "stopped" \/ poolCtx
  /\ Leave(q)
  /\ UNCHANGED <<poolVars, runtimeVars, toStop, poolCtx>>

\* Mutant: a runtime that another request stored meanwhile is replaced.
StoreOverwrites(q) ==
  LET r == own[q]
      k == serves[r] IN
  /\ rqpc[q] = "start" /\ runtime[r] \in {"running", "stopping"}
  /\ IF closed
     THEN rqpc' = [rqpc EXCEPT ![q] = "discard"] /\ UNCHANGED <<pooled, own>>
     ELSE pooled' = [pooled EXCEPT ![k] = r] /\ Leave(q)
  /\ \E old \in BOOLEAN : stale' = IF closed THEN stale ELSE [stale EXCEPT ![k] = old]
  /\ UNCHANGED <<closed, runtimeVars, toStop, poolCtx>>

\* Mutant: the second look does not ask whether the pool was closed.
StoreInClosed(q) ==
  LET r == own[q]
      k == serves[r] IN
  /\ rqpc[q] = "start" /\ runtime[r] \in {"running", "stopping"}
  /\ IF k \in Kept
     THEN rqpc' = [rqpc EXCEPT ![q] = "discard"] /\ UNCHANGED <<pooled, own>>
     ELSE pooled' = [pooled EXCEPT ![k] = r] /\ Leave(q)
  /\ \E old \in BOOLEAN : stale' = [stale EXCEPT ![k] = old]
  /\ UNCHANGED <<closed, runtimeVars, toStop, poolCtx>>

\* lastUsed is the time at which Get was called, before the start.
Store(q) ==
  LET r == own[q]
      k == serves[r] IN
  /\ rqpc[q] = "start" /\ runtime[r] \in {"running", "stopping"}
  /\ IF closed \/ k \in Kept
     THEN rqpc' = [rqpc EXCEPT ![q] = "discard"] /\ UNCHANGED <<pooled, own>>
     ELSE pooled' = [pooled EXCEPT ![k] = r] /\ Leave(q)
  /\ \E old \in BOOLEAN : stale' = IF closed THEN stale ELSE [stale EXCEPT ![k] = old]
  /\ UNCHANGED <<closed, runtimeVars, toStop, poolCtx>>

StopRuntime(r) == runtime' = [runtime EXCEPT ![r] = IF @ = "running" THEN "stopping" ELSE @]

\* The request's own context may end the wait for the runtime, not the stop.
Discard(q) ==
  /\ rqpc[q] = "discard"
  /\ StopRuntime(own[q])
  /\ Leave(q)
  /\ UNCHANGED <<poolVars, serves, started, caller, toStop, poolCtx>>

(***************************************************************************)
(* evictIdle and Close: forget runtimes under the lock, stop them one after*)
(* the other without it.                                                   *)
(***************************************************************************)

Age(k) ==
  /\ k \in Kept /\ ~stale[k]
  /\ stale' = [stale EXCEPT ![k] = TRUE]
  /\ UNCHANGED <<pooled, closed, runtimeVars, requestVars, toStop, poolCtx>>

Forget(s, ks) ==
  /\ pooled' = [k \in Selectors |-> IF k \in ks THEN NoRuntime ELSE pooled[k]]
  /\ stale' = [k \in Selectors |-> stale[k] /\ k \notin ks]
  /\ toStop' = [toStop EXCEPT ![s] = @ \cup {pooled[k] : k \in ks}]

EvictIdle ==
  /\ toStop["sweeper"] = {} /\ ~closed
  /\ \E k \in Kept : stale[k]
  /\ Forget("sweeper", {k \in Kept : stale[k]})
  /\ UNCHANGED <<closed, runtimeVars, requestVars, poolCtx>>

ClosePool ==
  /\ ~closed
  /\ closed' = TRUE
  /\ Forget("close", Kept)
  /\ UNCHANGED <<runtimeVars, requestVars, poolCtx>>

StopNext(s) ==
  /\ \A r \in toStop[s] : runtime[r] # "stopping"
  /\ \E r \in toStop[s] : runtime[r] = "running" /\ StopRuntime(r)
  /\ UNCHANGED <<poolVars, serves, started, caller, requestVars, toStop, poolCtx>>

Stopped(s) ==
  /\ \E r \in toStop[s] : runtime[r] = "stopped" /\ toStop' = [toStop EXCEPT ![s] = @ \ {r}]
  /\ UNCHANGED <<poolVars, runtimeVars, requestVars, poolCtx>>

(***************************************************************************)
(* The runtimes.                                                           *)
(***************************************************************************)

RuntimeRegisters(r) ==
  /\ runtime[r] = "starting" /\ ~poolCtx
  /\ runtime' = [runtime EXCEPT ![r] = "running"]
  /\ caller' = [caller EXCEPT ![serves[r]] = TRUE]
  /\ UNCHANGED <<poolVars, serves, started, requestVars, toStop, poolCtx>>

RuntimeRefused(r) ==
  /\ runtime[r] = "starting"
  /\ runtime' = [runtime EXCEPT ![r] = "stopped"]
  /\ UNCHANGED <<poolVars, serves, started, caller, requestVars, toStop, poolCtx>>

Heartbeat(r) ==
  /\ runtime[r] = "running"
  /\ caller' = [caller EXCEPT ![serves[r]] = TRUE]
  /\ UNCHANGED <<poolVars, runtime, serves, started, requestVars, toStop, poolCtx>>

RuntimeCancelled(r) ==
  /\ poolCtx /\ runtime[r] = "running"
  /\ StopRuntime(r)
  /\ UNCHANGED <<poolVars, serves, started, caller, requestVars, toStop, poolCtx>>

\* The deferred unregisterCaller names the caller, whoever registered it.
RuntimeUnregisters(r) ==
  /\ runtime[r] = "stopping"
  /\ runtime' = [runtime EXCEPT ![r] = "stopped"]
  /\ caller' = [caller EXCEPT ![serves[r]] = FALSE]
  /\ UNCHANGED <<poolVars, serves, started, requestVars, toStop, poolCtx>>

CancelPool ==
  /\ ~poolCtx /\ poolCtx' = TRUE
  /\ UNCHANGED <<poolVars, runtimeVars, requestVars, toStop>>

RequestStep(q) == StartFailed(q) \/ Store(q) \/ Discard(q)
RuntimeStarts(r) == RuntimeRegisters(r) \/ RuntimeRefused(r)
RuntimeEnds(r) == RuntimeCancelled(r) \/ RuntimeUnregisters(r)
StopperStep(s) == StopNext(s) \/ Stopped(s)

GPNext ==
  \/ \E q \in Requests, k \in Selectors : GetPooled(q, k) \/ GetNew(q, k)
  \/ \E q \in Requests : RequestStep(q)
  \/ \E k \in Selectors : Age(k)
  \/ EvictIdle \/ ClosePool \/ CancelPool
  \/ \E s \in Stoppers : StopperStep(s)
  \/ \E r \in Runtimes : RuntimeStarts(r) \/ Heartbeat(r) \/ RuntimeEnds(r)

\* Every runnable goroutine runs, a start ends, heartbeats go on.
GPFairness ==
  /\ \A q \in Requests : WF_gpVars(RequestStep(q))
  /\ \A s \in Stoppers : WF_gpVars(StopperStep(s))
  /\ \A r \in Runtimes : WF_gpVars(RuntimeStarts(r)) /\ WF_gpVars(Heartbeat(r)) /\ WF_gpVars(RuntimeEnds(r))

(***************************************************************************)
(* Properties.                                                             *)
(***************************************************************************)

\* The type invariant.
GPTypeOK ==
  /\ pooled \in [Selectors -> Runtimes \cup {NoRuntime}] /\ stale \in [Selectors -> BOOLEAN]
  /\ closed \in BOOLEAN /\ poolCtx \in BOOLEAN /\ started \in 0..MaxRuntimes
  /\ runtime \in [Runtimes -> {"unused", "starting", "running", "stopping", "stopped"}]
  /\ serves \in [Runtimes -> Selectors] /\ caller \in [Selectors -> BOOLEAN]
  /\ rqpc \in [Requests -> {"idle", "start", "discard"}]
  /\ own \in [Requests -> Runtimes \cup {NoRuntime}] /\ toStop \in [Stoppers -> SUBSET Runtimes]

\* No runtime runs on its own: it is in the pool, or a request, the sweeper or Close
\* holds it and will store or stop it, or the server's context stops it, however requests
\* of one selector, evictions and the shutdown meet (pool.go Get, evictIdle, Close).
NoOrphanRuntime ==
  \A r \in Runtimes :
    runtime[r] = "running" =>
      \/ pooled[serves[r]] = r \/ poolCtx
      \/ \E q \in Requests : own[q] = r
      \/ \E s \in Stoppers : r \in toStop[s]

\* That, and the type invariant.
PoolInv == GPTypeOK /\ NoOrphanRuntime

\* A pool that was closed ends up with every runtime stopped, also those that requests
\* were starting at the time.
ClosedPoolStops == closed => \A r \in Runtimes : runtime[r] \in {"unused", "stopped"}

\* A selector that stays pooled is known to the core again in the end, though every
\* runtime of that selector that ends unregisters the name they share.
PooledCallerReturns == \A k \in Selectors : caller[k] \/ k \notin Kept \/ poolCtx

\* Whatever the requests do, the pool's promises to the core are kept in the end.
PoolSettled == ClosedPoolStops /\ PooledCallerReturns
PoolSettles == <>[]PoolSettled
================================================================================
