----------------------------- MODULE IndexRefresh -----------------------------
(***************************************************************************)
(* How an aggregator index keeps its lists (aggregator/core/index_core.go, *)
(* with the fetch of index/tool_index.go and the updates of                *)
(* index/base_index.go): one cached list per server, refreshed by several  *)
(* goroutines under one gate, changed by catalog updates that do not take  *)
(* the gate, and published as a merged snapshot.  When the goroutines run  *)
(* is the subject of IndexLifecycle.tla.                                   *)
(*                                                                         *)
(* A server's list is a version number: offer[s] is what the server lists  *)
(* now, 0 the empty list.  A cache maps the servers it knows to versions,  *)
(* so two snapshots have the same etag exactly when they are equal.        *)
(***************************************************************************)
EXTENDS Integers, Sequences

CONSTANTS
  Servers,           \* server types
  Refreshers,        \* goroutines that call Refresh: loop, list change, bootstrap
  FailureThreshold,  \* consecutive failures that open the circuit breaker
  MaxOffer,          \* bound: list versions of one server
  MaxSpecUpdates,    \* bound: catalog updates
  Updater, NoRunner  \* the reload's goroutine; nobody holds the gate

ASSUME IndexRefreshAssumption ==
  /\ FailureThreshold \in Nat \ {0} /\ MaxOffer \in Nat \ {0} /\ MaxSpecUpdates \in Nat
  /\ {Updater, NoRunner} \cap Refreshers = {} /\ Updater # NoRunner

VARIABLES
  offer,        \* what each server lists (outside the index)
  baseSpecs,    \* BaseIndex.specs and specKeys
  indexSpecs,   \* GenericIndex.specs
  serverCache, failures, unsupported,
  snapshot,     \* GenericIndex.state, which Snapshot and Resolve read
  gate, todo, fetched, changed,  \* the Refresh that holds the RefreshGate
  rpc,          \* where each goroutine is
  copied,       \* the cache a rebuild works on
  cancelled,    \* the context of the refreshes is cancelled
  specUpdates,
  raced         \* history: an update met a refresh, or an older rebuild was stored

catalogVars == <<baseSpecs, indexSpecs, specUpdates, cancelled>>
cacheVars == <<serverCache, failures, unsupported>>
viewVars == <<snapshot, raced>>
fetchVars == <<gate, todo, fetched, changed>>
irVars == <<offer, catalogVars, cacheVars, viewVars, fetchVars, rpc, copied>>

Rebuilders == Refreshers \cup {Updater}

Fail == -1  \* a fetch error
Skip == -2  \* no ready instance and nothing in the metadata cache
Open == -3  \* a fetch error that opened the breaker

IRInit ==
  /\ offer = [s \in Servers |-> 1]
  /\ baseSpecs = Servers /\ indexSpecs = Servers /\ specUpdates = 0 /\ cancelled = FALSE
  /\ serverCache = << >> /\ failures = [s \in Servers |-> 0] /\ unsupported = {}
  /\ snapshot = << >> /\ raced = FALSE
  /\ gate = NoRunner /\ todo = {} /\ fetched = << >> /\ changed = FALSE
  /\ rpc = [p \in Rebuilders |-> "idle"] /\ copied = [p \in Rebuilders |-> << >>]

RGoto(p, l) == rpc' = [rpc EXCEPT ![p] = l]
Drop(f, gone) == [x \in DOMAIN f \ gone |-> f[x]]
Put(f, s, v) == [x \in DOMAIN f \cup {s} |-> IF x = s THEN v ELSE f[x]]

(***************************************************************************)
(* Refresh: the gate, one fetch per server by a pool of workers, and the   *)
(* results in the order in which they arrive.                              *)
(***************************************************************************)

BeginRefresh(p) ==
  /\ rpc[p] = "idle" /\ ~cancelled
  /\ RGoto(p, "gate")
  /\ UNCHANGED <<offer, catalogVars, cacheVars, viewVars, fetchVars, copied>>

AcquireGate(p) ==
  /\ rpc[p] = "gate" /\ gate = NoRunner
  /\ gate' = p
  /\ RGoto(p, "specs")
  /\ UNCHANGED <<offer, catalogVars, cacheVars, viewVars, todo, fetched, changed, copied>>

GateCancelled(p) ==
  /\ rpc[p] = "gate" /\ cancelled
  /\ RGoto(p, "idle")
  /\ UNCHANGED <<offer, catalogVars, cacheVars, viewVars, fetchVars, copied>>

ReadSpecs(p) ==
  /\ rpc[p] = "specs"
  /\ todo' = indexSpecs
  /\ RGoto(p, "fetch")
  /\ UNCHANGED <<offer, catalogVars, cacheVars, viewVars, gate, fetched, changed, copied>>

\* fetchServerCache.  A server known not to list is not asked; one with no ready
\* instance is read from the metadata cache, which holds an earlier version of its
\* list or nothing; a server that left the spec keys meanwhile is an error.
FetchResults(s) ==
  IF s \in unsupported THEN {0}
  ELSE IF s \notin baseSpecs THEN {Fail}
  ELSE {Fail, Skip} \cup 1..offer[s]

Fetch(p, s) ==
  /\ rpc[p] = "fetch" /\ s \in todo
  /\ todo' = todo \ {s}
  /\ \E r \in FetchResults(s) : fetched' = Put(fetched, s, r)
  /\ UNCHANGED <<offer, catalogVars, cacheVars, viewVars, gate, changed, rpc, copied>>

\* The server answers "method not found": it is not asked again, its list is empty.
FetchUnsupported(p, s) ==
  /\ rpc[p] = "fetch" /\ s \in (todo \cap baseSpecs) \ unsupported
  /\ todo' = todo \ {s}
  /\ unsupported' = unsupported \cup {s}
  /\ fetched' = Put(fetched, s, 0)
  /\ UNCHANGED <<offer, catalogVars, serverCache, failures, viewVars, gate, changed, rpc, copied>>

\* Workers leave the remaining servers when the context is cancelled.
FetchCancelled(p) ==
  /\ rpc[p] = "fetch" /\ cancelled /\ todo # {}
  /\ todo' = {}
  /\ UNCHANGED <<offer, catalogVars, cacheVars, viewVars, gate, fetched, changed, rpc, copied>>

\* A failure is counted (the count saturates: only "threshold reached" matters);
\* at the threshold the cache is dropped, in a critical section of its own.
FailureStep(s) ==
  LET n == IF failures[s] < FailureThreshold THEN failures[s] + 1 ELSE failures[s] IN
  /\ fetched[s] = Fail
  /\ failures' = [failures EXCEPT ![s] = n]
  /\ fetched' = IF n >= FailureThreshold THEN Put(fetched, s, Open) ELSE Drop(fetched, {s})
  /\ UNCHANGED <<serverCache, changed>>

BreakerStep(s) ==
  /\ fetched[s] = Open
  /\ serverCache' = Drop(serverCache, {s})
  /\ changed' = TRUE
  /\ fetched' = Drop(fetched, {s})
  /\ UNCHANGED failures

SkipStep(s) ==
  /\ fetched[s] = Skip
  /\ fetched' = Drop(fetched, {s})
  /\ UNCHANGED <<serverCache, failures, changed>>

\* Mutant: a success does not reset the failures.
SuccessKeepsFailures(s) ==
  LET same == s \in DOMAIN serverCache /\ serverCache[s] = fetched[s] IN
  /\ fetched[s] >= 0
  /\ serverCache' = IF same THEN serverCache ELSE Put(serverCache, s, fetched[s])
  /\ changed' = (changed \/ ~same)
  /\ fetched' = Drop(fetched, {s})
  /\ UNCHANGED failures

SuccessStep(s) ==
  LET same == s \in DOMAIN serverCache /\ serverCache[s] = fetched[s] IN
  /\ fetched[s] >= 0
  /\ failures' = [failures EXCEPT ![s] = 0]
  /\ serverCache' = IF same THEN serverCache ELSE Put(serverCache, s, fetched[s])
  /\ changed' = (changed \/ ~same)
  /\ fetched' = Drop(fetched, {s})

ApplyResult(p, s) ==
  /\ rpc[p] = "fetch" /\ s \in DOMAIN fetched
  /\ FailureStep(s) \/ BreakerStep(s) \/ SkipStep(s) \/ SuccessStep(s)
  /\ UNCHANGED <<offer, catalogVars, unsupported, viewVars, gate, todo, rpc, copied>>

\* The end of the results: the gate is released unless a cache changed.
ResultsEnd(p) ==
  /\ rpc[p] = "fetch" /\ todo = {} /\ fetched = << >>
  /\ changed' = FALSE
  /\ IF changed THEN RGoto(p, "copy") /\ UNCHANGED gate
                ELSE RGoto(p, "idle") /\ gate' = NoRunner
  /\ UNCHANGED <<offer, catalogVars, cacheVars, viewVars, todo, fetched, copied>>

(***************************************************************************)
(* rebuildSnapshot, by a refresh that holds the gate or by an update that  *)
(* does not.                                                               *)
(***************************************************************************)

\* Mutant: a refresh that changed something keeps the gate.
RebuiltWithGate(p) ==
  /\ RGoto(p, "idle")
  /\ copied' = [copied EXCEPT ![p] = << >>]
  /\ UNCHANGED gate

Rebuilt(p) ==
  /\ RGoto(p, "idle")
  /\ gate' = IF gate = p THEN NoRunner ELSE gate
  /\ copied' = [copied EXCEPT ![p] = << >>]

CopyServerCache(p) ==
  /\ rpc[p] = "copy"
  /\ copied' = [copied EXCEPT ![p] = serverCache]
  /\ RGoto(p, "build")
  /\ UNCHANGED <<offer, catalogVars, cacheVars, viewVars, fetchVars>>

\* A merged snapshot with the etag of the published one goes no further.
BuildSnapshot(p) ==
  /\ rpc[p] = "build"
  /\ IF copied[p] = snapshot THEN Rebuilt(p)
     ELSE RGoto(p, "store") /\ UNCHANGED <<gate, copied>>
  /\ UNCHANGED <<offer, catalogVars, cacheVars, viewVars, todo, fetched, changed>>

\* The broadcast that follows (a subscriber whose channel is full misses it) changes
\* nothing in the index.
StoreSnapshot(p) ==
  /\ rpc[p] = "store"
  /\ snapshot' = copied[p]
  /\ raced' = (raced \/ copied[p] # serverCache)
  /\ Rebuilt(p)
  /\ UNCHANGED <<offer, catalogVars, cacheVars, todo, fetched, changed>>

(***************************************************************************)
(* Updates, and what happens outside.                                      *)
(***************************************************************************)

\* ToolIndex.UpdateSpecs forgets which servers cannot list, then the base index
\* takes the new servers.
UpdateSpecs(newSpecs) ==
  /\ rpc[Updater] = "idle" /\ specUpdates < MaxSpecUpdates
  /\ specUpdates' = specUpdates + 1
  /\ baseSpecs' = newSpecs
  /\ unsupported' = {}
  /\ RGoto(Updater, "apply")
  /\ UNCHANGED <<offer, indexSpecs, cancelled, serverCache, failures, viewVars, fetchVars, copied>>

\* ApplyRuntimeConfig: the same servers and the same knowledge about them.
ApplyRuntimeConfig ==
  /\ rpc[Updater] = "idle" /\ specUpdates < MaxSpecUpdates
  /\ specUpdates' = specUpdates + 1
  /\ RGoto(Updater, "apply")
  /\ UNCHANGED <<offer, baseSpecs, indexSpecs, cancelled, cacheVars, viewVars, fetchVars, copied>>

\* GenericIndex.UpdateSpecs: the failures of a server are forgotten only with its
\* cache.
ApplySpecs ==
  LET gone == DOMAIN serverCache \ baseSpecs IN
  /\ rpc[Updater] = "apply"
  /\ indexSpecs' = baseSpecs
  /\ serverCache' = Drop(serverCache, gone)
  /\ failures' = [s \in Servers |-> IF s \in gone THEN 0 ELSE failures[s]]
  /\ raced' = (raced \/ gate # NoRunner)
  /\ RGoto(Updater, "copy")
  /\ UNCHANGED <<offer, baseSpecs, specUpdates, cancelled, unsupported, snapshot, fetchVars,
                 copied>>

\* Stop of the base index cancels the context of every refresh.
CancelRefreshes ==
  /\ ~cancelled /\ cancelled' = TRUE
  /\ UNCHANGED <<offer, baseSpecs, indexSpecs, specUpdates, cacheVars, viewVars, fetchVars, rpc,
                 copied>>

OfferChanges(s) ==
  /\ offer[s] < MaxOffer
  /\ offer' = [offer EXCEPT ![s] = @ + 1]
  /\ UNCHANGED <<catalogVars, cacheVars, viewVars, fetchVars, rpc, copied>>

RefreshStep(p) ==
  \/ AcquireGate(p) \/ GateCancelled(p) \/ ReadSpecs(p) \/ FetchCancelled(p) \/ ResultsEnd(p)
  \/ \E s \in Servers : Fetch(p, s) \/ FetchUnsupported(p, s) \/ ApplyResult(p, s)

RebuildStep(p) == CopyServerCache(p) \/ BuildSnapshot(p) \/ StoreSnapshot(p)

IRNext ==
  \/ \E p \in Refreshers : BeginRefresh(p) \/ RefreshStep(p)
  \/ \E p \in Rebuilders : RebuildStep(p)
  \/ \E S \in SUBSET Servers : UpdateSpecs(S)
  \/ ApplyRuntimeConfig \/ ApplySpecs \/ CancelRefreshes
  \/ \E s \in Servers : OfferChanges(s)

\* Every runnable goroutine runs, and a fetch ends at its timeout.
IRFairness ==
  \A p \in Refreshers : WF_irVars(RefreshStep(p) \/ RebuildStep(p))

(***************************************************************************)
(* Properties.                                                             *)
(***************************************************************************)

\* The type invariant.
IRTypeOK ==
  /\ offer \in [Servers -> 1..MaxOffer]
  /\ baseSpecs \subseteq Servers /\ indexSpecs \subseteq Servers
  /\ specUpdates \in 0..MaxSpecUpdates /\ cancelled \in BOOLEAN /\ raced \in BOOLEAN
  /\ DOMAIN serverCache \subseteq Servers /\ failures \in [Servers -> 0..FailureThreshold]
  /\ \A s \in DOMAIN serverCache : serverCache[s] \in 0..MaxOffer
  /\ unsupported \subseteq Servers /\ gate \in Refreshers \cup {NoRunner}
  /\ todo \subseteq Servers /\ DOMAIN fetched \subseteq Servers /\ changed \in BOOLEAN

\* A server whose breaker is open has no cached list, so a stale list cannot be
\* routed to: neither a late result nor an update in between brings it back
\* (index_core.go:315-372, 374-389).
BreakerHidesServer ==
  \A s \in Servers :
    failures[s] >= FailureThreshold =>
      s \notin DOMAIN serverCache \/ (s \in DOMAIN fetched /\ fetched[s] = Open)

\* When no goroutine is at work the snapshot shows the caches, and only servers of
\* the catalog, unless an update was applied while a refresh was in flight or an
\* older rebuild was stored over a newer cache (index_core.go:374-424).
QuietAgreesUnlessRaced ==
  (~raced /\ \A p \in Rebuilders : rpc[p] \in {"idle", "gate"}) =>
    snapshot = serverCache /\ DOMAIN snapshot \subseteq indexSpecs

\* The two, and the type invariant.
RefreshInv == IRTypeOK /\ BreakerHidesServer /\ QuietAgreesUnlessRaced

\* A Refresh that has the gate gives it back, also when fetches fail and when the context
\* is cancelled while they are in flight (index_core.go Refresh).
GateIsFree == gate = NoRunner
RefreshReturns == []<>GateIsFree
================================================================================
