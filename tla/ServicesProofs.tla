----------------------------- MODULE ServicesProofs -----------------------------
(***************************************************************************)
(* What a core serves beside calls, for any number of servers, loops,      *)
(* watchers, sessions, runs and reloads: the two halves of an index, the   *)
(* watches of statuses and of logs, the observability endpoint, the RPC    *)
(* server and the life of the application.  Each component has its         *)
(* inductive invariant and the lemma that its steps keep it; the theorems  *)
(* at the end put them together for the services as they are checked.      *)
(***************************************************************************)
EXTENDS MCServices, TLAPS

--------------------------------------------------------------------------------
(* The refreshes of an index.                                              *)

\* Where a refresh holds the gate; where anybody rebuilds the snapshot.
Refreshing == {"specs", "fetch", "copy", "build", "store"}
Rebuilding == {"copy", "build", "store"}

\* The gate is with the goroutine that refreshes.  What it has fetched and what it has yet
\* to fetch are of different servers, and there is nothing of either once it is over.
GateHeld ==
  /\ rpc \in [Rebuilders -> {"idle", "gate", "apply"} \cup Refreshing]
  /\ rpc[Updater] \in {"idle", "apply"} \cup Rebuilding
  /\ \A p \in Refreshers : rpc[p] # "apply" /\ (rpc[p] \in Refreshing <=> gate = p)
  /\ todo \cap DOMAIN fetched = {}
  /\ (\A p \in Refreshers : rpc[p] # "fetch") => todo = {} /\ DOMAIN fetched = {} /\ ~changed
  /\ \A s \in DOMAIN fetched : fetched[s] \in {Fail, Skip, Open} \cup 0..MaxOffer

\* As long as nothing raced the snapshot shows the caches, or is about to, and nothing is
\* cached or fetched of a server that the index does not have.
SnapshotFollows ==
  ~raced =>
    /\ \/ snapshot = serverCache \/ changed
       \/ \E p \in Rebuilders : rpc[p] = "copy"
       \/ \E p \in Rebuilders : rpc[p] \in {"build", "store"} /\ copied[p] = serverCache
    /\ DOMAIN serverCache \cup todo \cup DOMAIN fetched \subseteq indexSpecs

CopiesTyped == copied = [p \in Rebuilders |-> copied[p]]
RefreshStrong == IRTypeOK /\ BreakerHidesServer /\ GateHeld /\ CopiesTyped /\ SnapshotFollows

\* The empty sequence is the empty function.
LEMMA EmptyIsEmpty == DOMAIN << >> = {}
OBVIOUS

\* The first state.
LEMMA RefreshInit == IRInit => RefreshStrong
<1> SUFFICES ASSUME IRInit PROVE RefreshStrong
  OBVIOUS
<1> USE IndexRefreshAssumption, EmptyIsEmpty DEF IRInit
<1>1. IRTypeOK
  <2>1. offer \in [Servers -> 1..MaxOffer] /\ failures \in [Servers -> 0..FailureThreshold]
    OBVIOUS
  <2>2. specUpdates \in 0..MaxSpecUpdates
    OBVIOUS
  <2> QED
    BY <2>1, <2>2 DEF IRTypeOK
<1>2. BreakerHidesServer
  BY DEF BreakerHidesServer
<1>3. GateHeld
  BY DEF GateHeld, Refreshing, Rebuilding, Rebuilders
<1>4. CopiesTyped /\ SnapshotFollows
  BY DEF CopiesTyped, SnapshotFollows
<1> QED
  BY <1>1, <1>2, <1>3, <1>4 DEF RefreshStrong

\* A goroutine comes to the gate, takes it or goes away from it, and the servers change.
LEMMA GateSteps ==
  ASSUME RefreshStrong
  PROVE  /\ \A p \in Refreshers : BeginRefresh(p) \/ AcquireGate(p) \/ GateCancelled(p)
                                  => RefreshStrong'
         /\ CancelRefreshes \/ (\E s \in Servers : OfferChanges(s)) => RefreshStrong'
<1> USE IndexRefreshAssumption
<1>1. ASSUME NEW p \in Refreshers, BeginRefresh(p) \/ AcquireGate(p) \/ GateCancelled(p)
      PROVE  RefreshStrong'
  <2>1. /\ UNCHANGED <<offer, catalogVars, cacheVars, viewVars, todo, fetched, changed, copied>>
        /\ rpc[p] \in {"idle", "gate"}
        /\ \/ rpc' = [rpc EXCEPT ![p] = "gate"] /\ gate' = gate
           \/ rpc' = [rpc EXCEPT ![p] = "idle"] /\ gate' = gate
           \/ rpc' = [rpc EXCEPT ![p] = "specs"] /\ gate = NoRunner /\ gate' = p
    BY <1>1 DEF BeginRefresh, AcquireGate, GateCancelled, RGoto, fetchVars
  <2>2. PICK l \in {"gate", "idle", "specs"} :
          rpc' = [rpc EXCEPT ![p] = l] /\ (l = "specs" => gate = NoRunner /\ gate' = p)
          /\ (l # "specs" => gate' = gate)
    BY <2>1
  <2>3. IRTypeOK' /\ BreakerHidesServer' /\ CopiesTyped'
    BY <2>1 DEF RefreshStrong, IRTypeOK, BreakerHidesServer, CopiesTyped, catalogVars, cacheVars, viewVars
  <2>4. GateHeld'
    BY <2>1, <2>2 DEF RefreshStrong, GateHeld, Refreshing, Rebuilding, Rebuilders
  <2>5. \A q \in Rebuilders : rpc[q] \in Rebuilding => rpc'[q] = rpc[q]
    BY <2>1, <2>2 DEF RefreshStrong, GateHeld, Rebuilding
  <2>6. SnapshotFollows'
    BY <2>1, <2>5 DEF RefreshStrong, SnapshotFollows, Rebuilding, catalogVars, cacheVars, viewVars
  <2> QED
    BY <2>3, <2>4, <2>6 DEF RefreshStrong
<1>2. ASSUME CancelRefreshes \/ \E s \in Servers : OfferChanges(s) PROVE RefreshStrong'
  <2>1. /\ UNCHANGED <<baseSpecs, indexSpecs, specUpdates, cacheVars, viewVars, fetchVars, rpc, copied>>
        /\ cancelled' \in BOOLEAN /\ offer' \in [Servers -> 1..MaxOffer]
    <3>1. CASE CancelRefreshes
      BY <3>1 DEF CancelRefreshes, RefreshStrong, IRTypeOK
    <3>2. ASSUME NEW s \in Servers, OfferChanges(s)
          PROVE  offer' \in [Servers -> 1..MaxOffer]
      BY <3>2 DEF OfferChanges, RefreshStrong, IRTypeOK
    <3>3. CASE \E s \in Servers : OfferChanges(s)
      BY <3>2, <3>3 DEF OfferChanges, catalogVars, RefreshStrong, IRTypeOK
    <3> QED
      BY <1>2, <3>1, <3>3
  <2> QED
    BY <2>1 DEF RefreshStrong, IRTypeOK, BreakerHidesServer, GateHeld, CopiesTyped, SnapshotFollows,
       cacheVars, viewVars, fetchVars
<1> QED
  BY <1>1, <1>2

\* The servers to fetch from are read, and their lists arrive.
LEMMA FetchSteps ==
  ASSUME RefreshStrong, NEW p \in Refreshers
  PROVE  /\ ReadSpecs(p) \/ FetchCancelled(p) => RefreshStrong'
         /\ \A s \in Servers : Fetch(p, s) \/ FetchUnsupported(p, s) => RefreshStrong'
<1> USE IndexRefreshAssumption
<1>1. CASE ReadSpecs(p)
  <2>1. /\ rpc[p] = "specs" /\ todo' = indexSpecs /\ rpc' = [rpc EXCEPT ![p] = "fetch"]
        /\ UNCHANGED <<offer, catalogVars, cacheVars, viewVars, gate, fetched, changed, copied>>
    BY <1>1 DEF ReadSpecs, RGoto
  <2>2. \A q \in Refreshers : rpc[q] # "fetch"
    BY <2>1 DEF RefreshStrong, GateHeld, Refreshing
  <2>3. todo = {} /\ DOMAIN fetched = {} /\ ~changed
    BY <2>2 DEF RefreshStrong, GateHeld
  <2>4. IRTypeOK' /\ BreakerHidesServer' /\ CopiesTyped'
    BY <2>1 DEF RefreshStrong, IRTypeOK, BreakerHidesServer, CopiesTyped, catalogVars, cacheVars, viewVars
  <2>5. GateHeld'
    BY <2>1, <2>3 DEF RefreshStrong, GateHeld, Refreshing, Rebuilding, Rebuilders
  <2>6. \A q \in Rebuilders : rpc[q] \in Rebuilding => rpc'[q] = rpc[q]
    BY <2>1 DEF RefreshStrong, GateHeld, Rebuilding
  <2>7. SnapshotFollows'
    BY <2>1, <2>6 DEF RefreshStrong, SnapshotFollows, Rebuilding, catalogVars, cacheVars, viewVars
  <2> QED
    BY <2>4, <2>5, <2>7 DEF RefreshStrong
<1>2. CASE FetchCancelled(p)
  <2>1. /\ rpc[p] = "fetch" /\ todo' = {}
        /\ UNCHANGED <<offer, catalogVars, cacheVars, viewVars, gate, fetched, changed, rpc, copied>>
    BY <1>2 DEF FetchCancelled
  <2> QED
    BY <2>1 DEF RefreshStrong, IRTypeOK, BreakerHidesServer, GateHeld, CopiesTyped, SnapshotFollows,
       catalogVars, cacheVars, viewVars
<1>3. ASSUME NEW s \in Servers, Fetch(p, s) \/ FetchUnsupported(p, s) PROVE RefreshStrong'
  <2>1. /\ rpc[p] = "fetch" /\ s \in todo /\ todo' = todo \ {s}
        /\ UNCHANGED <<offer, catalogVars, serverCache, failures, viewVars, gate, changed, rpc, copied>>
        /\ unsupported' \subseteq Servers
    BY <1>3 DEF Fetch, FetchUnsupported, cacheVars, RefreshStrong, IRTypeOK
  <2>2. PICK r \in {Fail, Skip} \cup 0..MaxOffer : fetched' = Put(fetched, s, r)
    BY <1>3 DEF Fetch, FetchUnsupported, FetchResults, RefreshStrong, IRTypeOK
  <2>3. /\ DOMAIN fetched' = DOMAIN fetched \cup {s} /\ s \notin DOMAIN fetched /\ fetched'[s] = r
        /\ \A x \in DOMAIN fetched : fetched'[x] = fetched[x]
    <3>1. s \notin DOMAIN fetched
      BY <2>1 DEF RefreshStrong, GateHeld
    <3> QED
      BY <2>2, <3>1 DEF Put
  <2>4. IRTypeOK' /\ CopiesTyped'
    BY <2>1, <2>3 DEF RefreshStrong, IRTypeOK, CopiesTyped, catalogVars, viewVars
  <2>5. BreakerHidesServer'
    BY <2>1, <2>3 DEF RefreshStrong, BreakerHidesServer
  <2>6. GateHeld'
    BY <2>1, <2>2, <2>3 DEF RefreshStrong, GateHeld
  <2>7. SnapshotFollows'
    BY <2>1, <2>3 DEF RefreshStrong, SnapshotFollows, catalogVars, viewVars
  <2> QED
    BY <2>4, <2>5, <2>6, <2>7 DEF RefreshStrong
<1> QED
  BY <1>1, <1>2, <1>3

\* A result is taken.
LEMMA ResultTaken ==
  ASSUME RefreshStrong, NEW p \in Refreshers, NEW s \in Servers, ApplyResult(p, s)
  PROVE  RefreshStrong'
<1> USE IndexRefreshAssumption
<1>1. /\ rpc[p] = "fetch" /\ s \in DOMAIN fetched
      /\ UNCHANGED <<offer, catalogVars, unsupported, viewVars, gate, todo, rpc, copied>>
      /\ FailureStep(s) \/ BreakerStep(s) \/ SkipStep(s) \/ SuccessStep(s)
  BY DEF ApplyResult
<1>2. fetched' = Put(fetched, s, Open) \/ fetched' = Drop(fetched, {s})
  BY <1>1 DEF FailureStep, BreakerStep, SkipStep, SuccessStep
<1>3. /\ DOMAIN fetched' \subseteq DOMAIN fetched
      /\ \A x \in DOMAIN fetched \ {s} : x \in DOMAIN fetched' /\ fetched'[x] = fetched[x]
      /\ \A x \in DOMAIN fetched' : fetched'[x] \in {fetched[x], Open}
  <2>1. CASE fetched' = Put(fetched, s, Open)
    <3>1. /\ DOMAIN fetched' = DOMAIN fetched
          /\ fetched'[s] = Open /\ \A x \in DOMAIN fetched \ {s} : fetched'[x] = fetched[x]
      BY <1>1, <2>1 DEF Put
    <3> QED
      BY <3>1
  <2>2. CASE fetched' = Drop(fetched, {s})
    <3>1. /\ DOMAIN fetched' = DOMAIN fetched \ {s}
          /\ \A x \in DOMAIN fetched \ {s} : fetched'[x] = fetched[x]
      BY <2>2 DEF Drop
    <3> QED
      BY <3>1
  <2> QED
    BY <1>2, <2>1, <2>2
<1>4. GateHeld'
  <2>1. changed' => \E q \in Refreshers : rpc'[q] = "fetch"
    BY <1>1
  <2> QED
    BY <1>1, <1>3, <2>1 DEF RefreshStrong, GateHeld
<1>5. /\ failures' \in [Servers -> 0..FailureThreshold] /\ changed' \in BOOLEAN
      /\ \A x \in Servers \ {s} : failures'[x] = failures[x]
      /\ DOMAIN serverCache' \subseteq DOMAIN serverCache \cup {s}
      /\ \A x \in DOMAIN serverCache \ {s} : x \in DOMAIN serverCache' /\ serverCache'[x] = serverCache[x]
      /\ s \in DOMAIN serverCache' => serverCache'[s] \in 0..MaxOffer
      /\ changed' \/ serverCache' = serverCache
      /\ changed => changed'
      /\ failures'[s] >= FailureThreshold => s \notin DOMAIN serverCache'
           \/ (s \in DOMAIN fetched' /\ fetched'[s] = Open)
  <2>1. CASE FailureStep(s)
    <3>1. /\ serverCache' = serverCache /\ changed' = changed
          /\ failures' = [failures EXCEPT ![s] = IF failures[s] < FailureThreshold
               THEN failures[s] + 1 ELSE failures[s]]
          /\ failures'[s] >= FailureThreshold => fetched' = Put(fetched, s, Open)
      BY <2>1 DEF FailureStep, RefreshStrong, IRTypeOK
    <3>2. failures' \in [Servers -> 0..FailureThreshold]
            /\ \A x \in Servers \ {s} : failures'[x] = failures[x]
      BY <3>1 DEF RefreshStrong, IRTypeOK
    <3> QED
      BY <1>1, <3>1, <3>2 DEF RefreshStrong, IRTypeOK, Put
  <2>2. CASE BreakerStep(s)
    BY <2>2 DEF BreakerStep, RefreshStrong, IRTypeOK, Drop
  <2>3. CASE SkipStep(s)
    <3>1. fetched[s] = Skip /\ UNCHANGED <<serverCache, failures, changed>>
      BY <2>3 DEF SkipStep
    <3>2. failures[s] >= FailureThreshold => s \notin DOMAIN serverCache
      BY <3>1 DEF RefreshStrong, BreakerHidesServer, Skip, Open
    <3> QED
      BY <3>1, <3>2 DEF RefreshStrong, IRTypeOK
  <2>4. CASE SuccessStep(s)
    <3>1. /\ fetched[s] >= 0 /\ failures' = [failures EXCEPT ![s] = 0]
          /\ serverCache' \in {serverCache, Put(serverCache, s, fetched[s])}
          /\ changed' \/ serverCache' = serverCache
          /\ changed' \in BOOLEAN /\ (changed => changed')
      BY <2>4 DEF SuccessStep, RefreshStrong, IRTypeOK
    <3>2. fetched[s] \in 0..MaxOffer
      BY <1>1, <3>1 DEF RefreshStrong, GateHeld, Fail, Skip, Open
    <3>3. failures' \in [Servers -> 0..FailureThreshold]
            /\ \A x \in Servers \ {s} : failures'[x] = failures[x]
      BY <3>1 DEF RefreshStrong, IRTypeOK
    <3>4. failures'[s] = 0
      BY <3>1 DEF RefreshStrong, IRTypeOK
    <3> QED
      BY <1>1, <3>1, <3>2, <3>3, <3>4 DEF RefreshStrong, IRTypeOK, Put
  <2> QED
    BY <1>1, <2>1, <2>2, <2>3, <2>4
<1>6. IRTypeOK'
  BY <1>1, <1>3, <1>5 DEF RefreshStrong, IRTypeOK, catalogVars, viewVars
<1>7. BreakerHidesServer'
  BY <1>1, <1>3, <1>5 DEF RefreshStrong, BreakerHidesServer
<1>8. SnapshotFollows'
  <2>1. UNCHANGED <<raced, snapshot, rpc, copied, indexSpecs, todo>>
    BY <1>1 DEF viewVars, catalogVars
  <2>2. s \in indexSpecs \/ raced
    BY <1>1 DEF RefreshStrong, SnapshotFollows
  <2> QED
    BY <1>3, <1>5, <2>1, <2>2 DEF RefreshStrong, SnapshotFollows
<1>9. CopiesTyped'
  BY <1>1 DEF RefreshStrong, CopiesTyped
<1> QED
  BY <1>4, <1>6, <1>7, <1>8, <1>9 DEF RefreshStrong

\* The results are at their end.
LEMMA ResultsTaken ==
  ASSUME RefreshStrong, NEW p \in Refreshers, ResultsEnd(p)
  PROVE  RefreshStrong'
<1> USE IndexRefreshAssumption
<1>1. /\ rpc[p] = "fetch" /\ todo = {} /\ fetched = << >> /\ changed' = FALSE
      /\ UNCHANGED <<offer, catalogVars, cacheVars, viewVars, todo, fetched, copied>>
      /\ \/ changed /\ rpc' = [rpc EXCEPT ![p] = "copy"] /\ gate' = gate
         \/ ~changed /\ rpc' = [rpc EXCEPT ![p] = "idle"] /\ gate' = NoRunner
  BY DEF ResultsEnd, RGoto
<1>2. IRTypeOK' /\ BreakerHidesServer' /\ CopiesTyped'
  BY <1>1 DEF RefreshStrong, IRTypeOK, BreakerHidesServer, CopiesTyped, catalogVars, cacheVars, viewVars
<1>3. GateHeld'
  BY <1>1, EmptyIsEmpty DEF RefreshStrong, GateHeld, Refreshing, Rebuilding, Rebuilders
<1>4. SnapshotFollows'
  <2>1. \A q \in Rebuilders : rpc[q] \in Rebuilding => rpc'[q] = rpc[q]
    BY <1>1 DEF RefreshStrong, GateHeld, Rebuilding
  <2>2. changed => rpc'[p] = "copy" /\ p \in Rebuilders
    BY <1>1 DEF RefreshStrong, GateHeld, Rebuilders
  <2> QED
    BY <1>1, <2>1, <2>2 DEF RefreshStrong, SnapshotFollows, Rebuilding, catalogVars, cacheVars, viewVars
<1> QED
  BY <1>2, <1>3, <1>4 DEF RefreshStrong

\* The snapshot is rebuilt.
LEMMA RebuildSteps ==
  ASSUME RefreshStrong, NEW p \in Rebuilders, RebuildStep(p)
  PROVE  RefreshStrong'
<1> USE IndexRefreshAssumption
<1>1. /\ UNCHANGED <<offer, catalogVars, cacheVars, todo, fetched, changed>>
      /\ raced => raced'
      /\ raced' \in BOOLEAN /\ rpc[p] \in Rebuilding
  BY DEF RebuildStep, CopyServerCache, BuildSnapshot, StoreSnapshot, RefreshStrong, IRTypeOK,
     viewVars, fetchVars,
     Rebuilding
<1>2. PICK l \in {"build", "store", "idle"} :
        /\ rpc' = [rpc EXCEPT ![p] = l]
        /\ gate' = IF l = "idle" /\ gate = p THEN NoRunner ELSE gate
  BY DEF RebuildStep, CopyServerCache, BuildSnapshot, StoreSnapshot, Rebuilt, RGoto, fetchVars
<1>3. IRTypeOK' /\ BreakerHidesServer'
  BY <1>1, <1>2 DEF RefreshStrong, IRTypeOK, BreakerHidesServer, catalogVars, cacheVars
<1>4. GateHeld'
  <2>1. ~changed \/ \E q \in Refreshers : rpc[q] = "fetch" /\ q # p
    BY <1>1 DEF RefreshStrong, GateHeld, Rebuilding
  <2>2. \A q \in Rebuilders : rpc'[q] = IF q = p THEN l ELSE rpc[q]
    BY <1>2 DEF RefreshStrong, GateHeld
  <2>3. rpc' \in [Rebuilders -> {"idle", "gate", "apply"} \cup Refreshing]
          /\ rpc'[Updater] \in {"idle", "apply"} \cup Rebuilding
    BY <1>2 DEF RefreshStrong, GateHeld, Refreshing, Rebuilding, Rebuilders
  <2>4. \A q \in Refreshers : rpc'[q] # "apply" /\ (rpc'[q] \in Refreshing <=> gate' = q)
    BY <1>1, <1>2, <2>2 DEF RefreshStrong, GateHeld, Refreshing, Rebuilding, Rebuilders
  <2>5. (\A q \in Refreshers : rpc'[q] # "fetch") => \A q \in Refreshers : rpc[q] # "fetch"
    BY <1>1, <2>2 DEF Rebuilders, Rebuilding
  <2> QED
    BY <1>1, <2>3, <2>4, <2>5 DEF RefreshStrong, GateHeld
<1>5. CopiesTyped'
  BY DEF RebuildStep, CopyServerCache, BuildSnapshot, StoreSnapshot, Rebuilt, RefreshStrong, CopiesTyped
<1>6. SnapshotFollows'
  <2>1. UNCHANGED <<serverCache, changed, indexSpecs, todo, fetched>>
    BY <1>1 DEF cacheVars, catalogVars
  <2>2. \A q \in Rebuilders \ {p} : rpc'[q] = rpc[q] /\ copied'[q] = copied[q]
    BY <1>2 DEF RefreshStrong, GateHeld, CopiesTyped, RebuildStep, CopyServerCache, BuildSnapshot,
       StoreSnapshot, Rebuilt
  <2>3. CASE CopyServerCache(p)
    <3>1. rpc'[p] = "build" /\ copied'[p] = serverCache' /\ raced' = raced
      BY <1>1, <2>1, <2>3 DEF CopyServerCache, RGoto, RefreshStrong, GateHeld, CopiesTyped, viewVars
    <3> QED
      BY <1>1, <2>1, <3>1 DEF RefreshStrong, SnapshotFollows
  <2>4. CASE BuildSnapshot(p)
    <3>1. UNCHANGED <<snapshot, raced>> /\ rpc[p] = "build"
      BY <2>4 DEF BuildSnapshot, viewVars
    <3>2. CASE copied[p] = snapshot
      BY <2>1, <2>2, <3>1, <3>2 DEF RefreshStrong, SnapshotFollows
    <3>3. CASE copied[p] # snapshot
      <4>1. rpc'[p] = "store" /\ copied' = copied
        BY <2>4, <3>3 DEF BuildSnapshot, RGoto, RefreshStrong, GateHeld
      <4> QED
        BY <2>1, <2>2, <3>1, <4>1 DEF RefreshStrong, SnapshotFollows
    <3> QED
      BY <3>2, <3>3
  <2>5. CASE StoreSnapshot(p)
    BY <2>1, <2>5 DEF StoreSnapshot, RefreshStrong, SnapshotFollows
  <2> QED
    BY <2>3, <2>4, <2>5 DEF RebuildStep
<1> QED
  BY <1>3, <1>4, <1>5, <1>6 DEF RefreshStrong

\* The catalog changes.
LEMMA UpdateSteps ==
  ASSUME RefreshStrong
  PROVE  /\ (\E S \in SUBSET Servers : UpdateSpecs(S)) \/ ApplyRuntimeConfig => RefreshStrong'
         /\ ApplySpecs => RefreshStrong'
<1> USE IndexRefreshAssumption
<1>1. ASSUME (\E S \in SUBSET Servers : UpdateSpecs(S)) \/ ApplyRuntimeConfig PROVE RefreshStrong'
  <2>1. /\ rpc[Updater] = "idle" /\ rpc' = [rpc EXCEPT ![Updater] = "apply"]
        /\ UNCHANGED <<offer, indexSpecs, cancelled, serverCache, failures, viewVars, fetchVars, copied>>
        /\ baseSpecs' \subseteq Servers /\ unsupported' \subseteq Servers
        /\ specUpdates < MaxSpecUpdates /\ specUpdates' = specUpdates + 1
    BY <1>1 DEF UpdateSpecs, ApplyRuntimeConfig, RGoto, cacheVars, RefreshStrong, IRTypeOK
  <2>2. specUpdates' \in 0..MaxSpecUpdates
    BY <2>1 DEF RefreshStrong, IRTypeOK
  <2>3. IRTypeOK' /\ BreakerHidesServer' /\ CopiesTyped'
    BY <2>1, <2>2 DEF RefreshStrong, IRTypeOK, BreakerHidesServer, CopiesTyped, viewVars, fetchVars
  <2>4. \A q \in Rebuilders : rpc'[q] = IF q = Updater THEN "apply" ELSE rpc[q]
    BY <2>1 DEF RefreshStrong, GateHeld
  <2>5. rpc' \in [Rebuilders -> {"idle", "gate", "apply"} \cup Refreshing]
    BY <2>1 DEF RefreshStrong, GateHeld
  <2>6. GateHeld'
    BY <2>1, <2>4, <2>5 DEF RefreshStrong, GateHeld, fetchVars, Rebuilders
  <2>7. SnapshotFollows'
    BY <2>1, <2>4 DEF RefreshStrong, SnapshotFollows, viewVars, fetchVars
  <2> QED
    BY <2>3, <2>6, <2>7 DEF RefreshStrong
<1>2. ASSUME ApplySpecs PROVE RefreshStrong'
  <2> DEFINE gone == DOMAIN serverCache \ baseSpecs
  <2>1. /\ rpc[Updater] = "apply" /\ indexSpecs' = baseSpecs /\ serverCache' = Drop(serverCache, gone)
        /\ failures' = [s \in Servers |-> IF s \in gone THEN 0 ELSE failures[s]]
        /\ raced' = (raced \/ gate # NoRunner) /\ rpc' = [rpc EXCEPT ![Updater] = "copy"]
        /\ UNCHANGED <<offer, baseSpecs, specUpdates, cancelled, unsupported, snapshot, fetchVars, copied>>
    BY <1>2 DEF ApplySpecs, RGoto
  <2>2. /\ DOMAIN serverCache' = DOMAIN serverCache \ gone
        /\ \A s \in DOMAIN serverCache' : serverCache'[s] = serverCache[s]
    BY <2>1 DEF Drop
  <2>3. DOMAIN serverCache' \subseteq indexSpecs'
    BY <2>1, <2>2
  <2>4. failures' \in [Servers -> 0..FailureThreshold]
    BY <2>1 DEF RefreshStrong, IRTypeOK
  <2>5. IRTypeOK' /\ CopiesTyped'
    BY <2>1, <2>2, <2>4 DEF RefreshStrong, IRTypeOK, CopiesTyped, fetchVars
  <2>6. BreakerHidesServer'
    BY <2>1, <2>2 DEF RefreshStrong, BreakerHidesServer, fetchVars
  <2>7. \A q \in Rebuilders : rpc'[q] = IF q = Updater THEN "copy" ELSE rpc[q]
    BY <2>1 DEF RefreshStrong, GateHeld
  <2>8. rpc' \in [Rebuilders -> {"idle", "gate", "apply"} \cup Refreshing]
    BY <2>1 DEF RefreshStrong, GateHeld, Refreshing
  <2>9. GateHeld'
    BY <2>1, <2>7, <2>8 DEF RefreshStrong, GateHeld, fetchVars, Rebuilders, Rebuilding
  <2>10. ~raced' => todo' = {} /\ DOMAIN fetched' = {}
    BY <2>1 DEF RefreshStrong, GateHeld, fetchVars, Refreshing
  <2>11. Updater \in Rebuilders
    BY DEF Rebuilders
  <2>12. SnapshotFollows'
    BY <2>3, <2>7, <2>10, <2>11 DEF SnapshotFollows
  <2> QED
    BY <2>5, <2>6, <2>9, <2>12 DEF RefreshStrong
<1> QED
  BY <1>1, <1>2

\* All steps.
LEMMA RefreshKept == RefreshStrong /\ [IRNext]_irVars => RefreshStrong'
<1> SUFFICES ASSUME RefreshStrong, [IRNext]_irVars PROVE RefreshStrong'
  OBVIOUS
<1>1. CASE UNCHANGED irVars
  BY <1>1 DEF irVars, catalogVars, cacheVars, viewVars, fetchVars, RefreshStrong, IRTypeOK,
     BreakerHidesServer,
     GateHeld, CopiesTyped, SnapshotFollows
<1>2. ASSUME NEW p \in Refreshers, RefreshStep(p) PROVE RefreshStrong'
  BY <1>2, GateSteps, FetchSteps, ResultTaken, ResultsTaken DEF RefreshStep
<1> QED
  BY <1>1, <1>2, GateSteps, RebuildSteps, UpdateSteps DEF IRNext

\* The invariant that TLC checks.
LEMMA RefreshHolds == RefreshStrong => RefreshInv
<1> SUFFICES ASSUME RefreshStrong PROVE RefreshInv
  OBVIOUS
<1>1. QuietAgreesUnlessRaced
  <2> SUFFICES ASSUME ~raced, \A p \in Rebuilders : rpc[p] \in {"idle", "gate"}
               PROVE  snapshot = serverCache /\ DOMAIN snapshot \subseteq indexSpecs
    BY DEF QuietAgreesUnlessRaced
  <2>1. ~changed
    BY DEF RefreshStrong, GateHeld, Rebuilders
  <2> QED
    BY <2>1 DEF RefreshStrong, SnapshotFollows
<1> QED
  BY <1>1 DEF RefreshStrong, RefreshInv

--------------------------------------------------------------------------------
(* The loops of an index.                                                  *)

\* Where a goroutine can stand.
Places == {"unused", "idle", "start", "gate", "refresh", "ticker", "listen", "done", "wait",
           "apply", "after", "restart", "clear"}

\* Stop channels are closed in their order: one that is open is the field's.
OpenStop ==
  /\ started => stop = closes + 1
  /\ \A p \in Starters : startStop[p] \in 0..(closes + 1) /\ (startStop[p] > closes => stop = closes + 1)
  /\ \A l \in LiveLoops : stop = closes + 1

\* The loop that lives is the one whose ticker the index has.
LiveTicks == \A l \in LiveLoops : ticker = l

\* There is a listener for every start at most.
ListenersCounted ==
  listeners <= updates + (IF lpc["boot"] = "done" THEN 1 ELSE 0) - (IF lpc["update"] = "idle" THEN 0 ELSE 1)

LoopsTyped ==
  /\ lpc \in [Runners -> Places] /\ startStop \in [Starters -> Nat] /\ closes \in Nat /\ listeners \in Nat
  /\ lpc["boot"] \in {"idle", "start", "gate", "refresh", "ticker", "listen", "done"}
  /\ \A l \in Loops : lpc[l] \in {"unused", "wait", "gate", "refresh"}

LifecycleStrong == ILTypeOK /\ LoopsTyped /\ OpenStop /\ LiveTicks /\ ListenersCounted

\* Who can run a start or a stop of an index.
LEMMA RunnersAre ==
  /\ "boot" \in Runners /\ "update" \in Runners /\ "listen" \in Runners /\ "halt" \in Runners
  /\ Loops \subseteq Runners /\ Starters \subseteq Runners
  /\ {"boot", "update", "listen", "halt"} \cap Loops = {}
  /\ "boot" \in Starters /\ "update" \in Starters /\ Starters \cap Loops = {}
BY IndexLifecycleAssumption DEF Runners, Starters

\* The first state.
LEMMA LifecycleInit == ILInit => LifecycleStrong
<1> SUFFICES ASSUME ILInit PROVE LifecycleStrong
  OBVIOUS
<1> USE IndexLifecycleAssumption, RunnersAre DEF ILInit
<1>1. updates \in 0..MaxUpdates /\ listeners \in 0..(MaxUpdates + 1)
        /\ loopStop \in [Loops -> 0..(closes + 1)]
  OBVIOUS
<1>2. ILTypeOK
  <2>1. {baseCfg, prevCfg, indexCfg} \subseteq Configs /\ baseCtx \in {"unset", "live", "cleared"}
    OBVIOUS
  <2>2. stop \in {0, closes + 1}
    OBVIOUS
  <2>a. started \in BOOLEAN /\ ctxDone \in BOOLEAN
    OBVIOUS
  <2>3. ticker \in Loops \cup {NoLoop} /\ refreshing \in Runners \cup {NoLoop}
    OBVIOUS
  <2> QED
    BY <1>1, <2>1, <2>2, <2>a, <2>3 DEF ILTypeOK
<1>3. LoopsTyped
  <2>1. \A p \in Runners : lpc[p] \in Places /\ (p \in Loops => lpc[p] = "unused")
          /\ (p \notin Loops => lpc[p] = "idle")
    BY DEF Places
  <2> QED
    BY <2>1 DEF LoopsTyped, Places
<1>4. \A l \in Loops : l \notin LiveLoops
  BY DEF LiveLoops
<1>5. OpenStop /\ LiveTicks /\ ListenersCounted
  BY <1>4 DEF OpenStop, LiveTicks, ListenersCounted, LiveLoops
<1> QED
  BY <1>2, <1>3, <1>5 DEF LifecycleStrong

\* Steps that leave the loops, the tickers and the stop channels as they are.
Apart == UNCHANGED <<started, ticker, stop, closes, loopStop, startStop>>

\* Where one goroutine goes from one place to another and no loop begins or ends.
LEMMA Moves ==
  ASSUME LifecycleStrong, NEW p \in Runners, NEW to \in Places, lpc' = [lpc EXCEPT ![p] = to],
         p \in Loops => lpc[p] # "unused" /\ to \in {"wait", "gate", "refresh"},
         p = "boot" => to \in {"start", "gate", "refresh", "ticker", "listen", "done"}
  PROVE  /\ \A q \in Runners : lpc'[q] = IF q = p THEN to ELSE lpc[q]
         /\ lpc' \in [Runners -> Places]
         /\ lpc'["boot"] \in {"idle", "start", "gate", "refresh", "ticker", "listen", "done"}
         /\ \A l \in Loops : lpc'[l] \in {"unused", "wait", "gate", "refresh"}
         /\ \A l \in Loops : lpc'[l] = "unused" <=> lpc[l] = "unused"
<1>1. \A q \in Runners : lpc'[q] = IF q = p THEN to ELSE lpc[q]
  BY DEF LifecycleStrong, LoopsTyped
<1>2. lpc' \in [Runners -> Places]
  BY DEF LifecycleStrong, LoopsTyped
<1> QED
  BY <1>1, <1>2, RunnersAre DEF LifecycleStrong, LoopsTyped

\* The refreshes, the loops' ticks, and what the base index does beside starting and
\* stopping.
LEMMA PlainSteps ==
  ASSUME LifecycleStrong
  PROVE  /\ \A p \in Runners : RunnerStep(p) => LifecycleStrong'
         /\ \A l \in Loops : LoopTick(l) => LifecycleStrong'
         /\ \A c \in Configs : UpdateConfig(c) => LifecycleStrong'
         /\ ApplyConfig \/ AfterUpdate \/ BaseStart \/ ListChange \/ CancelContext \/ ClearContext
            => LifecycleStrong'
<1> USE IndexLifecycleAssumption, RunnersAre
<1>1. ASSUME NEW p \in Runners, NEW to \in Places, lpc' = [lpc EXCEPT ![p] = to], Apart,
             p \in Loops => lpc[p] # "unused" /\ to \in {"wait", "gate", "refresh"},
             p = "boot" => lpc[p] # "done" /\ to \in {"start", "gate", "refresh", "ticker", "listen"},
             listeners' = listeners, updates' = updates,
             p = "update" => lpc[p] # "idle", ILTypeOK'
      PROVE  LifecycleStrong'
  <2>1. /\ \A q \in Runners : lpc'[q] = IF q = p THEN to ELSE lpc[q]
        /\ lpc' \in [Runners -> Places]
        /\ lpc'["boot"] \in {"idle", "start", "gate", "refresh", "ticker", "listen", "done"}
        /\ \A l \in Loops : lpc'[l] \in {"unused", "wait", "gate", "refresh"}
        /\ \A l \in Loops : lpc'[l] = "unused" <=> lpc[l] = "unused"
    BY <1>1, Moves
  <2>2. LoopsTyped'
    BY <1>1, <2>1 DEF LifecycleStrong, LoopsTyped, Apart
  <2>3. LiveLoops' = LiveLoops
    BY <1>1, <2>1 DEF LiveLoops, Apart
  <2>4. OpenStop' /\ LiveTicks'
    BY <1>1, <2>3 DEF LifecycleStrong, OpenStop, LiveTicks, Apart
  <2>5. ListenersCounted'
    <3>1. /\ lpc'["boot"] = "done" <=> lpc["boot"] = "done"
          /\ lpc'["update"] # "idle" => lpc["update"] # "idle"
      BY <1>1, <2>1
    <3> QED
      BY <1>1, <3>1 DEF LifecycleStrong, ListenersCounted, LoopsTyped, ILTypeOK
  <2> QED
    BY <1>1, <2>2, <2>4, <2>5 DEF LifecycleStrong
<1>2. ASSUME NEW p \in Runners, RunnerStep(p) PROVE LifecycleStrong'
  <2>1. PICK to \in {"refresh", AfterRefresh(p)} : lpc' = [lpc EXCEPT ![p] = to]
    BY <1>2 DEF RunnerStep, TakeGate, GiveUpGate, RefreshEnds, LGoto
  <2>2. AfterRefresh(p) \in {"idle", "wait", "ticker"} /\ (p \in Loops => AfterRefresh(p) = "wait")
        /\ (p = "boot" => AfterRefresh(p) = "ticker")
    BY DEF AfterRefresh
  <2>3. /\ lpc[p] \in {"gate", "refresh"} /\ UNCHANGED <<baseVars, ctxDone, coreVars, listeners, startVars>>
        /\ refreshing' \in Runners \cup {NoLoop}
    BY <1>2 DEF RunnerStep, TakeGate, GiveUpGate, RefreshEnds, LifecycleStrong, ILTypeOK
  <2>4. Apart /\ listeners' = listeners /\ updates' = updates
    BY <2>3 DEF Apart, baseVars, coreVars, startVars
  <2>5. ILTypeOK'
    BY <2>3 DEF LifecycleStrong, ILTypeOK, baseVars, coreVars
  <2>6. to \in Places /\ (p \in Loops => to \in {"wait", "refresh"})
          /\ (p = "boot" => to \in {"refresh", "ticker"})
    BY <2>2 DEF Places
  <2> QED
    BY <1>1, <2>1, <2>3, <2>4, <2>5, <2>6
<1>3. ASSUME NEW l \in Loops, LoopTick(l) PROVE LifecycleStrong'
  <2>1. /\ lpc[l] = "wait" /\ lpc' = [lpc EXCEPT ![l] = "gate"] /\ l \in Runners
        /\ UNCHANGED <<baseVars, ctxDone, coreVars, listeners, refreshing, startVars>>
    BY <1>3 DEF LoopTick, LGoto
  <2>2. Apart /\ listeners' = listeners /\ updates' = updates /\ "gate" \in Places
    BY <2>1 DEF Apart, baseVars, coreVars, startVars, Places
  <2>3. ILTypeOK'
    BY <2>1 DEF LifecycleStrong, ILTypeOK, baseVars, coreVars
  <2> QED
    BY <1>1, <2>1, <2>2, <2>3
<1>4. ASSUME NEW c \in Configs, UpdateConfig(c) PROVE LifecycleStrong'
  <2>1. /\ lpc["update"] = "idle" /\ updates < MaxUpdates /\ updates' = updates + 1
        /\ prevCfg' = baseCfg /\ baseCfg' = c /\ lpc' = [lpc EXCEPT !["update"] = "apply"]
        /\ UNCHANGED <<baseCtx, ctxDone, coreVars, listeners, refreshing, startVars>>
    BY <1>4 DEF UpdateConfig, LGoto
  <2>2. /\ \A q \in Runners : lpc'[q] = IF q = "update" THEN "apply" ELSE lpc[q]
        /\ lpc' \in [Runners -> Places]
        /\ lpc'["boot"] \in {"idle", "start", "gate", "refresh", "ticker", "listen", "done"}
        /\ \A l \in Loops : lpc'[l] \in {"unused", "wait", "gate", "refresh"}
        /\ \A l \in Loops : lpc'[l] = "unused" <=> lpc[l] = "unused"
    <3>1. "apply" \in Places
      BY DEF Places
    <3> QED
      BY <2>1, <3>1, Moves
  <2>3. updates' \in 0..MaxUpdates
    BY <2>1 DEF LifecycleStrong, ILTypeOK
  <2>4. ILTypeOK'
    BY <2>1, <2>3 DEF LifecycleStrong, ILTypeOK, coreVars
  <2>5. LoopsTyped'
    BY <2>1, <2>2 DEF LifecycleStrong, LoopsTyped, coreVars, startVars
  <2>6. LiveLoops' = LiveLoops
    BY <2>1, <2>2 DEF LiveLoops, coreVars
  <2>7. OpenStop' /\ LiveTicks'
    BY <2>1, <2>6 DEF LifecycleStrong, OpenStop, LiveTicks, coreVars, startVars
  <2>8. ListenersCounted'
    BY <2>1, <2>2 DEF LifecycleStrong, ListenersCounted, LoopsTyped, ILTypeOK
  <2> QED
    BY <2>4, <2>5, <2>7, <2>8 DEF LifecycleStrong
<1>5. ASSUME ApplyConfig \/ AfterUpdate PROVE LifecycleStrong'
  <2>1. PICK to \in {"after", "idle", "restart", "listen"} : lpc' = [lpc EXCEPT !["update"] = to]
    BY <1>5 DEF ApplyConfig, AfterUpdate, LGoto
  <2>2. /\ lpc["update"] \in {"apply", "after"} /\ indexCfg' \in {indexCfg, baseCfg}
        /\ UNCHANGED <<baseVars, ctxDone, started, ticker, stop, closes, loopStop, listeners,
             refreshing, startVars>>
    BY <1>5 DEF ApplyConfig, AfterUpdate, coreVars
  <2>3. Apart /\ listeners' = listeners /\ updates' = updates /\ to \in Places
    BY <2>2 DEF Apart, baseVars, startVars, Places
  <2>4. ILTypeOK'
    BY <2>2 DEF LifecycleStrong, ILTypeOK, baseVars
  <2> QED
    BY <1>1, <2>1, <2>2, <2>3, <2>4
<1>6. ASSUME BaseStart \/ ListChange \/ ClearContext PROVE LifecycleStrong'
  <2>1. PICK p \in {"boot", "listen", "halt"}, to \in {"start", "gate", "done"} :
          /\ lpc' = [lpc EXCEPT ![p] = to] /\ (p = "boot" => to = "start" /\ lpc[p] = "idle")
    BY <1>6 DEF BaseStart, ListChange, ClearContext, LGoto
  <2>2. /\ baseCtx' \in {baseCtx, "live", "cleared"} /\ ctxDone' \in {ctxDone, TRUE}
        /\ UNCHANGED <<baseCfg, prevCfg, updates, coreVars, listeners, refreshing, startVars>>
    BY <1>6 DEF BaseStart, ListChange, ClearContext, baseVars
  <2>3. Apart /\ listeners' = listeners /\ updates' = updates /\ to \in Places /\ p \in Runners
          /\ p \notin Loops
    BY <2>1, <2>2 DEF Apart, coreVars, startVars, Places
  <2>4. ILTypeOK'
    BY <2>2 DEF LifecycleStrong, ILTypeOK, coreVars
  <2> QED
    BY <1>1, <2>1, <2>3, <2>4
<1>7. ASSUME CancelContext PROVE LifecycleStrong'
  BY <1>7 DEF CancelContext, LifecycleStrong, ILTypeOK, LoopsTyped, OpenStop, LiveTicks,
     ListenersCounted, LiveLoops,
     baseVars, coreVars, startVars
<1> QED
  BY <1>2, <1>3, <1>4, <1>5, <1>6, <1>7

\* An index is stopped, by an update that restarts it or for good.
LEMMA StopHolds == LifecycleStrong /\ (Restart \/ BaseStop) => LifecycleStrong'
<1> SUFFICES ASSUME LifecycleStrong, Restart \/ BaseStop PROVE LifecycleStrong'
  OBVIOUS
<1> USE IndexLifecycleAssumption, RunnersAre
<1>1. PICK p \in {"update", "halt"}, to \in {"start", "clear"} :
        /\ lpc' = [lpc EXCEPT ![p] = to] /\ (p = "update" => lpc[p] = "restart")
  BY DEF Restart, BaseStop, LGoto
<1>2. /\ ticker' = NoLoop /\ closes' = IF stop = 0 THEN closes ELSE closes + 1
      /\ stop' = 0 /\ started' = FALSE /\ UNCHANGED <<indexCfg, loopStop>>
      /\ UNCHANGED <<baseVars, ctxDone, listeners, refreshing, startVars>>
  BY DEF Restart, BaseStop, StopSection
<1>3. /\ \A q \in Runners : lpc'[q] = IF q = p THEN to ELSE lpc[q]
      /\ lpc' \in [Runners -> Places]
      /\ lpc'["boot"] \in {"idle", "start", "gate", "refresh", "ticker", "listen", "done"}
      /\ \A l \in Loops : lpc'[l] \in {"unused", "wait", "gate", "refresh"}
      /\ \A l \in Loops : lpc'[l] = "unused" <=> lpc[l] = "unused"
  <2>1. to \in Places /\ p \in Runners /\ p \notin Loops /\ p # "boot"
    BY <1>1 DEF Places
  <2> QED
    BY <1>1, <2>1, Moves
<1>4. closes' \in Nat /\ closes' >= closes
  BY <1>2 DEF LifecycleStrong, LoopsTyped
<1>5. loopStop' \in [Loops -> 0..(closes' + 1)]
  BY <1>2, <1>4 DEF LifecycleStrong, LoopsTyped, ILTypeOK
<1>6. ILTypeOK'
  BY <1>2, <1>4, <1>5 DEF LifecycleStrong, LoopsTyped, ILTypeOK, baseVars
<1>7. LoopsTyped'
  BY <1>2, <1>3, <1>4 DEF LifecycleStrong, LoopsTyped, startVars
<1>8. LiveLoops' = {}
  <2> SUFFICES ASSUME NEW l \in Loops, lpc'[l] # "unused", loopStop'[l] > closes'
               PROVE  FALSE
    BY DEF LiveLoops
  <2>1. l \in LiveLoops
    BY <1>2, <1>3, <1>4 DEF LiveLoops, LifecycleStrong, LoopsTyped, ILTypeOK
  <2>2. stop = closes + 1
    BY <2>1 DEF LifecycleStrong, OpenStop
  <2>3. closes' = closes + 1
    BY <1>2, <2>2 DEF LifecycleStrong, LoopsTyped
  <2> QED
    BY <1>2, <2>3 DEF LifecycleStrong, LoopsTyped, ILTypeOK
<1>9. \A q \in Starters : startStop'[q] \in 0..(closes' + 1) /\ ~(startStop'[q] > closes')
  <2> SUFFICES ASSUME NEW q \in Starters
               PROVE  startStop'[q] \in 0..(closes' + 1) /\ ~(startStop'[q] > closes')
    OBVIOUS
  <2>1. startStop[q] \in 0..(closes + 1) /\ (startStop[q] > closes => stop = closes + 1)
          /\ startStop' = startStop
    BY <1>2 DEF LifecycleStrong, OpenStop, startVars
  <2> QED
    BY <1>2, <2>1 DEF LifecycleStrong, LoopsTyped
<1>10. OpenStop' /\ LiveTicks'
  BY <1>2, <1>8, <1>9 DEF OpenStop, LiveTicks
<1>11. ListenersCounted'
  <2>1. /\ lpc'["boot"] = lpc["boot"] /\ (lpc'["update"] # "idle" => lpc["update"] # "idle")
    BY <1>1, <1>3
  <2> QED
    BY <1>2, <2>1 DEF LifecycleStrong, ListenersCounted, LoopsTyped, ILTypeOK, baseVars
<1> QED
  BY <1>6, <1>7, <1>10, <1>11 DEF LifecycleStrong

\* An index is started.
LEMMA StartHolds == ASSUME LifecycleStrong, NEW p \in Starters, StarterStep(p) PROVE LifecycleStrong'
<1> USE IndexLifecycleAssumption, RunnersAre
<1>1. CASE StartBegin(p)
  <2>1. PICK to \in {"gate", "listen"} : lpc' = [lpc EXCEPT ![p] = to]
    BY <1>1 DEF StartBegin, LGoto
  <2>2. /\ lpc[p] = "start"
             /\ UNCHANGED <<baseVars, ctxDone, indexCfg, ticker, closes, loopStop, listeners,
                  refreshing>>
        /\ \/ UNCHANGED <<started, stop, startStop>>
           \/ /\ started' = TRUE /\ stop' = closes + 1
              /\ startStop' = [startStop EXCEPT ![p] = closes + 1]
    BY <1>1 DEF StartBegin, startVars
  <2>3. /\ \A q \in Runners : lpc'[q] = IF q = p THEN to ELSE lpc[q]
        /\ lpc' \in [Runners -> Places]
        /\ lpc'["boot"] \in {"idle", "start", "gate", "refresh", "ticker", "listen", "done"}
        /\ \A l \in Loops : lpc'[l] \in {"unused", "wait", "gate", "refresh"}
        /\ \A l \in Loops : lpc'[l] = "unused" <=> lpc[l] = "unused"
    <3>1. to \in Places /\ p \in Runners /\ p \notin Loops
      BY DEF Places
    <3> QED
      BY <2>1, <3>1, Moves
  <2>4. closes \in Nat
    BY DEF LifecycleStrong, LoopsTyped
  <2>5. ILTypeOK'
    BY <2>2, <2>4 DEF LifecycleStrong, ILTypeOK, baseVars
  <2>6. /\ startStop' \in [Starters -> Nat]
        /\ \A q \in Starters : startStop'[q] \in 0..(closes + 1)
             /\ (startStop'[q] > closes => stop' = closes + 1)
    <3>1. CASE UNCHANGED <<started, stop, startStop>>
      BY <3>1 DEF LifecycleStrong, LoopsTyped, OpenStop
    <3>2. CASE stop' = closes + 1 /\ startStop' = [startStop EXCEPT ![p] = closes + 1]
      BY <2>4, <3>2 DEF LifecycleStrong, LoopsTyped, OpenStop
    <3> QED
      BY <2>2, <3>1, <3>2
  <2>7. LoopsTyped'
    BY <2>2, <2>3, <2>6 DEF LifecycleStrong, LoopsTyped
  <2>8. LiveLoops' = LiveLoops
    BY <2>2, <2>3 DEF LiveLoops
  <2>9. OpenStop' /\ LiveTicks'
    BY <2>2, <2>6, <2>8 DEF LifecycleStrong, OpenStop, LiveTicks
  <2>10. ListenersCounted'
    <3>1. lpc'["boot"] # "done" <=> lpc["boot"] # "done"
      BY <2>2, <2>3
    <3>2. lpc'["update"] # "idle" => lpc["update"] # "idle"
      BY <2>2, <2>3
    <3> QED
      BY <2>2, <3>1, <3>2 DEF LifecycleStrong, ListenersCounted, LoopsTyped, ILTypeOK, baseVars
  <2> QED
    BY <2>5, <2>7, <2>9, <2>10 DEF LifecycleStrong
<1>2. CASE StartTicker(p)
  <2>1. /\ lpc[p] = "ticker"
        /\ UNCHANGED <<baseVars, ctxDone, indexCfg, started, stop, closes, listeners, refreshing, startVars>>
    BY <1>2 DEF StartTicker
  <2>2. ASSUME NEW l \in UnusedLoops, ticker = NoLoop, ticker' = l,
          loopStop' = [loopStop EXCEPT ![l] = startStop[p]],
               lpc' = [lpc EXCEPT ![p] = "listen", ![l] = "wait"]
        PROVE  LifecycleStrong'
    <3>1. l \in Loops /\ l # p /\ lpc[l] = "unused"
      BY <2>2 DEF UnusedLoops
    <3>2. /\ \A q \in Runners : lpc'[q] = IF q = l THEN "wait" ELSE IF q = p THEN "listen" ELSE lpc[q]
          /\ lpc' \in [Runners -> Places]
      BY <2>2, <3>1 DEF LifecycleStrong, LoopsTyped, Places
    <3>3. startStop[p] \in 0..(closes + 1) /\ (startStop[p] > closes => stop = closes + 1)
      BY DEF LifecycleStrong, OpenStop
    <3>4. loopStop' \in [Loops -> 0..(closes + 1)] /\ \A m \in Loops \ {l} : loopStop'[m] = loopStop[m]
      BY <2>2, <3>3 DEF LifecycleStrong, ILTypeOK
    <3>5. ILTypeOK'
      BY <2>1, <2>2, <3>1, <3>4 DEF LifecycleStrong, ILTypeOK, baseVars
    <3>6. LoopsTyped'
      BY <2>1, <3>1, <3>2 DEF LifecycleStrong, LoopsTyped, startVars
    <3>7. LiveLoops = {}
      BY <2>2 DEF LifecycleStrong, LiveTicks, LiveLoops
    <3>8. LiveLoops' \subseteq {l}
      <4> SUFFICES ASSUME NEW m \in Loops, m # l, lpc'[m] # "unused", loopStop'[m] > closes'
                   PROVE  FALSE
        BY DEF LiveLoops
      <4> QED
        BY <2>1, <3>1, <3>2, <3>4, <3>7 DEF LiveLoops
    <3>9. l \in LiveLoops' => stop' = closes' + 1
      BY <2>1, <2>2, <3>1, <3>3 DEF LiveLoops, LifecycleStrong, ILTypeOK
    <3>10. OpenStop' /\ LiveTicks'
      BY <2>1, <2>2, <3>8, <3>9 DEF LifecycleStrong, OpenStop, LiveTicks, startVars
    <3>11. ListenersCounted'
      <4>1. /\ lpc'["boot"] # "done" <=> lpc["boot"] # "done"
            /\ lpc'["update"] # "idle" => lpc["update"] # "idle"
        BY <2>1, <3>1, <3>2
      <4> QED
        BY <2>1, <4>1 DEF LifecycleStrong, ListenersCounted, LoopsTyped, ILTypeOK, baseVars
    <3> QED
      BY <3>5, <3>6, <3>10, <3>11 DEF LifecycleStrong
  <2>3. ASSUME lpc' = [lpc EXCEPT ![p] = "listen"], UNCHANGED <<ticker, loopStop>>
        PROVE  LifecycleStrong'
    <3>1. Apart /\ ILTypeOK' /\ "listen" \in Places /\ p \in Runners /\ p \notin Loops
      BY <2>1, <2>3 DEF Apart, LifecycleStrong, ILTypeOK, baseVars, startVars, Places
    <3>2. /\ \A q \in Runners : lpc'[q] = IF q = p THEN "listen" ELSE lpc[q]
          /\ lpc' \in [Runners -> Places]
          /\ lpc'["boot"] \in {"idle", "start", "gate", "refresh", "ticker", "listen", "done"}
          /\ \A l \in Loops : lpc'[l] \in {"unused", "wait", "gate", "refresh"}
          /\ \A l \in Loops : lpc'[l] = "unused" <=> lpc[l] = "unused"
      BY <2>3, <3>1, Moves
    <3>3. LoopsTyped'
      BY <2>1, <3>2 DEF LifecycleStrong, LoopsTyped, startVars
    <3>4. LiveLoops' = LiveLoops
      BY <2>1, <2>3, <3>2 DEF LiveLoops
    <3>5. OpenStop' /\ LiveTicks'
      BY <2>1, <2>3, <3>4 DEF LifecycleStrong, OpenStop, LiveTicks, startVars
    <3>6. ListenersCounted'
      <4>1. /\ lpc'["boot"] # "done" <=> lpc["boot"] # "done"
            /\ lpc'["update"] # "idle" => lpc["update"] # "idle"
        BY <2>1, <3>2
      <4> QED
        BY <2>1, <4>1 DEF LifecycleStrong, ListenersCounted, LoopsTyped, ILTypeOK, baseVars
    <3> QED
      BY <3>1, <3>3, <3>5, <3>6 DEF LifecycleStrong
  <2> QED
    BY <1>2, <2>2, <2>3 DEF StartTicker, LGoto
<1>3. CASE StartListener(p)
  <2>1. PICK to \in {"done", "idle"} :
          lpc' = [lpc EXCEPT ![p] = to] /\ (p = "boot" => to = "done") /\ (p = "update" => to = "idle")
    BY <1>3 DEF StartListener, LGoto
  <2>2. /\ lpc[p] = "listen" /\ listeners' \in {listeners, listeners + 1}
        /\ startStop' = [startStop EXCEPT ![p] = 0] /\ UNCHANGED <<baseVars, ctxDone, coreVars, refreshing>>
    BY <1>3 DEF StartListener
  <2>3. /\ \A q \in Runners : lpc'[q] = IF q = p THEN to ELSE lpc[q]
        /\ lpc' \in [Runners -> Places]
        /\ lpc'["boot"] \in {"idle", "start", "gate", "refresh", "ticker", "listen", "done"}
        /\ \A l \in Loops : lpc'[l] \in {"unused", "wait", "gate", "refresh"}
        /\ \A l \in Loops : lpc'[l] = "unused" <=> lpc[l] = "unused"
    <3>1. to \in Places /\ p \in Runners /\ p \notin Loops
      BY DEF Places
    <3> QED
      BY <2>1, <3>1, Moves
  <2>4. ListenersCounted'
    <3>1. p = "boot" \/ p = "update"
      BY DEF Starters
    <3>2. CASE p = "boot"
      <4>1. lpc["boot"] = "listen" /\ lpc'["boot"] = "done" /\ lpc'["update"] = lpc["update"]
        BY <2>1, <2>2, <2>3, <3>2
      <4> QED
        BY <2>2, <4>1 DEF LifecycleStrong, ListenersCounted, LoopsTyped, ILTypeOK, baseVars
    <3>3. CASE p = "update"
      <4>1. lpc["update"] = "listen" /\ lpc'["update"] = "idle" /\ lpc'["boot"] = lpc["boot"]
        BY <2>1, <2>2, <2>3, <3>3
      <4> QED
        BY <2>2, <4>1 DEF LifecycleStrong, ListenersCounted, LoopsTyped, ILTypeOK, baseVars
    <3> QED
      BY <3>1, <3>2, <3>3
  <2>5. listeners' \in 0..(MaxUpdates + 1) /\ listeners' \in Nat
    BY <2>2, <2>4 DEF LifecycleStrong, ListenersCounted, LoopsTyped, ILTypeOK, baseVars
  <2>6. ILTypeOK'
    BY <2>2, <2>5 DEF LifecycleStrong, ILTypeOK, baseVars, coreVars
  <2>7. startStop' \in [Starters -> Nat] /\ \A q \in Starters : startStop'[q] \in {startStop[q], 0}
    BY <2>2 DEF LifecycleStrong, LoopsTyped
  <2>8. LoopsTyped'
    BY <2>2, <2>3, <2>5, <2>7 DEF LifecycleStrong, LoopsTyped, coreVars
  <2>9. LiveLoops' = LiveLoops
    BY <2>2, <2>3 DEF LiveLoops, coreVars
  <2>10. OpenStop' /\ LiveTicks'
    BY <2>2, <2>7, <2>9 DEF LifecycleStrong, OpenStop, LiveTicks, LoopsTyped, coreVars
  <2> QED
    BY <2>4, <2>6, <2>8, <2>10 DEF LifecycleStrong
<1> QED
  BY <1>1, <1>2, <1>3 DEF StarterStep

\* A loop ends.
LEMMA ExitHolds == ASSUME LifecycleStrong, NEW l \in Loops, LoopExit(l) PROVE LifecycleStrong'
<1> USE IndexLifecycleAssumption, RunnersAre
<1>1. /\ lpc[l] = "wait" /\ lpc' = [lpc EXCEPT ![l] = "unused"] /\ loopStop' = [loopStop EXCEPT ![l] = 0]
      /\ UNCHANGED <<baseVars, ctxDone, indexCfg, started, ticker, stop, closes, listeners,
           refreshing, startVars>>
  BY DEF LoopExit, LGoto
<1>2. /\ \A q \in Runners : lpc'[q] = IF q = l THEN "unused" ELSE lpc[q]
      /\ lpc' \in [Runners -> Places]
  BY <1>1 DEF LifecycleStrong, LoopsTyped, Places
<1>3. ILTypeOK'
  BY <1>1 DEF LifecycleStrong, LoopsTyped, ILTypeOK, baseVars
<1>4. LoopsTyped'
  BY <1>1, <1>2 DEF LifecycleStrong, LoopsTyped, startVars
<1>5. LiveLoops' \subseteq LiveLoops
  BY <1>1, <1>2 DEF LiveLoops, LifecycleStrong, ILTypeOK
<1>6. OpenStop' /\ LiveTicks'
  BY <1>1, <1>5 DEF LifecycleStrong, OpenStop, LiveTicks, startVars
<1>7. ListenersCounted'
  <2>1. lpc'["boot"] = lpc["boot"] /\ lpc'["update"] = lpc["update"]
    BY <1>2
  <2> QED
    BY <1>1, <2>1 DEF LifecycleStrong, ListenersCounted, baseVars
<1> QED
  BY <1>3, <1>4, <1>6, <1>7 DEF LifecycleStrong

\* All steps.
LEMMA LifecycleStep == LifecycleStrong /\ [ILNext]_ilVars => LifecycleStrong'
<1> SUFFICES ASSUME LifecycleStrong, [ILNext]_ilVars PROVE LifecycleStrong'
  OBVIOUS
<1>1. CASE UNCHANGED ilVars
  BY <1>1 DEF ilVars, LifecycleStrong, ILTypeOK, LoopsTyped, OpenStop, LiveTicks, ListenersCounted, LiveLoops,
     baseVars, coreVars, startVars
<1> QED
  BY <1>1, PlainSteps, StopHolds, StartHolds, ExitHolds DEF ILNext, UpdateStep

\* The invariant that TLC checks.
LEMMA LifecycleHolds == LifecycleStrong => LifecycleInv
BY DEF LifecycleStrong, LifecycleInv, LiveTicks, OneLiveLoop

--------------------------------------------------------------------------------
(* The watch of statuses.                                                  *)

Snapshots == [Keys -> StatusStates] \cup {NothingYet}
Views == (SUBSET Keys) \cup {Gone}

\* The servers, the flags, and where the goroutines are.
ServersTyped ==
  statuses \in [Keys -> StatusStates] /\ bootErrors \subseteq Keys /\ changes \in 0..MaxStatusChanges
GoroutinesTyped ==
  /\ workerAt \in {"idle", "send"} /\ subAt \in {"none", "look", "watch", "loop", "done"}
  /\ events \in 0..MaxViews /\ views \in 0..MaxViews /\ events <= views /\ view \in Views
FlagsTyped == {filtered, listed, updatesClosed, outClosed, ended, late, lostUpdate, lostOut} \subseteq BOOLEAN

\* The snapshots, and what the channels hold of them.
SnapsTyped == snaps \in Seq(Snapshots) /\ Current \in Nat \ {0}
ChannelsTyped ==
  /\ looked \in 0..Current /\ last \in 0..Current
  /\ updatesCh = << >> \/ \E n \in 0..Current : updatesCh = <<n>>
  /\ outCh = << >> \/ \E m \in [n : 0..Current, view : Views] : outCh = <<m>>
  /\ shown \in [n : 0..Current, view : Views]

\* What a watch has before its first snapshot.
BeforeLoop ==
  /\ subAt \in {"none", "look"} => updatesCh = << >> /\ ~listed /\ ~updatesClosed
  /\ subAt = "watch" => updatesCh = <<looked>>
  /\ subAt \in {"watch", "loop"} => filtered
  /\ subAt \in {"none", "look", "watch"} \/ ~filtered => outCh = << >> /\ last = 0
  /\ subAt \in {"none", "look", "watch"} => shown.n = 0
  /\ filtered => shown.n <= last \/ late

StatusTyped == ServersTyped /\ GoroutinesTyped /\ FlagsTyped /\ SnapsTyped /\ ChannelsTyped
StatusStrong == StatusTyped /\ BeforeLoop /\ InOrder /\ EachIsNews /\ ListedIsOpen

\* The first state, whatever snapshot is stored.
LEMMA StatusBegins == ASSUME NEW snap \in Snapshots, STStored(snap) PROVE StatusStrong
<1> USE StatusWatchAssumption DEF STStored
<1>1. Len(snaps) = 1 /\ Current = 1 /\ snaps \in Seq(Snapshots)
  BY DEF Current
<1>2. statuses \in [Keys -> StatusStates]
  <2>1. \E s \in StatusStates : s # Failed
    OBVIOUS
  <2> QED
    BY <2>1 DEF FirstStatuses
<1>3. shown = [n |-> 0, view |-> {}] /\ {} \in Views /\ shown.n = 0
  BY DEF NoView, Views
<1>4. ServersTyped
  BY <1>2 DEF ServersTyped
<1>5. GoroutinesTyped
  <2>1. workerAt \in {"idle", "send"} /\ subAt \in {"none", "look", "watch", "loop", "done"}
    OBVIOUS
  <2>2. events \in 0..MaxViews /\ views \in 0..MaxViews /\ events <= views /\ view \in Views
    BY DEF Views
  <2> QED
    BY <2>1, <2>2 DEF GoroutinesTyped
<1>6. FlagsTyped
  BY DEF FlagsTyped
<1>7. SnapsTyped
  BY <1>1 DEF SnapsTyped
<1>8. ChannelsTyped
  <2>1. 0 \in 0..Current
    BY <1>1
  <2> QED
    BY <1>3, <2>1 DEF ChannelsTyped
<1> QED
  BY <1>1, <1>3, <1>4, <1>5, <1>6, <1>7, <1>8
  DEF StatusTyped, StatusStrong, BeforeLoop, InOrder, EachIsNews, ListedIsOpen

\* A step of the watch keeps it.
LEMMA StatusStep == StatusStrong /\ STNext => StatusStrong'
<1> SUFFICES ASSUME StatusStrong, STNext PROVE StatusStrong'
  OBVIOUS
<1> USE StatusWatchAssumption DEF StatusStrong, StatusTyped, pollVars, subscription, currentVars,
      outVars, ghosts
<1>1. CASE ServerChanges
  <2> USE <1>1 DEF ServerChanges
  <2>1. ServersTyped'
    BY DEF ServersTyped
  <2>2. GoroutinesTyped'
    BY DEF GoroutinesTyped, Views
  <2>3. FlagsTyped'
    BY DEF FlagsTyped
  <2>4. SnapsTyped'
    BY DEF SnapsTyped, Current
  <2>5. ChannelsTyped'
    BY DEF ChannelsTyped, SnapsTyped, GoroutinesTyped, BeforeLoop, Current, Views
  <2>6. BeforeLoop'
    BY DEF BeforeLoop, ChannelsTyped, SnapsTyped, InOrder, Current
  <2>7. InOrder'
    BY DEF InOrder, BeforeLoop, ChannelsTyped, SnapsTyped, Current
  <2>8. EachIsNews'
    BY DEF EachIsNews, SnapsTyped, Current
  <2>9. ListedIsOpen'
    BY DEF ListedIsOpen, BeforeLoop
  <2> QED
    BY <2>1, <2>2, <2>3, <2>4, <2>5, <2>6, <2>7, <2>8, <2>9
<1>2. CASE Refresh
  <2> USE <1>2 DEF Refresh, pollRest
  <2>1. ServersTyped'
    BY DEF ServersTyped
  <2>2. GoroutinesTyped'
    BY DEF GoroutinesTyped, Views
  <2>3. FlagsTyped'
    BY DEF FlagsTyped
  <2>4. SnapsTyped'
    <3>1. GetServerInitStatus \in Snapshots
      BY DEF GetServerInitStatus, Snapshots, ServersTyped
    <3>2. snaps' = Append(snaps, GetServerInitStatus)
      OBVIOUS
    <3> QED
      BY <3>1, <3>2 DEF SnapsTyped, Current
  <2>5. ChannelsTyped'
    BY DEF ChannelsTyped, SnapsTyped, GoroutinesTyped, BeforeLoop, Current, Views
  <2>6. BeforeLoop'
    BY DEF BeforeLoop, ChannelsTyped, SnapsTyped, InOrder, Current
  <2>7. InOrder'
    BY DEF InOrder, BeforeLoop, ChannelsTyped, SnapsTyped, Current
  <2>8. EachIsNews'
    BY DEF EachIsNews, SnapsTyped, Current
  <2>9. ListedIsOpen'
    BY DEF ListedIsOpen, BeforeLoop
  <2> QED
    BY <2>1, <2>2, <2>3, <2>4, <2>5, <2>6, <2>7, <2>8, <2>9
<1>3. CASE Broadcasts
  <2> USE <1>3 DEF Broadcasts, pollRest
  <2>1. ServersTyped'
    BY DEF ServersTyped
  <2>2. GoroutinesTyped'
    BY DEF GoroutinesTyped, Views
  <2>3. FlagsTyped'
    BY DEF FlagsTyped
  <2>4. SnapsTyped'
    BY DEF SnapsTyped, Current
  <2>5. ChannelsTyped'
    BY DEF ChannelsTyped, SnapsTyped, GoroutinesTyped, BeforeLoop, Current, Views
  <2>6. BeforeLoop'
    BY DEF BeforeLoop, ChannelsTyped, SnapsTyped, InOrder, Current
  <2>7. InOrder'
    BY DEF InOrder, BeforeLoop, ChannelsTyped, SnapsTyped, Current
  <2>8. EachIsNews'
    BY DEF EachIsNews, SnapsTyped, Current
  <2>9. ListedIsOpen'
    BY DEF ListedIsOpen, BeforeLoop
  <2> QED
    BY <2>1, <2>2, <2>3, <2>4, <2>5, <2>6, <2>7, <2>8, <2>9
<1>4. CASE SubscribeLooks
  <2> USE <1>4 DEF SubscribeLooks
  <2>1. ServersTyped'
    BY DEF ServersTyped
  <2>2. GoroutinesTyped'
    BY DEF GoroutinesTyped, Views
  <2>3. FlagsTyped'
    BY DEF FlagsTyped
  <2>4. SnapsTyped'
    BY DEF SnapsTyped, Current
  <2>5. ChannelsTyped'
    BY DEF ChannelsTyped, SnapsTyped, GoroutinesTyped, BeforeLoop, Current, Views
  <2>6. BeforeLoop'
    BY DEF BeforeLoop, ChannelsTyped, SnapsTyped, InOrder, Current
  <2>7. InOrder'
    BY DEF InOrder, BeforeLoop, ChannelsTyped, SnapsTyped, Current
  <2>8. EachIsNews'
    BY DEF EachIsNews, SnapsTyped, Current
  <2>9. ListedIsOpen'
    BY DEF ListedIsOpen, BeforeLoop
  <2> QED
    BY <2>1, <2>2, <2>3, <2>4, <2>5, <2>6, <2>7, <2>8, <2>9
<1>5. CASE SubscribeLists
  <2> USE <1>5 DEF SubscribeLists
  <2>1. ServersTyped'
    BY DEF ServersTyped
  <2>2. GoroutinesTyped'
    BY DEF GoroutinesTyped, Views
  <2>3. FlagsTyped'
    BY DEF FlagsTyped
  <2>4. SnapsTyped'
    BY DEF SnapsTyped, Current
  <2>5. ChannelsTyped'
    BY DEF ChannelsTyped, SnapsTyped, GoroutinesTyped, BeforeLoop, Current, Views
  <2>6. BeforeLoop'
    BY DEF BeforeLoop, ChannelsTyped, SnapsTyped, InOrder, Current
  <2>7. InOrder'
    BY DEF InOrder, BeforeLoop, ChannelsTyped, SnapsTyped, Current
  <2>8. EachIsNews'
    BY DEF EachIsNews, SnapsTyped, Current
  <2>9. ListedIsOpen'
    BY DEF ListedIsOpen, BeforeLoop
  <2> QED
    BY <2>1, <2>2, <2>3, <2>4, <2>5, <2>6, <2>7, <2>8, <2>9
<1>6. CASE SubscriptionCloses
  <2> USE <1>6 DEF SubscriptionCloses
  <2>1. ServersTyped'
    BY DEF ServersTyped
  <2>2. GoroutinesTyped'
    BY DEF GoroutinesTyped, Views
  <2>3. FlagsTyped'
    BY DEF FlagsTyped
  <2>4. SnapsTyped'
    BY DEF SnapsTyped, Current
  <2>5. ChannelsTyped'
    BY DEF ChannelsTyped, SnapsTyped, GoroutinesTyped, BeforeLoop, Current, Views
  <2>6. BeforeLoop'
    BY DEF BeforeLoop, ChannelsTyped, SnapsTyped, InOrder, Current
  <2>7. InOrder'
    BY DEF InOrder, BeforeLoop, ChannelsTyped, SnapsTyped, Current
  <2>8. EachIsNews'
    BY DEF EachIsNews, SnapsTyped, Current
  <2>9. ListedIsOpen'
    BY DEF ListedIsOpen, BeforeLoop
  <2> QED
    BY <2>1, <2>2, <2>3, <2>4, <2>5, <2>6, <2>7, <2>8, <2>9
<1>7. CASE WatchCancelled
  <2> USE <1>7 DEF WatchCancelled
  <2>1. ServersTyped'
    BY DEF ServersTyped
  <2>2. GoroutinesTyped'
    BY DEF GoroutinesTyped, Views
  <2>3. FlagsTyped'
    BY DEF FlagsTyped
  <2>4. SnapsTyped'
    BY DEF SnapsTyped, Current
  <2>5. ChannelsTyped'
    BY DEF ChannelsTyped, SnapsTyped, GoroutinesTyped, BeforeLoop, Current, Views
  <2>6. BeforeLoop'
    BY DEF BeforeLoop, ChannelsTyped, SnapsTyped, InOrder, Current
  <2>7. InOrder'
    BY DEF InOrder, BeforeLoop, ChannelsTyped, SnapsTyped, Current
  <2>8. EachIsNews'
    BY DEF EachIsNews, SnapsTyped, Current
  <2>9. ListedIsOpen'
    BY DEF ListedIsOpen, BeforeLoop
  <2> QED
    BY <2>1, <2>2, <2>3, <2>4, <2>5, <2>6, <2>7, <2>8, <2>9
<1>8. CASE ViewChanges
  <2> USE <1>8 DEF ViewChanges
  <2>1. ServersTyped'
    BY DEF ServersTyped
  <2>2. GoroutinesTyped'
    BY DEF GoroutinesTyped, Views
  <2>3. FlagsTyped'
    BY DEF FlagsTyped
  <2>4. SnapsTyped'
    BY DEF SnapsTyped, Current
  <2>5. ChannelsTyped'
    BY DEF ChannelsTyped, SnapsTyped, GoroutinesTyped, BeforeLoop, Current, Views
  <2>6. BeforeLoop'
    BY DEF BeforeLoop, ChannelsTyped, SnapsTyped, InOrder, Current
  <2>7. InOrder'
    BY DEF InOrder, BeforeLoop, ChannelsTyped, SnapsTyped, Current
  <2>8. EachIsNews'
    BY DEF EachIsNews, SnapsTyped, Current
  <2>9. ListedIsOpen'
    BY DEF ListedIsOpen, BeforeLoop
  <2> QED
    BY <2>1, <2>2, <2>3, <2>4, <2>5, <2>6, <2>7, <2>8, <2>9
<1>9. CASE WatchBegins
  <2> USE <1>9 DEF WatchBegins, watchRest, SendFiltered
  <2>1. ServersTyped'
    BY DEF ServersTyped
  <2>2. GoroutinesTyped'
    BY DEF GoroutinesTyped, Views
  <2>3. FlagsTyped'
    BY DEF FlagsTyped
  <2>4. SnapsTyped'
    BY DEF SnapsTyped, Current
  <2>5. ChannelsTyped'
    BY DEF ChannelsTyped, SnapsTyped, GoroutinesTyped, BeforeLoop, Current, Views
  <2>6. BeforeLoop'
    BY DEF BeforeLoop, ChannelsTyped, SnapsTyped, InOrder, Current
  <2>7. InOrder'
    <3>1. updatesCh' = <<looked>> /\ (~late' => looked = Current) /\ shown' = shown /\ shown.n = 0
            /\ last' = Current
      BY DEF BeforeLoop
    <3>2. outCh' = << >> \/ outCh' = <<[n |-> Current, view |-> view]>>
      BY DEF BeforeLoop
    <3>3. Current \in Nat /\ looked \in 0..Current
      BY DEF SnapsTyped, ChannelsTyped
    <3>4. ~late' => \A i \in DOMAIN updatesCh' : shown'.n <= updatesCh'[i] /\ last' <= updatesCh'[i]
      BY <3>1, <3>3
    <3>5. \A i \in DOMAIN outCh' : shown'.n <= outCh'[i].n /\ outCh'[i].n <= last'
      BY <3>1, <3>2, <3>3
    <3> QED
      BY <3>4, <3>5 DEF InOrder
  <2>8. EachIsNews'
    BY DEF EachIsNews, SnapsTyped, Current
  <2>9. ListedIsOpen'
    BY DEF ListedIsOpen, BeforeLoop
  <2> QED
    BY <2>1, <2>2, <2>3, <2>4, <2>5, <2>6, <2>7, <2>8, <2>9
<1>10. CASE TakesUpdate
  <2> USE <1>10 DEF TakesUpdate, watchRest, SendFiltered
  <2>1. ServersTyped'
    BY DEF ServersTyped
  <2>2. GoroutinesTyped'
    BY DEF GoroutinesTyped, Views
  <2>3. FlagsTyped'
    BY DEF FlagsTyped
  <2>4. SnapsTyped'
    BY DEF SnapsTyped, Current
  <2>5. ChannelsTyped'
    BY DEF ChannelsTyped, SnapsTyped, GoroutinesTyped, BeforeLoop, Current, Views
  <2>6. BeforeLoop'
    BY DEF BeforeLoop, ChannelsTyped, SnapsTyped, InOrder, Current
  <2>7. InOrder'
    BY DEF InOrder, BeforeLoop, ChannelsTyped, SnapsTyped, Current
  <2>8. EachIsNews'
    BY DEF EachIsNews, SnapsTyped, Current
  <2>9. ListedIsOpen'
    BY DEF ListedIsOpen, BeforeLoop
  <2> QED
    BY <2>1, <2>2, <2>3, <2>4, <2>5, <2>6, <2>7, <2>8, <2>9
<1>11. CASE TakesEvent
  <2> USE <1>11 DEF TakesEvent, watchRest, SendFiltered
  <2>1. ServersTyped'
    BY DEF ServersTyped
  <2>2. GoroutinesTyped'
    BY DEF GoroutinesTyped, Views
  <2>3. FlagsTyped'
    BY DEF FlagsTyped
  <2>4. SnapsTyped'
    BY DEF SnapsTyped, Current
  <2>5. ChannelsTyped'
    BY DEF ChannelsTyped, SnapsTyped, GoroutinesTyped, BeforeLoop, Current, Views
  <2>6. BeforeLoop'
    BY DEF BeforeLoop, ChannelsTyped, SnapsTyped, InOrder, Current
  <2>7. InOrder'
    BY DEF InOrder, BeforeLoop, ChannelsTyped, SnapsTyped, Current
  <2>8. EachIsNews'
    BY DEF EachIsNews, SnapsTyped, Current
  <2>9. ListedIsOpen'
    BY DEF ListedIsOpen, BeforeLoop
  <2> QED
    BY <2>1, <2>2, <2>3, <2>4, <2>5, <2>6, <2>7, <2>8, <2>9
<1>12. CASE WatchEnds
  <2> USE <1>12 DEF WatchEnds
  <2>1. ServersTyped'
    BY DEF ServersTyped
  <2>2. GoroutinesTyped'
    BY DEF GoroutinesTyped, Views
  <2>3. FlagsTyped'
    BY DEF FlagsTyped
  <2>4. SnapsTyped'
    BY DEF SnapsTyped, Current
  <2>5. ChannelsTyped'
    BY DEF ChannelsTyped, SnapsTyped, GoroutinesTyped, BeforeLoop, Current, Views
  <2>6. BeforeLoop'
    BY DEF BeforeLoop, ChannelsTyped, SnapsTyped, InOrder, Current
  <2>7. InOrder'
    BY DEF InOrder, BeforeLoop, ChannelsTyped, SnapsTyped, Current
  <2>8. EachIsNews'
    BY DEF EachIsNews, SnapsTyped, Current
  <2>9. ListedIsOpen'
    BY DEF ListedIsOpen, BeforeLoop
  <2> QED
    BY <2>1, <2>2, <2>3, <2>4, <2>5, <2>6, <2>7, <2>8, <2>9
<1>13. CASE Receives
  <2> USE <1>13 DEF Receives
  <2>1. ServersTyped'
    BY DEF ServersTyped
  <2>2. GoroutinesTyped'
    BY DEF GoroutinesTyped, Views
  <2>3. FlagsTyped'
    BY DEF FlagsTyped
  <2>4. SnapsTyped'
    BY DEF SnapsTyped, Current
  <2>5. ChannelsTyped'
    BY DEF ChannelsTyped, SnapsTyped, GoroutinesTyped, BeforeLoop, Current, Views
  <2>6. BeforeLoop'
    BY DEF BeforeLoop, ChannelsTyped, SnapsTyped, InOrder, Current
  <2>7. InOrder'
    BY DEF InOrder, BeforeLoop, ChannelsTyped, SnapsTyped, Current
  <2>8. EachIsNews'
    BY DEF EachIsNews, SnapsTyped, Current
  <2>9. ListedIsOpen'
    BY DEF ListedIsOpen, BeforeLoop
  <2> QED
    BY <2>1, <2>2, <2>3, <2>4, <2>5, <2>6, <2>7, <2>8, <2>9
<1> QED
  BY <1>1, <1>2, <1>3, <1>4, <1>5, <1>6, <1>7, <1>8, <1>9, <1>10, <1>11, <1>12, <1>13 DEF STNext

\* The strong invariant gives the one that is checked.
LEMMA StatusHolds == StatusStrong => StatusInv
<1> SUFFICES ASSUME StatusStrong PROVE StatusInv
  OBVIOUS
<1> USE DEF StatusStrong, StatusTyped
<1>1. Len(updatesCh) <= 1 /\ Len(outCh) <= 1
  <2>1. Len(<< >>) <= 1 /\ \A x : Len(<<x>>) <= 1
    OBVIOUS
  <2> QED
    BY <2>1, Zenon DEF ChannelsTyped
<1>2. {looked, last, shown.n} \subseteq 0..Current
  BY DEF ChannelsTyped
<1>3. STTypeOK
  BY <1>1, <1>2 DEF STTypeOK, ServersTyped, GoroutinesTyped, FlagsTyped, Views
<1> QED
  BY <1>3 DEF StatusInv

--------------------------------------------------------------------------------
(* The log.                                                                *)

Increasing(q) == \A i, j \in DOMAIN q : i < j => q[i] < q[j]
Before(A, B) == \A a \in A, b \in B : a < b

\* What the first of an increasing sequence is to the others.
LEMMA TakeFirst ==
  ASSUME NEW q \in Seq(Nat), q # << >>, Increasing(q)
  PROVE  /\ Tail(q) \in Seq(Nat) /\ Increasing(Tail(q)) /\ Len(Tail(q)) = Len(q) - 1
         /\ Head(q) \in Nat /\ ToSet(q) = {Head(q)} \cup ToSet(Tail(q)) /\ Before({Head(q)}, ToSet(Tail(q)))
<1>1. Len(q) \in Nat \ {0} /\ Head(q) = q[1] /\ DOMAIN q = 1..Len(q)
  OBVIOUS
<1>2. Tail(q) \in Seq(Nat) /\ Len(Tail(q)) = Len(q) - 1 /\ DOMAIN Tail(q) = 1..(Len(q) - 1)
  BY <1>1
<1>3. \A i \in DOMAIN Tail(q) : Tail(q)[i] = q[i + 1] /\ i + 1 \in DOMAIN q
  BY <1>1, <1>2
<1>4. Increasing(Tail(q))
  BY <1>1, <1>2, <1>3 DEF Increasing
<1>5. Before({Head(q)}, ToSet(Tail(q)))
  BY <1>1, <1>2, <1>3 DEF Before, ToSet, Increasing
<1>6. \A i \in DOMAIN q : i = 1 \/ (i - 1 \in DOMAIN Tail(q) /\ q[i] = Tail(q)[i - 1])
  BY <1>1, <1>2, <1>3
<1>7. ToSet(q) = {Head(q)} \cup ToSet(Tail(q))
  <2>1. \A i \in DOMAIN q : q[i] \in {Head(q)} \cup ToSet(Tail(q))
    BY <1>1, <1>6 DEF ToSet
  <2>2. \A i \in DOMAIN Tail(q) : Tail(q)[i] \in ToSet(q)
    BY <1>3 DEF ToSet
  <2>3. Head(q) \in ToSet(q)
    BY <1>1 DEF ToSet
  <2> QED
    BY <2>1, <2>2, <2>3, Zenon DEF ToSet
<1> QED
  BY <1>1, <1>2, <1>4, <1>5, <1>7

\* A later one put at the end of an increasing sequence.
LEMMA PutLast ==
  ASSUME NEW q \in Seq(Nat), NEW x \in Nat, Increasing(q), Before(ToSet(q), {x})
  PROVE  /\ Append(q, x) \in Seq(Nat) /\ Increasing(Append(q, x)) /\ Len(Append(q, x)) = Len(q) + 1
         /\ ToSet(Append(q, x)) = ToSet(q) \cup {x}
<1>1. DOMAIN Append(q, x) = 1..(Len(q) + 1) /\ Append(q, x)[Len(q) + 1] = x /\ Len(q) \in Nat
        /\ DOMAIN q = 1..Len(q)
  OBVIOUS
<1>2. \A i \in DOMAIN q : Append(q, x)[i] = q[i] /\ q[i] \in ToSet(q)
  BY <1>1 DEF ToSet
<1>3. Increasing(Append(q, x))
  BY <1>1, <1>2 DEF Increasing, Before
<1>4. ToSet(Append(q, x)) = ToSet(q) \cup {x}
  BY <1>1, <1>2 DEF ToSet
<1> QED
  BY <1>1, <1>3, <1>4

\* Two increasing sequences, the one before the other.
LEMMA PutTogether ==
  ASSUME NEW p \in Seq(Nat), NEW q \in Seq(Nat), Increasing(p), Increasing(q), Before(ToSet(p), ToSet(q))
  PROVE  p \o q \in Seq(Nat) /\ Increasing(p \o q) /\ ToSet(p \o q) = ToSet(p) \cup ToSet(q)
<1>1. DOMAIN p = 1..Len(p) /\ DOMAIN q = 1..Len(q) /\ Len(p) \in Nat /\ Len(q) \in Nat
  OBVIOUS
<1>2. p \o q \in Seq(Nat) /\ DOMAIN (p \o q) = 1..(Len(p) + Len(q))
  OBVIOUS
<1>3. \A i \in DOMAIN p : (p \o q)[i] = p[i] /\ i \in DOMAIN (p \o q) /\ p[i] \in ToSet(p)
  BY <1>1, <1>2 DEF ToSet
<1>4. \A j \in DOMAIN q : (p \o q)[Len(p) + j] = q[j] /\ Len(p) + j \in DOMAIN (p \o q) /\ q[j] \in ToSet(q)
  BY <1>1, <1>2 DEF ToSet
<1>5. \A i \in DOMAIN (p \o q) : i \in DOMAIN p
        \/ (i - Len(p) \in DOMAIN q /\ (p \o q)[i] = q[i - Len(p)] /\ i > Len(p))
  BY <1>1, <1>2
<1>6. ToSet(p \o q) = ToSet(p) \cup ToSet(q)
  <2>1. \A k \in DOMAIN (p \o q) : (p \o q)[k] \in ToSet(p) \cup ToSet(q)
    BY <1>3, <1>4, <1>5
  <2>2. \A i \in DOMAIN p : p[i] \in ToSet(p \o q)
    BY <1>3 DEF ToSet
  <2>3. \A j \in DOMAIN q : q[j] \in ToSet(p \o q)
    BY <1>4 DEF ToSet
  <2> QED
    BY <2>1, <2>2, <2>3, Zenon DEF ToSet
<1>7. Increasing(p \o q)
  <2> SUFFICES ASSUME NEW i \in DOMAIN (p \o q), NEW j \in DOMAIN (p \o q), i < j
      PROVE (p \o q)[i] < (p \o q)[j]
    BY DEF Increasing
  <2>1. CASE i \in DOMAIN p /\ j \in DOMAIN p
    BY <1>3, <2>1 DEF Increasing
  <2>2. CASE i \in DOMAIN p /\ j \notin DOMAIN p
    BY <1>3, <1>4, <1>5, <2>2 DEF Before
  <2>3. CASE i \notin DOMAIN p
    <3>1. i - Len(p) \in DOMAIN q /\ j - Len(p) \in DOMAIN q /\ i - Len(p) < j - Len(p)
      BY <1>1, <1>2, <1>5, <2>3
    <3> QED
      BY <1>1, <1>2, <1>5, <2>3, <3>1 DEF Increasing
  <2> QED
    BY <2>1, <2>2, <2>3
<1> QED
  BY <1>2, <1>6, <1>7

\* The hub: the ring holds what was added last, each where its turn put it.
RingTyped ==
  /\ ring \in [1..RingCap -> Nat] /\ next \in 1..RingCap /\ size \in 0..RingCap
  /\ added \in Seq(Nat) /\ queue \in Seq(Nat) /\ Len(added) \in Nat

RingHolds ==
  /\ size < RingCap => Len(added) = size /\ next = size + 1 /\ \A i \in 1..size : ring[i] = added[i]
  /\ size = RingCap =>
       /\ Len(added) >= RingCap
       /\ \A i \in 1..(next - 1) : ring[i] = added[(Len(added) - next) + 1 + i]
       /\ \A i \in next..RingCap : ring[i] = added[(Len(added) - next) + 1 + (i - RingCap)]

HubStrong == RingTyped /\ RingHolds

\* The first state of the ring.
LEMMA HubBegins == HubInit => HubStrong
<1> SUFFICES ASSUME HubInit PROVE HubStrong
  OBVIOUS
<1> USE LogStreamAssumption DEF HubInit
<1>1. RingCap \in Nat \ {0}
  OBVIOUS
<1>2. RingTyped
  BY <1>1 DEF RingTyped
<1>3. RingHolds
  BY <1>1 DEF RingHolds
<1> QED
  BY <1>2, <1>3 DEF HubStrong

\* The place after one in the ring.
LEMMA NextPlace ==
  ASSUME NEW n \in 1..RingCap
  PROVE  (n % RingCap) + 1 = IF n = RingCap THEN 1 ELSE n + 1
<1>1. RingCap \in Nat \ {0}
  BY LogStreamAssumption
<1>2. CASE n = RingCap
  BY <1>1, <1>2
<1>3. CASE n < RingCap
  BY <1>1, <1>3
<1> QED
  BY <1>1, <1>2, <1>3

\* A step keeps the ring sound.
LEMMA HubStep == HubStrong /\ HubNext => HubStrong'
<1> SUFFICES ASSUME HubStrong, HubNext PROVE HubStrong'
  OBVIOUS
<1> USE DEF HubStrong
<1>0. RingCap \in Nat \ {0} /\ next \in 1..RingCap /\ size \in 0..RingCap /\ Len(added) \in Nat
  BY LogStreamAssumption DEF RingTyped
<1>1. CASE BufferAdd
  <2> USE <1>1 DEF BufferAdd
  <2>1. RingTyped'
    BY DEF RingTyped
  <2>2. RingHolds'
    BY DEF RingHolds
  <2> QED
    BY <2>1, <2>2
<1>2. CASE BufferDrain
  <2> DEFINE x == Head(queue)
  <2>1. x \in Nat /\ queue' \in Seq(Nat)
    BY <1>2 DEF BufferDrain, RingTyped
  <2>2. next' = IF next = RingCap THEN 1 ELSE next + 1
    BY <1>2, NextPlace DEF BufferDrain, RingAdd, RingTyped
  <2>3. \A i \in 1..RingCap : ring'[i] = IF i = next THEN x ELSE ring[i]
    BY <1>2 DEF BufferDrain, RingAdd, RingTyped
  <2>4. added' \in Seq(Nat) /\ Len(added') = Len(added) + 1
        /\ (\A i \in 1..Len(added) : added'[i] = added[i]) /\ added'[Len(added) + 1] = x
    BY <1>2, <2>1 DEF BufferDrain, RingTyped
  <2>a. size' = IF size < RingCap THEN size + 1 ELSE size
    BY <1>2 DEF BufferDrain, RingAdd
  <2>5. RingTyped'
    <3>1. next' \in 1..RingCap /\ size' \in 0..RingCap
      BY <1>0, <2>2, <2>a DEF RingTyped
    <3>2. ring' \in [1..RingCap -> Nat]
      BY <1>2, <2>1 DEF BufferDrain, RingAdd, RingTyped
    <3> QED
      BY <2>1, <2>4, <3>1, <3>2 DEF RingTyped
  <2> HIDE DEF x
  <2>6. CASE size < RingCap - 1
    <3>1. size' = size + 1 /\ next' = size + 2 /\ Len(added') = size + 1
      BY <1>0, <2>2, <2>4, <2>6, <2>a DEF RingTyped, RingHolds
    <3>2. next = size + 1 /\ Len(added) = size /\ \A i \in 1..size : ring[i] = added[i]
      BY <1>0, <2>6 DEF RingHolds
    <3>3. \A i \in 1..(size + 1) : ring'[i] = added'[i]
      <4>1. ASSUME NEW i \in 1..(size + 1) PROVE ring'[i] = added'[i]
        <5>1. CASE i = size + 1
          BY <1>0, <2>3, <2>4, <3>2, <5>1
        <5>2. CASE i \in 1..size
          BY <1>0, <2>3, <2>4, <3>2, <5>2
        <5>3. i = size + 1 \/ i \in 1..size
          BY <1>0
        <5> QED
          BY <5>1, <5>2, <5>3
      <4> QED
        BY <4>1
    <3> QED
      BY <1>0, <2>5, <2>6, <3>1, <3>3 DEF RingHolds
  <2>7. CASE size = RingCap - 1
    <3>1. size' = RingCap /\ next = RingCap /\ next' = 1 /\ Len(added') = RingCap
      BY <1>0, <2>2, <2>4, <2>7, <2>a DEF RingTyped, RingHolds
    <3>2. \A i \in 1..RingCap : ring'[i] = added'[i]
      BY <1>0, <2>3, <2>4, <2>7, <3>1 DEF RingTyped, RingHolds
    <3> QED
      BY <1>0, <2>5, <3>1, <3>2 DEF RingHolds
  <2>8. CASE size = RingCap
    <3>1. size' = RingCap /\ Len(added) \in Nat /\ Len(added) >= RingCap /\ next \in 1..RingCap
      BY <1>0, <2>8, <2>a DEF RingTyped, RingHolds
    <3>2. CASE next = RingCap
      <4>1. next' = 1
        BY <2>2, <3>2
      <4>2. ASSUME NEW i \in 1..RingCap PROVE ring'[i] = added'[Len(added) + 1 + (i - RingCap)]
        <5>1. CASE i = RingCap
          BY <1>0, <2>3, <2>4, <3>1, <3>2, <5>1
        <5>2. CASE i < RingCap
          <6>1. ring'[i] = added[(Len(added) - RingCap) + 1 + i]
            BY <1>0, <2>3, <2>8, <3>2, <5>2 DEF RingHolds
          <6>2. (Len(added) - RingCap) + 1 + i = Len(added) + 1 + (i - RingCap)
                /\ (Len(added) - RingCap) + 1 + i \in 1..Len(added)
            BY <1>0, <3>1, <5>2
          <6> QED
            BY <2>4, <6>1, <6>2
        <5>3. i = RingCap \/ i < RingCap
          BY <1>0
        <5> QED
          BY <5>1, <5>2, <5>3, Zenon
      <4> QED
        BY <1>0, <2>4, <2>5, <3>1, <4>1, <4>2 DEF RingHolds
    <3>3. CASE next < RingCap
      <4>1. next' = next + 1
        BY <1>0, <2>2, <3>3
      <4>2. ASSUME NEW i \in 1..next PROVE ring'[i] = added'[(Len(added) - next) + 1 + i]
        <5>1. CASE i = next
          BY <1>0, <2>3, <2>4, <3>1, <5>1
        <5>2. CASE i < next
          <6>1. ring'[i] = added[(Len(added) - next) + 1 + i]
            BY <1>0, <2>3, <2>8, <3>1, <5>2 DEF RingHolds
          <6>2. (Len(added) - next) + 1 + i \in 1..Len(added)
            BY <1>0, <3>1, <5>2
          <6> QED
            BY <2>4, <6>1, <6>2
        <5>3. i = next \/ i < next
          BY <1>0
        <5> QED
          BY <5>1, <5>2, <5>3, Zenon
      <4>3. ASSUME NEW i \in (next + 1)..RingCap
            PROVE ring'[i] = added'[(Len(added) - next) + 1 + (i - RingCap)]
        <5>1. ring'[i] = added[(Len(added) - next) + 1 + (i - RingCap)]
          BY <1>0, <2>3, <2>8, <3>1 DEF RingHolds
        <5>2. (Len(added) - next) + 1 + (i - RingCap) \in 1..Len(added)
          BY <1>0, <3>1
        <5> QED
          BY <2>4, <5>1, <5>2
      <4> QED
        BY <1>0, <2>4, <2>5, <3>1, <4>1, <4>2, <4>3 DEF RingHolds
    <3> QED
      BY <1>0, <2>4, <2>5, <3>1, <3>2, <3>3
  <2> QED
    BY <1>0, <2>6, <2>7, <2>8 DEF RingTyped
<1> QED
  BY <1>1, <1>2 DEF HubNext

\* A sound ring returns its last entries.
LEMMA HubHolds == HubStrong => SnapshotIsLatest
<1> SUFFICES ASSUME HubStrong PROVE SnapshotIsLatest
  OBVIOUS
<1> USE DEF HubStrong
<1>0. RingCap \in Nat \ {0} /\ next \in 1..RingCap /\ size \in 0..RingCap /\ Len(added) \in Nat
  BY LogStreamAssumption DEF RingTyped
<1>1. ring \in Seq(Nat) /\ Len(ring) = RingCap /\ added \in Seq(Nat)
  BY <1>0 DEF RingTyped
<1>2. CASE size < RingCap
  <2>1. Snapshot = SubSeq(ring, 1, size) /\ Len(added) = size
    BY <1>0, <1>2 DEF Snapshot, RingHolds
  <2>2. \A i \in 1..size : ring[i] = added[i]
    BY <1>2 DEF RingHolds
  <2>3. Len(SubSeq(ring, 1, size)) = size /\ Len(SubSeq(added, 1, size)) = size
    BY <1>0, <1>1, <2>1
  <2>4. SubSeq(ring, 1, size) = SubSeq(added, 1, size)
    BY <1>0, <1>1, <2>1, <2>2, <2>3
  <2> QED
    BY <1>0, <1>2, <2>1, <2>4 DEF SnapshotIsLatest
<1>3. CASE size = RingCap
  <2> DEFINE n == Len(added)
             a == SubSeq(ring, next, RingCap)
             b == SubSeq(ring, 1, next - 1)
             c == SubSeq(added, n - RingCap + 1, n)
  <2>0. n \in Nat /\ n >= RingCap
    BY <1>0, <1>3 DEF RingHolds
  <2>1. Snapshot = a \o b
    BY <1>0, <1>3 DEF Snapshot
  <2>2. a \in Seq(Nat) /\ Len(a) = RingCap - next + 1
          /\ \A i \in 1..(RingCap - next + 1) : a[i] = ring[next + i - 1]
    BY <1>0, <1>1
  <2>3. b \in Seq(Nat) /\ Len(b) = next - 1 /\ \A i \in 1..(next - 1) : b[i] = ring[i]
    BY <1>0, <1>1
  <2>4. c \in Seq(Nat) /\ Len(c) = RingCap /\ \A i \in 1..RingCap : c[i] = added[(n - RingCap) + i]
    <3>1. n - RingCap + 1 \in 1..n /\ n \in 1..Len(added)
      BY <1>0, <2>0
    <3>2. Len(c) = (n - (n - RingCap + 1)) + 1 /\ c \in Seq(Nat)
      BY <1>1, <3>1
    <3>3. Len(c) = RingCap
      BY <1>0, <2>0, <3>2
    <3>4. \A i \in 1..RingCap : c[i] = added[(n - RingCap + 1) + (i - 1)]
      BY <1>0, <1>1, <2>0, <3>1, <3>3
    <3> QED
      BY <1>0, <2>0, <3>2, <3>3, <3>4
  <2>5. a \o b \in Seq(Nat) /\ Len(a \o b) = RingCap
    BY <1>0, <2>2, <2>3
  <2> HIDE DEF a, b, c
  <2>6. ASSUME NEW i \in 1..RingCap PROVE (a \o b)[i] = c[i]
    <3>1. CASE i <= RingCap - next + 1
      <4>1. (a \o b)[i] = a[i] /\ a[i] = ring[next + i - 1]
        BY <1>0, <2>2, <2>3, <3>1
      <4>2. ring[next + i - 1] = added[(n - RingCap) + i]
        BY <1>0, <1>3, <2>0, <3>1 DEF RingHolds
      <4> QED
        BY <2>4, <4>1, <4>2
    <3>2. CASE i > RingCap - next + 1
      <4>1. (a \o b)[i] = b[i - Len(a)] /\ i - Len(a) = i - RingCap + next - 1 /\ i - Len(a) \in 1..(next - 1)
        BY <1>0, <2>2, <2>3, <3>2
      <4>2. b[i - Len(a)] = ring[i - Len(a)]
        BY <2>3, <4>1
      <4>3. ring[i - Len(a)] = added[(n - RingCap) + i]
        <5>1. ring[i - Len(a)] = added[(n - next) + 1 + (i - Len(a))]
          BY <1>0, <1>3, <4>1 DEF RingHolds
        <5>2. (n - next) + 1 + (i - Len(a)) = (n - RingCap) + i
          BY <1>0, <2>0, <4>1
        <5> QED
          BY <5>1, <5>2
      <4> QED
        BY <2>4, <4>1, <4>2, <4>3
    <3>3. i <= RingCap - next + 1 \/ i > RingCap - next + 1
      BY <1>0
    <3> QED
      BY <3>1, <3>2, <3>3, Zenon
  <2>7. a \o b = c
    <3> DEFINE d == a \o b
    <3>1. d \in Seq(Nat) /\ Len(d) = Len(c) /\ \A i \in 1..Len(d) : d[i] = c[i]
      BY <2>4, <2>5, <2>6
    <3> HIDE DEF d
    <3>2. d = c
      BY <2>4, <3>1
    <3> QED
      BY <3>2 DEF d
  <2>8. CASE n > RingCap
    BY <2>1, <2>7, <2>8 DEF SnapshotIsLatest, c
  <2>9. CASE n = RingCap
    BY <1>0, <2>1, <2>7, <2>9 DEF SnapshotIsLatest, c
  <2> QED
    BY <1>0, <2>0, <2>8, <2>9
<1> QED
  BY <1>0, <1>2, <1>3

\* The five places an entry can be on its way to the window.
Shown(s) == ToSet(emitted[s])
Buffered(s) == ToSet(emitCh[s])
Relayed(s) == ToSet(out[s])
Held(s) == IF held[s] = 0 THEN {} ELSE {held[s]}
Sourced(s) == ToSet(source[s])
Underway(s) == Shown(s) \cup Buffered(s) \cup Relayed(s) \cup Held(s) \cup Sourced(s)

\* Who is at the one place came before who is at the next.
Flow(E, C, O, H, S) ==
  /\ Before(E, C) /\ Before(E, O) /\ Before(E, H) /\ Before(E, S)
  /\ Before(C, O) /\ Before(C, H) /\ Before(C, S)
  /\ Before(O, H) /\ Before(O, S) /\ Before(H, S)

PlacesInOrder(s) ==
  /\ Increasing(emitted[s]) /\ Increasing(emitCh[s]) /\ Increasing(out[s]) /\ Increasing(source[s])
  /\ Flow(Shown(s), Buffered(s), Relayed(s), Held(s), Sourced(s))

OnlyWanted(s) ==
  /\ \A k \in Underway(s) : k \in 1..Len(entries) /\ k > since[s]
  /\ \A k \in Shown(s) \cup Buffered(s) \cup Relayed(s) \cup Held(s) : entries[k] >= minLevel[s]

AllWanted(s) ==
  (relay[s] # "none" /\ s \notin overflown \cup sessionCancelled) =>
    \A k \in 1..Len(entries) : Wanted(s, k) => k \in Underway(s)

\* Before it subscribes a session has nothing; one that is not cancelled is listed.
StreamPhases(s) ==
  /\ relay[s] = "none" <=> handler[s] \in {"none", "subscribe"}
  /\ relay[s] = "none" => /\ s \notin subs /\ held[s] = 0
                          /\ emitted[s] = << >> /\ emitCh[s] = << >> /\ out[s] = << >> /\ source[s] = << >>
  /\ relay[s] = "send" <=> held[s] # 0
  /\ relay[s] = "none" \/ s \in sessionCancelled \/ s \in subs
  /\ s \in subs /\ relay[s] = "done" => s \in sessionCancelled

EntriesTyped == entries \in Seq(Nat) /\ Len(entries) \in 0..MaxEntries
SessionsTyped ==
  /\ logSession \in 0..MaxSessions /\ sessionCancelled \subseteq Sessions /\ overflown \subseteq Sessions
  /\ subs \subseteq Sessions /\ minLevel \in [Sessions -> Nat]
  /\ relay \in [Sessions -> {"none", "recv", "send", "done"}]
  /\ handler \in [Sessions -> {"none", "subscribe", "recv", "wait", "done"}]
PlacesTyped ==
  /\ emitted \in [Sessions -> Seq(Nat)] /\ emitCh \in [Sessions -> Seq(Nat)]
  /\ out \in [Sessions -> Seq(Nat)] /\ source \in [Sessions -> Seq(Nat)]
  /\ held \in [Sessions -> Nat] /\ since \in [Sessions -> Nat]
CapsHold == \A s \in Sessions : Len(source[s]) <= SourceCap /\ Len(out[s]) <= OutCap
  /\ Len(emitCh[s]) <= EmitCap
SinceIsPast == \A s \in Sessions : since[s] <= Len(entries)
LogTyped == EntriesTyped /\ SessionsTyped /\ PlacesTyped /\ CapsHold /\ SinceIsPast

StreamIsSound(s) == StreamPhases(s) /\ PlacesInOrder(s) /\ OnlyWanted(s) /\ AllWanted(s)
LogStrong == LogTyped /\ OneSession /\ \A s \in Sessions : StreamIsSound(s)

\* The empty sequence of places.
LEMMA NoPlaces == Increasing(<< >>) /\ ToSet(<< >>) = {}
BY DEF Increasing, ToSet

\* The first state of the logs.
LEMMA LogBegins == LogInit => LogStrong
<1> SUFFICES ASSUME LogInit PROVE LogStrong
  OBVIOUS
<1> USE LogStreamAssumption DEF LogInit, PerSession
<1>1. EntriesTyped
  BY DEF EntriesTyped
<1>2. SessionsTyped
  <2>1. logSession \in 0..MaxSessions
    OBVIOUS
  <2> QED
    BY <2>1 DEF SessionsTyped
<1>3. PlacesTyped
  <2>1. << >> \in Seq(Nat) /\ 0 \in Nat
    OBVIOUS
  <2> QED
    BY <2>1 DEF PlacesTyped
<1>4. CapsHold /\ SinceIsPast
  BY DEF CapsHold, SinceIsPast
<1>5. OneSession
  BY DEF OneSession
<1>6. ASSUME NEW s \in Sessions PROVE StreamIsSound(s)
  <2>1. StreamPhases(s)
    BY DEF StreamPhases
  <2>2. Shown(s) = {} /\ Buffered(s) = {} /\ Relayed(s) = {} /\ Held(s) = {} /\ Sourced(s) = {}
    BY NoPlaces DEF Shown, Buffered, Relayed, Held, Sourced
  <2>3. PlacesInOrder(s)
    BY <2>2, NoPlaces DEF PlacesInOrder, Flow, Before
  <2>4. OnlyWanted(s) /\ AllWanted(s)
    BY <2>2 DEF OnlyWanted, AllWanted, Underway
  <2> QED
    BY <2>1, <2>3, <2>4 DEF StreamIsSound
<1> QED
  BY <1>1, <1>2, <1>3, <1>4, <1>5, <1>6 DEF LogStrong, LogTyped

\* What a published entry is to a stream.
SourceGrows(s) ==
  \/ entries' = entries /\ source'[s] = source[s]
  \/ \E level \in Nat :
       /\ entries' = Append(entries, level)
       /\ \/ source'[s] = Append(source[s], Len(entries) + 1)
          \/ source'[s] = source[s] /\ (s \notin subs \/ s \in overflown')

\* Nothing moves on, but an entry the session has no room for may be left out.
SamePlaces(s) ==
  /\ emitted'[s] = emitted[s] /\ emitCh'[s] = emitCh[s] /\ held'[s] = held[s]
  /\ \/ out'[s] = out[s]
     \/ out[s] # << >> /\ out'[s] = Tail(out[s]) /\ s \in overflown'
  /\ since'[s] = since[s] /\ minLevel'[s] = minLevel[s]
  /\ overflown \subseteq overflown' /\ sessionCancelled \subseteq sessionCancelled'

\* A stream on which nothing moves on stays sound, whatever is published.
LEMMA StreamStays ==
  ASSUME LogStrong, NEW s \in Sessions, SourceGrows(s), SamePlaces(s),
         relay'[s] # "none" => relay[s] # "none"
  PROVE  PlacesInOrder(s)' /\ OnlyWanted(s)' /\ AllWanted(s)'
<1> USE DEF SamePlaces
<1>1. /\ source[s] \in Seq(Nat) /\ Len(entries) \in Nat /\ entries \in Seq(Nat)
      /\ PlacesInOrder(s) /\ OnlyWanted(s) /\ AllWanted(s) /\ StreamPhases(s)
  BY DEF LogStrong, LogTyped, PlacesTyped, EntriesTyped, StreamIsSound
<1>2. Shown(s)' = Shown(s) /\ Buffered(s)' = Buffered(s) /\ Held(s)' = Held(s)
  BY DEF Shown, Buffered, Held
<1>a. /\ Increasing(out'[s]) /\ Relayed(s)' \subseteq Relayed(s)
      /\ Relayed(s)' = Relayed(s) \/ s \in overflown'
  <2>1. CASE out'[s] = out[s]
    BY <1>1, <2>1 DEF Relayed, PlacesInOrder
  <2>2. CASE out[s] # << >> /\ out'[s] = Tail(out[s]) /\ s \in overflown'
    <3>1. out[s] \in Seq(Nat) /\ Increasing(out[s])
      BY <1>1 DEF LogStrong, LogTyped, PlacesTyped, PlacesInOrder
    <3>2. Increasing(Tail(out[s])) /\ ToSet(out[s]) = {Head(out[s])} \cup ToSet(Tail(out[s]))
      BY <2>2, <3>1, TakeFirst
    <3> QED
      BY <2>2, <3>2 DEF Relayed
  <2> QED
    BY <2>1, <2>2
<1>3. CASE entries' = entries /\ source'[s] = source[s]
  <2>1. Sourced(s)' = Sourced(s)
    BY <1>3 DEF Sourced
  <2>2. PlacesInOrder(s)'
    BY <1>1, <1>2, <1>3, <1>a, <2>1 DEF PlacesInOrder, Flow, Before
  <2>3. OnlyWanted(s)'
    BY <1>1, <1>2, <1>3, <1>a, <2>1 DEF OnlyWanted, Underway
  <2>4. AllWanted(s)'
    BY <1>1, <1>2, <1>3, <1>a, <2>1 DEF AllWanted, Underway, Wanted
  <2> QED
    BY <2>2, <2>3, <2>4
<1>4. ASSUME NEW level \in Nat, entries' = Append(entries, level),
             \/ source'[s] = Append(source[s], Len(entries) + 1)
             \/ source'[s] = source[s] /\ (s \notin subs \/ s \in overflown')
      PROVE  PlacesInOrder(s)' /\ OnlyWanted(s)' /\ AllWanted(s)'
  <2> DEFINE n == Len(entries) + 1
  <2>1. /\ Len(entries') = n /\ n \in Nat \ {0}
        /\ \A k \in 1..Len(entries) : entries'[k] = entries[k] /\ k \in 1..n
    BY <1>1, <1>4
  <2>2. Before(ToSet(source[s]), {n}) /\ Before(Shown(s), {n}) /\ Before(Buffered(s), {n})
        /\ Before(Relayed(s), {n}) /\ Before(Held(s), {n})
    BY <1>1 DEF Before, OnlyWanted, Underway, Sourced
  <2>3. n > since[s]
    BY <1>1 DEF LogStrong, LogTyped, SinceIsPast, PlacesTyped
  <2> HIDE DEF n
  <2>4. \/ Sourced(s)' = Sourced(s) \cup {n} /\ Increasing(source'[s])
        \/ Sourced(s)' = Sourced(s) /\ Increasing(source'[s]) /\ (s \notin subs \/ s \in overflown')
    <3>1. CASE source'[s] = Append(source[s], n)
      <4>1. Increasing(source[s])
        BY <1>1 DEF PlacesInOrder
      <4>2. Increasing(Append(source[s], n)) /\ ToSet(Append(source[s], n)) = ToSet(source[s]) \cup {n}
        BY <1>1, <2>1, <2>2, <4>1, PutLast
      <4> QED
        BY <3>1, <4>2 DEF Sourced
    <3>2. CASE source'[s] = source[s] /\ (s \notin subs \/ s \in overflown')
      BY <1>1, <3>2 DEF Sourced, PlacesInOrder
    <3> QED
      BY <1>4, <3>1, <3>2 DEF n
  <2>5. PlacesInOrder(s)'
    <3>1. Flow(Shown(s), Buffered(s), Relayed(s)', Held(s), Sourced(s)')
      BY <1>1, <1>a, <2>2, <2>4 DEF PlacesInOrder, Flow, Before
    <3> QED
      BY <1>1, <1>2, <1>a, <2>4, <3>1 DEF PlacesInOrder
  <2>6. OnlyWanted(s)'
    <3>1. \A k \in Underway(s)' : k \in Underway(s) \/ k = n
      BY <1>2, <1>a, <2>4 DEF Underway
    <3>2. ASSUME NEW k \in Underway(s)' PROVE k \in 1..Len(entries') /\ k > since'[s]
      <4>1. CASE k = n
        BY <2>1, <2>3, <4>1
      <4>2. CASE k \in Underway(s)
        BY <1>1, <2>1, <4>2 DEF OnlyWanted
      <4> QED
        BY <3>1, <4>1, <4>2
    <3>3. ASSUME NEW k \in Shown(s) \cup Buffered(s) \cup Relayed(s) \cup Held(s)
          PROVE entries'[k] >= minLevel'[s]
      BY <1>1, <2>1, <3>3 DEF OnlyWanted, Underway
    <3> QED
      BY <1>2, <1>a, <3>2, <3>3 DEF OnlyWanted
  <2>7. AllWanted(s)'
    <3> SUFFICES ASSUME relay'[s] # "none", s \notin overflown' \cup sessionCancelled',
          NEW k \in 1..n, Wanted(s, k)'
                 PROVE  k \in Underway(s)'
      BY <2>1 DEF AllWanted
    <3>1. s \in subs /\ relay[s] # "none" /\ s \notin overflown \cup sessionCancelled
      BY <1>1 DEF StreamPhases
    <3>2. Sourced(s)' = Sourced(s) \cup {n}
      BY <2>4, <3>1
    <3>3. CASE k = n
      BY <3>2, <3>3 DEF Underway
    <3>4. CASE k # n
      <4>1. k \in 1..Len(entries)
        BY <1>1, <2>1, <3>4 DEF n
      <4>2. Wanted(s, k)
        BY <2>1, <4>1 DEF Wanted
      <4>3. k \in Underway(s)
        BY <1>1, <3>1, <4>1, <4>2 DEF AllWanted
      <4> QED
        BY <1>2, <1>a, <3>2, <4>3 DEF Underway
    <3> QED
      BY <3>3, <3>4
  <2> QED
    BY <2>5, <2>6, <2>7
<1> QED
  BY <1>3, <1>4 DEF SourceGrows

\* Publishing reaches every stream, and leaves the types as they are.
LEMMA PublishedGrows ==
  ASSUME LogStrong, NEW level \in Nat, NEW missed \in SUBSET Sessions, Published(level, missed),
    UNCHANGED subs
  PROVE  /\ \A s \in Sessions : SourceGrows(s)
         /\ overflown \subseteq overflown' /\ overflown' \subseteq Sessions /\ missed \subseteq overflown'
         /\ EntriesTyped' /\ source' \in [Sessions -> Seq(Nat)] /\ Len(entries') >= Len(entries)
         /\ \A s \in Sessions : Len(source'[s]) <= SourceCap
<1> DEFINE full == {s \in subs : Len(source[s]) = SourceCap}
<1>1. /\ EntriesTyped /\ subs \subseteq Sessions /\ overflown \subseteq Sessions
      /\ source \in [Sessions -> Seq(Nat)] /\ \A s \in Sessions : Len(source[s]) <= SourceCap
  BY DEF LogStrong, LogTyped, SessionsTyped, PlacesTyped, CapsHold
<1>2. CASE Len(entries) = MaxEntries
  <2>1. entries' = entries /\ source' = source /\ overflown' = overflown \cup missed
    BY <1>2 DEF Published
  <2>2. Len(entries') >= Len(entries)
    BY <1>1, <2>1 DEF EntriesTyped
  <2> QED
    BY <1>1, <2>1, <2>2 DEF SourceGrows, EntriesTyped
<1>3. CASE Len(entries) # MaxEntries
  <2> DEFINE n == Len(entries) + 1
  <2>1. /\ entries' = Append(entries, level) /\ Len(entries') = n /\ n \in Nat
        /\ overflown' = overflown \cup full \cup missed
        /\ source' = [s \in Sessions |-> IF s \in subs \ full THEN Append(source[s], n) ELSE source[s]]
    <3>1. entries' = Append(entries, level)
      BY <1>3 DEF Published
    <3>2. Len(entries') = n /\ n \in Nat
      BY <1>1, <3>1 DEF EntriesTyped
    <3> QED
      BY <1>3, <3>1, <3>2 DEF Published
  <2>2. EntriesTyped'
    <3>1. entries' \in Seq(Nat)
      BY <1>1, <2>1 DEF EntriesTyped
    <3>2. n <= MaxEntries
      BY <1>1, <1>3, LogStreamAssumption DEF EntriesTyped
    <3> QED
      BY <2>1, <3>1, <3>2 DEF EntriesTyped
  <2>3. Len(entries') >= Len(entries)
    BY <1>1, <2>1 DEF EntriesTyped
  <2>4. ASSUME NEW s \in Sessions
        PROVE  source'[s] \in Seq(Nat) /\ Len(source'[s]) <= SourceCap /\ SourceGrows(s)
    <3>1. CASE s \in subs \ full
      <4>1. source'[s] = Append(source[s], n)
        BY <2>1, <3>1
      <4>2. Append(source[s], n) \in Seq(Nat) /\ Len(Append(source[s], n)) = Len(source[s]) + 1
        BY <1>1, <2>1
      <4>3. Len(source[s]) <= SourceCap /\ Len(source[s]) # SourceCap /\ Len(source[s]) \in Nat
              /\ SourceCap \in Nat
        BY <1>1, <3>1, LogStreamAssumption
      <4> QED
        BY <2>1, <4>1, <4>2, <4>3 DEF SourceGrows
    <3>2. CASE s \notin subs \ full
      <4>1. source'[s] = source[s]
        BY <2>1, <3>2
      <4>2. s \notin subs \/ s \in overflown'
        BY <2>1, <3>2
      <4> QED
        BY <1>1, <2>1, <4>1, <4>2 DEF SourceGrows
    <3> QED
      BY <3>1, <3>2
  <2>5. source' \in [Sessions -> Seq(Nat)]
    BY <2>1, <2>4
  <2>6. overflown' \subseteq Sessions
    BY <1>1, <2>1
  <2> QED
    BY <2>1, <2>2, <2>3, <2>4, <2>5, <2>6
<1> QED
  BY <1>2, <1>3

\* The types, for every kind of step.
LEMMA LogTypes == LogStrong /\ LogNext => LogTyped'
<1> SUFFICES ASSUME LogStrong, LogNext PROVE LogTyped'
  OBVIOUS
<1> USE LogStreamAssumption
<1>1. /\ EntriesTyped /\ SessionsTyped /\ PlacesTyped /\ CapsHold /\ SinceIsPast
      /\ {SourceCap, OutCap, EmitCap} \subseteq Nat \ {0}
  BY DEF LogStrong, LogTyped
<1>2. Sessions = 1..MaxSessions /\ \A s \in Sessions : s \in 0..MaxSessions
  BY DEF Sessions
<1>3. CASE Write
  <2>1. PICK level \in Nat : Published(level, {})
    BY <1>3 DEF Write
  <2>2. UNCHANGED <<sessionVars, subs, since, relay, held, out, emitVars>>
    BY <1>3 DEF Write
  <2>3. overflown' \subseteq Sessions /\ EntriesTyped' /\ source' \in [Sessions -> Seq(Nat)]
        /\ Len(entries') >= Len(entries) /\ \A s \in Sessions : Len(source'[s]) <= SourceCap
    BY <2>1, <2>2, PublishedGrows
  <2>4. SessionsTyped' /\ PlacesTyped' /\ CapsHold'
    BY <1>1, <2>2, <2>3 DEF SessionsTyped, PlacesTyped, CapsHold, sessionVars, emitVars
  <2>5. SinceIsPast'
    BY <1>1, <2>2, <2>3 DEF SinceIsPast, PlacesTyped, EntriesTyped
  <2> QED
    BY <2>3, <2>4, <2>5 DEF LogTyped
<1>4. CASE StopLogStream
  <2> USE <1>4 DEF StopLogStream, streamVars, emitVars
  <2>1. EntriesTyped' /\ PlacesTyped' /\ CapsHold' /\ SinceIsPast'
    BY <1>1 DEF EntriesTyped, PlacesTyped, CapsHold, SinceIsPast
  <2>2. SessionsTyped'
    BY <1>1, <1>2 DEF SessionsTyped
  <2> QED
    BY <2>1, <2>2 DEF LogTyped
<1>5. ASSUME NEW s \in Sessions, StartLogStream(s) PROVE LogTyped'
  <2> USE <1>5 DEF StartLogStream, streamVars
  <2>1. EntriesTyped' /\ PlacesTyped' /\ CapsHold' /\ SinceIsPast'
    BY <1>1 DEF EntriesTyped, PlacesTyped, CapsHold, SinceIsPast
  <2>2. minLevel' \in [Sessions -> Nat] /\ logSession' \in 0..MaxSessions
          /\ sessionCancelled' \subseteq Sessions
    BY <1>1, <1>2 DEF SessionsTyped
  <2>3. SessionsTyped'
    BY <1>1, <2>2 DEF SessionsTyped
  <2> QED
    BY <2>1, <2>3 DEF LogTyped
<1>6. ASSUME NEW s \in Sessions, Subscribe(s) PROVE LogTyped'
  <2> USE <1>6 DEF Subscribe, sessionVars
  <2>1. EntriesTyped' /\ CapsHold'
    BY <1>1 DEF EntriesTyped, CapsHold
  <2>2. SessionsTyped'
    BY <1>1 DEF SessionsTyped
  <2>3. PlacesTyped' /\ SinceIsPast'
    BY <1>1, SMTT(30) DEF PlacesTyped, SinceIsPast, EntriesTyped
  <2> QED
    BY <2>1, <2>2, <2>3 DEF LogTyped
<1>7. ASSUME NEW s \in Sessions, SourceCloses(s) \/ FinishLogSession(s) \/ SessionDone(s) PROVE LogTyped'
  <2> USE <1>7 DEF SourceCloses, FinishLogSession, SessionDone, sessionVars, emitVars, streamVars
  <2>1. EntriesTyped' /\ PlacesTyped' /\ CapsHold' /\ SinceIsPast'
    BY <1>1 DEF EntriesTyped, PlacesTyped, CapsHold, SinceIsPast
  <2>2. SessionsTyped'
    BY <1>1, SMTT(30) DEF SessionsTyped
  <2> QED
    BY <2>1, <2>2 DEF LogTyped
<1>8. ASSUME NEW s \in Sessions, RelayTakes(s) PROVE LogTyped'
  <2> USE <1>8 DEF RelayTakes, relayRest, sessionVars, emitVars
  <2>0. source[s] \in Seq(Nat) /\ source[s] # << >>
    BY <1>1 DEF PlacesTyped
  <2>a. Tail(source[s]) \in Seq(Nat) /\ Len(Tail(source[s])) = Len(source[s]) - 1 /\ Len(source[s]) \in Nat
    BY <2>0
  <2>b. Len(source[s]) <= SourceCap
    BY <1>1 DEF CapsHold
  <2>c. Head(source[s]) = source[s][1] /\ 1 \in DOMAIN source[s]
    BY <2>0
  <2>1. Tail(source[s]) \in Seq(Nat) /\ Len(Tail(source[s])) <= SourceCap /\ Head(source[s]) \in Nat
    <3>1. SourceCap \in Nat
      BY LogStreamAssumption
    <3>2. Head(source[s]) \in Nat
      BY <2>0, <2>c
    <3> QED
      BY <2>a, <2>b, <3>1, <3>2
  <2>2. EntriesTyped' /\ CapsHold' /\ SinceIsPast'
    BY <1>1, <2>1 DEF EntriesTyped, CapsHold, SinceIsPast, PlacesTyped
  <2>3. SessionsTyped'
    BY <1>1 DEF SessionsTyped
  <2>4. PlacesTyped'
    BY <1>1, <2>1 DEF PlacesTyped
  <2> QED
    BY <2>2, <2>3, <2>4 DEF LogTyped
<1>9. ASSUME NEW s \in Sessions, RelaySends(s) PROVE LogTyped'
  <2> USE <1>9 DEF RelaySends, relayRest, sessionVars, emitVars
  <2>0. out[s] \in Seq(Nat) /\ held[s] \in Nat
    BY <1>1 DEF PlacesTyped
  <2>1. Append(out[s], held[s]) \in Seq(Nat) /\ Len(Append(out[s], held[s])) <= OutCap
    BY <1>1, <2>0
  <2>2. EntriesTyped' /\ CapsHold' /\ SinceIsPast'
    BY <1>1, <2>1 DEF EntriesTyped, CapsHold, SinceIsPast, PlacesTyped
  <2>3. SessionsTyped'
    BY <1>1 DEF SessionsTyped
  <2>4. PlacesTyped'
    BY <1>1, <2>1 DEF PlacesTyped
  <2> QED
    BY <2>2, <2>3, <2>4 DEF LogTyped
<1>10. ASSUME NEW s \in Sessions, RelayEnds(s) PROVE LogTyped'
  <2> USE <1>10 DEF RelayEnds, relayRest, sessionVars, emitVars
  <2>1. EntriesTyped' /\ CapsHold' /\ SinceIsPast'
    BY <1>1 DEF EntriesTyped, CapsHold, SinceIsPast
  <2>2. SessionsTyped'
    BY <1>1 DEF SessionsTyped
  <2>3. PlacesTyped'
    BY <1>1 DEF PlacesTyped
  <2> QED
    BY <2>1, <2>2, <2>3 DEF LogTyped
<1>11. ASSUME NEW s \in Sessions, HandlerTakes(s) PROVE LogTyped'
  <2>1. /\ out[s] # << >> /\ out' = [out EXCEPT ![s] = Tail(out[s])]
        /\ UNCHANGED <<sessionVars, subs, since, relay, held, emitted, handler>>
    BY <1>11 DEF HandlerTakes, handlerRest
  <2>2. out[s] \in Seq(Nat) /\ emitCh[s] \in Seq(Nat)
    BY <1>1 DEF PlacesTyped
  <2>3. Tail(out[s]) \in Seq(Nat) /\ Len(Tail(out[s])) <= OutCap /\ Head(out[s]) \in Nat
    BY <1>1, <2>1, <2>2, SMTT(30) DEF CapsHold
  <2>4. /\ overflown' \subseteq Sessions /\ EntriesTyped' /\ source' \in [Sessions -> Seq(Nat)]
        /\ Len(entries') >= Len(entries) /\ \A r \in Sessions : Len(source'[r]) <= SourceCap
    <3>1. CASE UNCHANGED <<entries, source, overflown>>
      BY <1>1, <3>1 DEF EntriesTyped, PlacesTyped, SessionsTyped, CapsHold
    <3>2. CASE Published(Warn, {s})
      BY <2>1, <3>2, PublishedGrows
    <3> QED
      BY <1>11, <3>1, <3>2 DEF HandlerTakes
  <2>5. emitCh' \in [Sessions -> Seq(Nat)] /\ \A r \in Sessions : Len(emitCh'[r]) <= EmitCap
    <3>1. CASE UNCHANGED emitCh
      BY <1>1, <3>1 DEF PlacesTyped, CapsHold
    <3>2. CASE Len(emitCh[s]) < EmitCap /\ emitCh' = [emitCh EXCEPT ![s] = Append(emitCh[s], Head(out[s]))]
      <4>1. Append(emitCh[s], Head(out[s])) \in Seq(Nat) /\ Len(Append(emitCh[s], Head(out[s]))) <= EmitCap
        BY <1>1, <2>2, <2>3, <3>2
      <4> QED
        BY <1>1, <3>2, <4>1 DEF PlacesTyped, CapsHold
    <3> QED
      BY <1>11, <3>1, <3>2 DEF HandlerTakes
  <2>6. SessionsTyped'
    BY <1>1, <2>1, <2>4 DEF SessionsTyped, sessionVars
  <2>7. PlacesTyped'
    BY <1>1, <2>1, <2>3, <2>4, <2>5 DEF PlacesTyped
  <2>8. CapsHold'
    BY <1>1, <2>1, <2>3, <2>4, <2>5 DEF CapsHold, PlacesTyped
  <2>9. SinceIsPast'
    BY <1>1, <2>1, <2>4, SMTT(30) DEF SinceIsPast, PlacesTyped, EntriesTyped
  <2> QED
    BY <2>4, <2>6, <2>7, <2>8, <2>9 DEF LogTyped
<1>12. ASSUME NEW s \in Sessions, EmitLogEntry(s) PROVE LogTyped'
  <2> USE <1>12 DEF EmitLogEntry, sessionVars, streamVars
  <2>0. emitCh[s] \in Seq(Nat) /\ emitCh[s] # << >> /\ emitted[s] \in Seq(Nat)
    BY <1>1 DEF PlacesTyped
  <2>1. /\ Tail(emitCh[s]) \in Seq(Nat) /\ Len(Tail(emitCh[s])) <= EmitCap
        /\ Append(emitted[s], Head(emitCh[s])) \in Seq(Nat)
    BY <1>1, <2>0, SMTT(30) DEF CapsHold
  <2>2. EntriesTyped' /\ CapsHold' /\ SinceIsPast'
    BY <1>1, <2>1 DEF EntriesTyped, CapsHold, SinceIsPast, PlacesTyped
  <2>3. SessionsTyped'
    BY <1>1 DEF SessionsTyped
  <2>4. PlacesTyped'
    BY <1>1, <2>1 DEF PlacesTyped
  <2> QED
    BY <2>2, <2>3, <2>4 DEF LogTyped
<1> QED
  BY <1>3, <1>4, <1>5, <1>6, <1>7, <1>8, <1>9, <1>10, <1>11, <1>12 DEF LogNext, StreamStep

\* What moves on: from the broadcaster to the relay, or left where it is below the level;
\* from the relay to its channel; to the buffer; and to the window.
LEMMA RelayTakesOn ==
  ASSUME LogStrong, NEW s \in Sessions, RelayTakes(s)
  PROVE  PlacesInOrder(s)' /\ OnlyWanted(s)' /\ AllWanted(s)'
<1> DEFINE x == Head(source[s])
<1>1. /\ source[s] \in Seq(Nat) /\ source[s] # << >> /\ source'[s] = Tail(source[s]) /\ held[s] \in Nat
      /\ PlacesInOrder(s) /\ OnlyWanted(s) /\ AllWanted(s) /\ StreamPhases(s) /\ relay[s] = "recv"
      /\ UNCHANGED <<entries, minLevel, sessionCancelled, since, overflown>>
  BY DEF RelayTakes, relayRest, sessionVars, LogStrong, LogTyped, PlacesTyped, StreamIsSound
<1>2. UNCHANGED <<out, emitCh, emitted>>
  BY DEF RelayTakes, relayRest, emitVars
<1>3. \/ entries[x] < minLevel[s] /\ held' = held /\ relay' = relay
      \/ ~(entries[x] < minLevel[s]) /\ held'[s] = x /\ relay'[s] = "send"
  BY DEF RelayTakes, LogStrong, LogTyped, PlacesTyped, SessionsTyped
<1>4. Increasing(source[s])
  BY <1>1 DEF PlacesInOrder
<1>5. /\ Increasing(source'[s]) /\ Sourced(s) = {x} \cup Sourced(s)' /\ Before({x}, Sourced(s)')
  BY <1>1, <1>4, TakeFirst DEF Sourced
<1>6. Shown(s)' = Shown(s) /\ Buffered(s)' = Buffered(s) /\ Relayed(s)' = Relayed(s)
  BY <1>2 DEF Shown, Buffered, Relayed
<1>7. Held(s) = {}
  BY <1>1 DEF Held, StreamPhases
<1>8. x \in 1..Len(entries) /\ x > since[s] /\ x # 0
  BY <1>1, <1>5 DEF OnlyWanted, Underway
<1>9. entries[x] \in Nat /\ minLevel[s] \in Nat
  BY <1>8 DEF LogStrong, LogTyped, SessionsTyped, EntriesTyped
<1> HIDE DEF x
<1>10. CASE entries[x] < minLevel[s] /\ held' = held /\ relay' = relay
  <2>1. Held(s)' = {} /\ Underway(s) = Underway(s)' \cup {x}
    BY <1>5, <1>6, <1>7, <1>10 DEF Held, Underway
  <2>2. ~Wanted(s, x)
    BY <1>9, <1>10 DEF Wanted
  <2>3. PlacesInOrder(s)'
    BY <1>1, <1>2, <1>5, <1>6, <1>7, <2>1 DEF PlacesInOrder, Flow, Before
  <2>4. OnlyWanted(s)'
    BY <1>1, <1>6, <1>7, <2>1 DEF OnlyWanted
  <2>5. AllWanted(s)'
    BY <1>1, <1>10, <2>1, <2>2 DEF AllWanted, Wanted
  <2> QED
    BY <2>3, <2>4, <2>5
<1>11. CASE ~(entries[x] < minLevel[s]) /\ held'[s] = x /\ relay'[s] = "send"
  <2>1. Held(s)' = {x} /\ Underway(s)' = Underway(s)
    BY <1>5, <1>6, <1>7, <1>8, <1>11 DEF Held, Underway
  <2>2. entries[x] >= minLevel[s]
    BY <1>9, <1>11
  <2>3. PlacesInOrder(s)'
    BY <1>1, <1>2, <1>5, <1>6, <1>7, <2>1 DEF PlacesInOrder, Flow, Before
  <2>4. OnlyWanted(s)'
    BY <1>1, <1>6, <1>7, <2>1, <2>2 DEF OnlyWanted
  <2>5. AllWanted(s)'
    BY <1>1, <1>11, <2>1 DEF AllWanted, Wanted
  <2> QED
    BY <2>3, <2>4, <2>5
<1> QED
  BY <1>3, <1>10, <1>11

\* The relay passes an entry on in order, or it is dropped and counted.
LEMMA RelaySendsOn ==
  ASSUME LogStrong, NEW s \in Sessions, RelaySends(s)
  PROVE  PlacesInOrder(s)' /\ OnlyWanted(s)' /\ AllWanted(s)'
<1> DEFINE x == held[s]
<1>1. /\ out[s] \in Seq(Nat) /\ x \in Nat /\ out'[s] = Append(out[s], x) /\ held'[s] = 0
      /\ PlacesInOrder(s) /\ OnlyWanted(s) /\ AllWanted(s) /\ StreamPhases(s) /\ relay[s] = "send"
      /\ UNCHANGED <<entries, minLevel, sessionCancelled, since, overflown>>
  BY DEF RelaySends, relayRest, sessionVars, LogStrong, LogTyped, PlacesTyped, StreamIsSound
<1>2. UNCHANGED <<source, emitCh, emitted>>
  BY DEF RelaySends, relayRest, emitVars
<1>3. Held(s) = {x} /\ Held(s)' = {}
  BY <1>1 DEF Held, StreamPhases
<1>4. Increasing(out[s]) /\ Before(ToSet(out[s]), {x})
  BY <1>1, <1>3 DEF PlacesInOrder, Flow, Relayed
<1>5. Increasing(out'[s]) /\ Relayed(s)' = Relayed(s) \cup {x}
  BY <1>1, <1>4, PutLast DEF Relayed
<1>6. Shown(s)' = Shown(s) /\ Buffered(s)' = Buffered(s) /\ Sourced(s)' = Sourced(s)
  BY <1>2 DEF Shown, Buffered, Sourced
<1> HIDE DEF x
<1>7. Underway(s)' = Underway(s)
  BY <1>3, <1>5, <1>6 DEF Underway
<1>8. PlacesInOrder(s)'
  BY <1>1, <1>2, <1>3, <1>5, <1>6 DEF PlacesInOrder, Flow, Before
<1>9. OnlyWanted(s)'
  BY <1>1, <1>3, <1>5, <1>6, <1>7 DEF OnlyWanted
<1>10. AllWanted(s)'
  BY <1>1, <1>7 DEF AllWanted, Wanted
<1> QED
  BY <1>8, <1>9, <1>10

\* The end of a relay.
LEMMA RelayEndsSo ==
  ASSUME LogStrong, NEW s \in Sessions, RelayEnds(s)
  PROVE  PlacesInOrder(s)' /\ OnlyWanted(s)' /\ AllWanted(s)'
<1>1. /\ held'[s] = 0 /\ relay[s] # "none"
      /\ PlacesInOrder(s) /\ OnlyWanted(s) /\ AllWanted(s) /\ StreamPhases(s)
      /\ UNCHANGED <<entries, minLevel, sessionCancelled, since, overflown>>
  BY DEF RelayEnds, relayRest, sessionVars, LogStrong, LogTyped, PlacesTyped, StreamIsSound
<1>2. UNCHANGED <<source, out, emitCh, emitted>>
  BY DEF RelayEnds, relayRest, emitVars
<1>3. Held(s)' = {} /\ (Held(s) = {} \/ s \in sessionCancelled)
  <2>1. Held(s)' = {}
    BY <1>1 DEF Held
  <2>2. s \in sessionCancelled \/ held[s] = 0
    BY <1>1 DEF RelayEnds, SourceClosed, StreamPhases
  <2> QED
    BY <2>1, <2>2 DEF Held
<1>4. Shown(s)' = Shown(s) /\ Buffered(s)' = Buffered(s) /\ Relayed(s)' = Relayed(s)
        /\ Sourced(s)' = Sourced(s)
  BY <1>2 DEF Shown, Buffered, Relayed, Sourced
<1>5. Underway(s)' \subseteq Underway(s) /\ (Underway(s)' = Underway(s) \/ s \in sessionCancelled)
  BY <1>3, <1>4 DEF Underway
<1>6. PlacesInOrder(s)'
  BY <1>1, <1>2, <1>3, <1>4 DEF PlacesInOrder, Flow, Before
<1>7. OnlyWanted(s)'
  BY <1>1, <1>3, <1>4, <1>5 DEF OnlyWanted
<1>8. AllWanted(s)'
  BY <1>1, <1>5 DEF AllWanted, Wanted
<1> QED
  BY <1>6, <1>7, <1>8

\* The watcher takes the entries in the order they were sent.
LEMMA HandlerTakesOn ==
  ASSUME LogStrong, NEW s \in Sessions, HandlerTakes(s)
  PROVE  PlacesInOrder(s)' /\ OnlyWanted(s)' /\ AllWanted(s)'
<1> DEFINE x == Head(out[s])
<1>1. /\ out[s] \in Seq(Nat) /\ emitCh[s] \in Seq(Nat) /\ out[s] # << >> /\ out'[s] = Tail(out[s])
      /\ PlacesInOrder(s) /\ OnlyWanted(s) /\ AllWanted(s)
      /\ UNCHANGED <<minLevel, sessionCancelled, since, held, emitted, relay, subs>>
  BY DEF HandlerTakes, handlerRest, sessionVars, LogStrong, LogTyped, PlacesTyped, StreamIsSound
<1>2. CASE /\ emitCh' = [emitCh EXCEPT ![s] = Append(emitCh[s], x)]
           /\ UNCHANGED <<entries, source, overflown>>
  <2>1. Increasing(out[s]) /\ Increasing(emitCh[s])
    BY <1>1 DEF PlacesInOrder
  <2>2. x \in Nat /\ Increasing(out'[s]) /\ Relayed(s) = {x} \cup Relayed(s)' /\ Before({x}, Relayed(s)')
    BY <1>1, <2>1, TakeFirst DEF Relayed
  <2>3. Before(ToSet(emitCh[s]), {x})
    BY <1>1, <2>2 DEF PlacesInOrder, Flow, Before, Buffered
  <2>4. emitCh'[s] = Append(emitCh[s], x)
    BY <1>2 DEF LogStrong, LogTyped, PlacesTyped
  <2> HIDE DEF x
  <2>5. Increasing(emitCh'[s]) /\ Buffered(s)' = Buffered(s) \cup {x}
    BY <1>1, <2>1, <2>2, <2>3, <2>4, PutLast DEF Buffered
  <2>6. Shown(s)' = Shown(s) /\ Held(s)' = Held(s) /\ Sourced(s)' = Sourced(s)
    BY <1>1, <1>2 DEF Shown, Held, Sourced
  <2>7. Underway(s)' = Underway(s)
    BY <2>2, <2>5, <2>6 DEF Underway
  <2>8. PlacesInOrder(s)'
    BY <1>1, <1>2, <2>2, <2>5, <2>6 DEF PlacesInOrder, Flow, Before
  <2>9. OnlyWanted(s)'
    BY <1>1, <1>2, <2>2, <2>5, <2>6, <2>7 DEF OnlyWanted
  <2>10. AllWanted(s)'
    BY <1>1, <1>2, <2>7 DEF AllWanted, Wanted
  <2> QED
    BY <2>8, <2>9, <2>10
<1>3. CASE Published(Warn, {s}) /\ UNCHANGED emitCh
  <2>1. Warn \in Nat
    BY LogStreamAssumption
  <2>2. SourceGrows(s) /\ overflown \subseteq overflown' /\ s \in overflown'
    BY <1>1, <1>3, <2>1, PublishedGrows
  <2>3. SamePlaces(s)
    BY <1>1, <1>3, <2>2 DEF SamePlaces
  <2> QED
    BY <1>1, <2>2, <2>3, StreamStays
<1> QED
  BY <1>2, <1>3 DEF HandlerTakes

\* The window shows the entries in the order they were taken.
LEMMA EmitsOn ==
  ASSUME LogStrong, NEW s \in Sessions, EmitLogEntry(s)
  PROVE  PlacesInOrder(s)' /\ OnlyWanted(s)' /\ AllWanted(s)'
<1> DEFINE x == Head(emitCh[s])
<1>1. /\ emitted[s] \in Seq(Nat) /\ emitCh[s] \in Seq(Nat) /\ emitCh[s] # << >>
           /\ emitCh'[s] = Tail(emitCh[s])
      /\ PlacesInOrder(s) /\ OnlyWanted(s) /\ AllWanted(s) /\ emitted'[s] = Append(emitted[s], x)
      /\ UNCHANGED <<minLevel, sessionCancelled>>
  BY DEF EmitLogEntry, sessionVars, LogStrong, LogTyped, PlacesTyped, StreamIsSound
<1>2. UNCHANGED <<entries, since, held, relay, out, source, overflown>>
  BY DEF EmitLogEntry, streamVars
<1>3. Increasing(emitted[s]) /\ Increasing(emitCh[s])
  BY <1>1 DEF PlacesInOrder
<1>4. x \in Nat /\ Increasing(emitCh'[s]) /\ Buffered(s) = {x} \cup Buffered(s)' /\ Before({x}, Buffered(s)')
  BY <1>1, <1>3, TakeFirst DEF Buffered
<1>5. Before(ToSet(emitted[s]), {x})
  BY <1>1, <1>4 DEF PlacesInOrder, Flow, Before, Shown
<1> HIDE DEF x
<1>6. Increasing(emitted'[s]) /\ Shown(s)' = Shown(s) \cup {x}
  BY <1>1, <1>3, <1>4, <1>5, PutLast DEF Shown
<1>7. Relayed(s)' = Relayed(s) /\ Held(s)' = Held(s) /\ Sourced(s)' = Sourced(s)
  BY <1>2 DEF Relayed, Held, Sourced
<1>8. Underway(s)' = Underway(s)
  BY <1>4, <1>6, <1>7 DEF Underway
<1>9. PlacesInOrder(s)'
  BY <1>1, <1>2, <1>4, <1>6, <1>7 DEF PlacesInOrder, Flow, Before
<1>10. OnlyWanted(s)'
  BY <1>1, <1>2, <1>4, <1>6, <1>7, <1>8 DEF OnlyWanted
<1>11. AllWanted(s)'
  BY <1>1, <1>2, <1>8 DEF AllWanted, Wanted
<1> QED
  BY <1>9, <1>10, <1>11

\* The present session is the only one that goes on.
LEMMA SessionStays == LogStrong /\ LogNext => OneSession'
<1> SUFFICES ASSUME LogStrong, LogNext PROVE OneSession'
  OBVIOUS
<1>1. OneSession /\ SessionsTyped /\ \A s \in Sessions : s # 0
  BY DEF LogStrong, LogTyped, Sessions
<1>2. CASE Write
  BY <1>1, <1>2 DEF Write, OneSession, sessionVars, emitVars
<1>3. CASE StopLogStream
  BY <1>1, <1>3 DEF StopLogStream, OneSession, emitVars
<1>4. ASSUME NEW s \in Sessions, StartLogStream(s) PROVE OneSession'
  BY <1>1, <1>4 DEF StartLogStream, OneSession, SessionsTyped
<1>5. ASSUME NEW s \in Sessions, Subscribe(s) PROVE OneSession'
  BY <1>1, <1>5 DEF Subscribe, OneSession, SessionsTyped, sessionVars
<1>6. ASSUME NEW s \in Sessions, SourceCloses(s) \/ EmitLogEntry(s) PROVE OneSession'
  BY <1>1, <1>6 DEF SourceCloses, EmitLogEntry, OneSession, sessionVars, emitVars
<1>7. ASSUME NEW s \in Sessions, RelayTakes(s) \/ RelaySends(s) \/ RelayEnds(s) PROVE OneSession'
  BY <1>1, <1>7 DEF RelayTakes, RelaySends, RelayEnds, relayRest, OneSession, sessionVars, emitVars
<1>8. ASSUME NEW s \in Sessions, HandlerTakes(s) PROVE OneSession'
  BY <1>1, <1>8 DEF HandlerTakes, handlerRest, OneSession, sessionVars
<1>9. ASSUME NEW s \in Sessions, FinishLogSession(s) PROVE OneSession'
  BY <1>1, <1>9 DEF FinishLogSession, OneSession, SessionsTyped
<1>10. ASSUME NEW s \in Sessions, SessionDone(s) PROVE OneSession'
  BY <1>1, <1>10 DEF SessionDone, EmitterLast, OneSession, SessionsTyped, sessionVars
<1> QED
  BY <1>2, <1>3, <1>4, <1>5, <1>6, <1>7, <1>8, <1>9, <1>10 DEF LogNext, StreamStep

\* Where a stream is in its life.
LEMMA PhasesStay ==
  ASSUME LogStrong, LogNext, NEW r \in Sessions
  PROVE  StreamPhases(r)'
<1>1. SessionsTyped /\ PlacesTyped /\ StreamPhases(r) /\ SinceIsPast
  BY DEF LogStrong, LogTyped, StreamIsSound
<1>2. CASE Write
  <2>1. /\ UNCHANGED <<sessionVars, subs, since, relay, held, out, emitVars>>
        /\ r \notin subs => source'[r] = source[r]
    BY <1>1, <1>2 DEF Write, Published, PlacesTyped
  <2> QED
    BY <1>1, <2>1 DEF StreamPhases, sessionVars, emitVars
<1>3. CASE StopLogStream
  BY <1>1, <1>3 DEF StopLogStream, StreamPhases, streamVars, emitVars
<1>4. ASSUME NEW s \in Sessions, StartLogStream(s) PROVE StreamPhases(r)'
  BY <1>1, <1>4 DEF StartLogStream, StreamPhases, SessionsTyped, streamVars
<1>5. ASSUME NEW s \in Sessions, Subscribe(s) PROVE StreamPhases(r)'
  BY <1>1, <1>5 DEF Subscribe, StreamPhases, SessionsTyped, sessionVars
<1>6. ASSUME NEW s \in Sessions, SourceCloses(s) PROVE StreamPhases(r)'
  BY <1>1, <1>6 DEF SourceCloses, StreamPhases, sessionVars, emitVars
<1>7. ASSUME NEW s \in Sessions, RelayTakes(s) PROVE StreamPhases(r)'
  <2>1. CASE r # s
    BY <1>1, <1>7, <2>1 DEF RelayTakes, relayRest, StreamPhases, SessionsTyped, PlacesTyped,
       sessionVars, emitVars
  <2>2. CASE r = s
    <3>1. relay[s] = "recv" /\ held[s] = 0 /\ (relay'[s] = "send" <=> held'[s] # 0)
            /\ relay'[s] \in {"recv", "send"}
      <4>1. source[s] \in Seq(Nat) /\ source[s] # << >> /\ Increasing(source[s]) /\ OnlyWanted(s)
        BY <1>7 DEF RelayTakes, LogStrong, LogTyped, PlacesTyped, StreamIsSound, PlacesInOrder
      <4>2. Head(source[s]) \in Sourced(s)
        BY <4>1, TakeFirst DEF Sourced
      <4>3. Head(source[s]) # 0
        BY <4>1, <4>2 DEF OnlyWanted, Underway
      <4> QED
        BY <1>1, <1>7, <2>2, <4>3 DEF RelayTakes, SessionsTyped, PlacesTyped, StreamPhases
    <3>2. UNCHANGED <<handler, subs, sessionCancelled>>
      BY <1>7 DEF RelayTakes, relayRest, sessionVars, emitVars
    <3> QED
      BY <1>1, <2>2, <3>1, <3>2 DEF StreamPhases
  <2> QED
    BY <2>1, <2>2
<1>8. ASSUME NEW s \in Sessions, RelaySends(s) PROVE StreamPhases(r)'
  BY <1>1, <1>8 DEF RelaySends, relayRest, StreamPhases, SessionsTyped, PlacesTyped, sessionVars, emitVars
<1>9. ASSUME NEW s \in Sessions, RelayEnds(s) PROVE StreamPhases(r)'
  BY <1>1, <1>9 DEF RelayEnds, SourceClosed, relayRest, StreamPhases, SessionsTyped, PlacesTyped,
     sessionVars, emitVars
<1>10. ASSUME NEW s \in Sessions, HandlerTakes(s) PROVE StreamPhases(r)'
  <2>1. /\ UNCHANGED <<handler, sessionVars, subs, since, relay, held, emitted>>
        /\ r \notin subs => source'[r] = source[r]
        /\ r # s => out'[r] = out[r] /\ emitCh'[r] = emitCh[r]
        /\ out[s] # << >>
    BY <1>1, <1>10 DEF HandlerTakes, handlerRest, Published, PlacesTyped
  <2> QED
    BY <1>1, <2>1 DEF StreamPhases, sessionVars
<1>11. ASSUME NEW s \in Sessions, FinishLogSession(s) \/ SessionDone(s) PROVE StreamPhases(r)'
  BY <1>1, <1>11 DEF FinishLogSession, SessionDone, EmitterLast, StreamPhases, SessionsTyped,
     streamVars, sessionVars
<1>12. ASSUME NEW s \in Sessions, EmitLogEntry(s) PROVE StreamPhases(r)'
  BY <1>1, <1>12 DEF EmitLogEntry, StreamPhases, PlacesTyped, streamVars, sessionVars
<1> QED
  BY <1>2, <1>3, <1>4, <1>5, <1>6, <1>7, <1>8, <1>9, <1>10, <1>11, <1>12 DEF LogNext, StreamStep

\* A step of the log keeps every stream sound.
LEMMA LogStep == LogStrong /\ LogNext => LogStrong'
<1> SUFFICES ASSUME LogStrong, LogNext PROVE LogStrong'
  OBVIOUS
<1> DEFINE Sound(r) == PlacesInOrder(r) /\ OnlyWanted(r) /\ AllWanted(r)
<1>1. /\ SessionsTyped /\ PlacesTyped
      /\ \A r \in Sessions : StreamPhases(r) /\ PlacesInOrder(r) /\ OnlyWanted(r) /\ AllWanted(r)
  BY DEF LogStrong, LogTyped, StreamIsSound
<1>2. ASSUME Write, NEW r \in Sessions PROVE Sound(r)'
  <2>1. PICK level \in Nat : Published(level, {})
    BY <1>2, LogStreamAssumption DEF Write
  <2>2. UNCHANGED <<sessionVars, subs, since, relay, held, out, emitVars>>
    BY <1>2 DEF Write
  <2>3. SourceGrows(r) /\ overflown \subseteq overflown'
    BY <2>1, <2>2, PublishedGrows
  <2>4. SamePlaces(r) /\ relay'[r] = relay[r]
    BY <2>2, <2>3 DEF SamePlaces, sessionVars, emitVars
  <2> QED
    BY <2>3, <2>4, StreamStays
<1>3. ASSUME StopLogStream, NEW r \in Sessions PROVE Sound(r)'
  <2>1. SourceGrows(r) /\ SamePlaces(r) /\ relay'[r] = relay[r]
    BY <1>3 DEF StopLogStream, SourceGrows, SamePlaces, streamVars, emitVars
  <2> QED
    BY <2>1, StreamStays
<1>4. ASSUME NEW s \in Sessions, StartLogStream(s), NEW r \in Sessions PROVE Sound(r)'
  <2>1. SourceGrows(r) /\ relay' = relay
    BY <1>4 DEF StartLogStream, SourceGrows, streamVars
  <2>2. CASE r # s
    BY <1>1, <1>4, <2>1, <2>2, StreamStays DEF StartLogStream, SamePlaces, SessionsTyped, streamVars
  <2>3. CASE r = s
    <3>1. relay[s] = "none"
      BY <1>1, <1>4 DEF StartLogStream, StreamPhases
    <3>2. Underway(s) = {} /\ Shown(s) \cup Buffered(s) \cup Relayed(s) \cup Held(s) = {}
      BY <1>1, <3>1, NoPlaces DEF StreamPhases, Underway, Shown, Buffered, Relayed, Held, Sourced
    <3>3. UNCHANGED <<entries, streamVars, emitCh, emitted, overflown>>
      BY <1>4 DEF StartLogStream
    <3>4. Underway(s)' = {} /\ (Shown(s) \cup Buffered(s) \cup Relayed(s) \cup Held(s))' = {}
      BY <3>2, <3>3 DEF Underway, Shown, Buffered, Relayed, Held, Sourced, streamVars
    <3>5. PlacesInOrder(s)'
      BY <1>1, <3>3 DEF PlacesInOrder, Shown, Buffered, Relayed, Held, Sourced, streamVars
    <3>6. OnlyWanted(s)' /\ AllWanted(s)'
      BY <3>1, <3>3, <3>4 DEF OnlyWanted, AllWanted, streamVars
    <3> QED
      BY <2>3, <3>5, <3>6
  <2> QED
    BY <2>2, <2>3
<1>5. ASSUME NEW s \in Sessions, Subscribe(s), NEW r \in Sessions PROVE Sound(r)'
  <2>1. SourceGrows(r)
    BY <1>5 DEF Subscribe, SourceGrows
  <2>2. CASE r # s
    BY <1>1, <1>5, <2>1, <2>2, StreamStays DEF Subscribe, SamePlaces, SessionsTyped, PlacesTyped, sessionVars
  <2>3. CASE r = s
    <3>1. relay[s] = "none"
      BY <1>1, <1>5 DEF Subscribe, StreamPhases
    <3>2. Underway(s) = {} /\ Shown(s) \cup Buffered(s) \cup Relayed(s) \cup Held(s) = {}
      BY <1>1, <3>1, NoPlaces DEF StreamPhases, Underway, Shown, Buffered, Relayed, Held, Sourced
    <3>3. UNCHANGED <<entries, source, held, out, emitCh, emitted>> /\ since'[s] = Len(entries)
      BY <1>1, <1>5 DEF Subscribe, PlacesTyped
    <3>4. Underway(s)' = {} /\ (Shown(s) \cup Buffered(s) \cup Relayed(s) \cup Held(s))' = {}
      BY <3>2, <3>3 DEF Underway, Shown, Buffered, Relayed, Held, Sourced
    <3>5. PlacesInOrder(s)'
      BY <1>1, <3>3 DEF PlacesInOrder, Shown, Buffered, Relayed, Held, Sourced
    <3>6. \A k \in 1..Len(entries') : ~(k > since'[s])
      <4>1. Len(entries) \in Nat
        BY DEF LogStrong, LogTyped, EntriesTyped
      <4> QED
        BY <3>3, <4>1
    <3>7. OnlyWanted(s)' /\ AllWanted(s)'
      BY <3>4, <3>6 DEF OnlyWanted, AllWanted, Wanted
    <3> QED
      BY <2>3, <3>5, <3>7
  <2> QED
    BY <2>2, <2>3
<1>6. ASSUME NEW s \in Sessions, SourceCloses(s) \/ FinishLogSession(s) \/ SessionDone(s),
        NEW r \in Sessions PROVE Sound(r)'
  <2>1. SourceGrows(r) /\ SamePlaces(r) /\ relay'[r] = relay[r]
    BY <1>6 DEF SourceCloses, FinishLogSession, SessionDone, SourceGrows, SamePlaces, sessionVars,
       streamVars, emitVars
  <2> QED
    BY <2>1, StreamStays
<1>7. ASSUME NEW s \in Sessions, RelayTakes(s) \/ RelaySends(s) \/ RelayEnds(s), NEW r \in Sessions
      PROVE Sound(r)'
  <2>1. CASE r = s
    BY <1>7, <2>1, RelayTakesOn, RelaySendsOn, RelayEndsSo
  <2>2. CASE r # s
    <3>1. SourceGrows(r) /\ SamePlaces(r) /\ relay'[r] = relay[r]
      BY <1>1, <1>7, <2>2, SMTT(30)
      DEF RelayTakes, RelaySends, RelayEnds, relayRest, SourceGrows, SamePlaces, SessionsTyped,
          PlacesTyped, sessionVars, emitVars
    <3> QED
      BY <3>1, StreamStays
  <2> QED
    BY <2>1, <2>2
<1>8. ASSUME NEW s \in Sessions, HandlerTakes(s), NEW r \in Sessions PROVE Sound(r)'
  <2>1. CASE r = s
    BY <1>8, <2>1, HandlerTakesOn
  <2>2. CASE r # s
    <3>1. /\ UNCHANGED <<sessionVars, subs, since, relay, held, emitted>>
          /\ out'[r] = out[r] /\ emitCh'[r] = emitCh[r]
      BY <1>1, <1>8, <2>2 DEF HandlerTakes, handlerRest, PlacesTyped
    <3>2. SourceGrows(r) /\ overflown \subseteq overflown'
      <4>1. CASE UNCHANGED <<entries, source, overflown>>
        BY <4>1 DEF SourceGrows
      <4>2. CASE Published(Warn, {s})
        BY <3>1, <4>2, PublishedGrows, LogStreamAssumption
      <4> QED
        BY <1>8, <4>1, <4>2 DEF HandlerTakes
    <3>3. SamePlaces(r)
      BY <3>1, <3>2 DEF SamePlaces, sessionVars
    <3> QED
      BY <3>1, <3>2, <3>3, StreamStays
  <2> QED
    BY <2>1, <2>2
<1>9. ASSUME NEW s \in Sessions, EmitLogEntry(s), NEW r \in Sessions PROVE Sound(r)'
  <2>1. CASE r = s
    BY <1>9, <2>1, EmitsOn
  <2>2. CASE r # s
    <3>1. SourceGrows(r) /\ SamePlaces(r) /\ relay'[r] = relay[r]
      BY <1>1, <1>9, <2>2 DEF EmitLogEntry, SourceGrows, SamePlaces, PlacesTyped, sessionVars, streamVars
    <3> QED
      BY <3>1, StreamStays
  <2> QED
    BY <2>1, <2>2
<1> HIDE DEF Sound
<1>10. \A r \in Sessions : Sound(r)'
  BY <1>2, <1>3, <1>4, <1>5, <1>6, <1>7, <1>8, <1>9 DEF LogNext, StreamStep
<1>11. \A r \in Sessions : StreamPhases(r)'
  BY PhasesStay
<1> QED
  BY <1>10, <1>11, LogTypes, SessionStays DEF LogStrong, StreamIsSound, Sound

\* What is in flight, of the five places.
LEMMA FlightIsOrdered ==
  ASSUME LogStrong, NEW s \in Sessions
  PROVE  Increasing(InFlight(s)) /\ ToSet(InFlight(s)) = Underway(s)
<1> DEFINE h == IF held[s] = 0 THEN << >> ELSE <<held[s]>>
           a == emitted[s] \o emitCh[s]
           b == a \o out[s]
           c == b \o h
<1>1. /\ emitted[s] \in Seq(Nat) /\ emitCh[s] \in Seq(Nat) /\ out[s] \in Seq(Nat) /\ source[s] \in Seq(Nat)
      /\ held[s] \in Nat /\ PlacesInOrder(s)
  BY DEF LogStrong, LogTyped, PlacesTyped, StreamIsSound
<1>2. h \in Seq(Nat) /\ Increasing(h) /\ ToSet(h) = Held(s)
  <2>1. CASE held[s] = 0
    BY <2>1, NoPlaces DEF Held
  <2>2. CASE held[s] # 0
    <3>1. h = <<held[s]>> /\ Len(h) = 1 /\ DOMAIN h = {1}
      BY <2>2
    <3> QED
      BY <1>1, <2>2, <3>1 DEF Increasing, ToSet, Held
  <2> QED
    BY <2>1, <2>2
<1> HIDE DEF h
<1>3. a \in Seq(Nat) /\ Increasing(a) /\ ToSet(a) = Shown(s) \cup Buffered(s)
  BY <1>1, PutTogether DEF PlacesInOrder, Flow, Shown, Buffered
<1> HIDE DEF a
<1>4. b \in Seq(Nat) /\ Increasing(b) /\ ToSet(b) = ToSet(a) \cup Relayed(s)
  <2>1. Before(ToSet(a), ToSet(out[s])) /\ Increasing(out[s])
    BY <1>1, <1>3 DEF PlacesInOrder, Flow, Before, Relayed
  <2> QED
    BY <1>1, <1>3, <2>1, PutTogether DEF Relayed
<1> HIDE DEF b
<1>5. c \in Seq(Nat) /\ Increasing(c) /\ ToSet(c) = ToSet(b) \cup Held(s)
  <2>1. Before(ToSet(b), ToSet(h))
    BY <1>1, <1>2, <1>3, <1>4 DEF PlacesInOrder, Flow, Before
  <2> QED
    BY <1>2, <1>4, <2>1, PutTogether
<1> HIDE DEF c
<1>6. Increasing(c \o source[s]) /\ ToSet(c \o source[s]) = ToSet(c) \cup Sourced(s)
  <2>1. Before(ToSet(c), ToSet(source[s])) /\ Increasing(source[s])
    BY <1>1, <1>3, <1>4, <1>5 DEF PlacesInOrder, Flow, Before, Sourced
  <2> QED
    BY <1>1, <1>5, <2>1, PutTogether DEF Sourced
<1>7. InFlight(s) = c \o source[s]
  BY DEF InFlight, h, a, b, c
<1> QED
  BY <1>3, <1>4, <1>5, <1>6, <1>7 DEF Underway

\* The strong invariants give the one that is checked.
LEMMA LogHolds == LogStrong /\ HubStrong => LogInv
<1> SUFFICES ASSUME LogStrong, HubStrong PROVE LogInv
  OBVIOUS
<1>1. LSTypeOK
  BY DEF LSTypeOK, LogStrong, LogTyped, EntriesTyped, SessionsTyped, CapsHold, HubStrong, RingTyped
<1>2. ASSUME NEW s \in Sessions
      PROVE  /\ \A i, j \in DOMAIN InFlight(s) : i < j => InFlight(s)[i] < InFlight(s)[j]
             /\ \A k \in ToSet(emitted[s]) : k \in DOMAIN entries /\ Wanted(s, k)
             /\ (relay[s] # "none" /\ s \notin overflown \cup sessionCancelled) =>
                  {k \in ToSet(InFlight(s)) : Wanted(s, k)} = {k \in DOMAIN entries : Wanted(s, k)}
  <2>1. DOMAIN entries = 1..Len(entries) /\ OnlyWanted(s) /\ AllWanted(s)
    BY DEF LogStrong, LogTyped, EntriesTyped, StreamIsSound
  <2>2. Increasing(InFlight(s)) /\ ToSet(InFlight(s)) = Underway(s)
    BY FlightIsOrdered
  <2>3. \A k \in ToSet(emitted[s]) : k \in DOMAIN entries /\ Wanted(s, k)
    BY <2>1 DEF OnlyWanted, Underway, Shown, Wanted
  <2>4. \A k \in Underway(s) : k \in DOMAIN entries
    BY <2>1 DEF OnlyWanted
  <2> HIDE DEF Increasing
  <2>5. \A i, j \in DOMAIN InFlight(s) : i < j => InFlight(s)[i] < InFlight(s)[j]
    BY <2>2 DEF Increasing
  <2>6. (relay[s] # "none" /\ s \notin overflown \cup sessionCancelled) =>
          {k \in ToSet(InFlight(s)) : Wanted(s, k)} = {k \in DOMAIN entries : Wanted(s, k)}
    BY <2>1, <2>2, <2>4 DEF AllWanted
  <2> QED
    BY <2>3, <2>5, <2>6
<1>3. LogIsFaithful
  BY <1>2 DEF LogIsFaithful
<1>4. OneSession /\ ListedAreLive
  BY DEF LogStrong, LogTyped, SessionsTyped, ListedAreLive, StreamIsSound, StreamPhases
<1> QED
  BY <1>1, <1>3, <1>4, HubHolds DEF LogInv

--------------------------------------------------------------------------------
(* The observability server.                                               *)

RunsTyped ==
  /\ runAt \in [Runs -> {"none", "listen", "serve", "ending", "done"}]
  /\ runCfg \in [Runs -> Settings] /\ runCtx \in [Runs -> Contexts]
       /\ boundTo \in [Addresses -> 0..MaxApplies]

ControllerTyped ==
  /\ current \in Settings /\ applies \in 0..MaxApplies /\ runID \in 0..applies /\ cancel \in {0, runID}
  /\ runCancelled \subseteq Runs /\ endedContexts \subseteq Contexts /\ refused \in BOOLEAN

\* Runs are numbered in their order, and who is bound to an address serves there.
RunsFollow ==
  /\ \A r \in Runs : r > runID => runAt[r] = "none"
  /\ cancel \notin runCancelled /\ \A r \in runCancelled : r <= runID
  /\ \A a \in Addresses : boundTo[a] # 0 => runCfg[boundTo[a]].addr = a /\ runAt[boundTo[a]] = "serve"

\* A run that ends of itself was refused, or its context is done.
EndsForReason ==
  (cancel # 0 /\ runAt[cancel] \in {"ending", "done"}) => refused \/ runCtx[cancel] \in endedContexts

ObsStrong == RunsTyped /\ ControllerTyped /\ RunsFollow /\ EndsForReason /\ OneServer /\ OnlyRefused

\* The runs are numbered.
LEMMA RunsAre == Runs \subseteq Nat /\ 0 \notin Runs /\ MaxApplies \in Nat
  /\ \A r \in 1..MaxApplies : r \in Runs
BY ObservabilityAssumption DEF Runs

\* The first state of the controller.
LEMMA ObsBegins == ObsInit => ObsStrong
<1> SUFFICES ASSUME ObsInit PROVE ObsStrong
  OBVIOUS
<1> USE ObservabilityAssumption, RunsAre DEF ObsInit
<1>1. Off \in Settings /\ ~Off.enabled /\ AppContext \in Contexts
  BY DEF Off, Settings, Contexts
<1>2. RunsTyped
  BY <1>1 DEF RunsTyped
<1>3. ControllerTyped
  <2>1. applies \in 0..MaxApplies /\ runID \in 0..applies /\ cancel \in {0, runID}
    OBVIOUS
  <2> QED
    BY <1>1, <2>1 DEF ControllerTyped
<1>4. RunsFollow /\ EndsForReason
  BY DEF RunsFollow, EndsForReason
<1>5. OneServer /\ OnlyRefused
  BY <1>1 DEF OneServer, OnlyRefused
<1> QED
  BY <1>2, <1>3, <1>4, <1>5 DEF ObsStrong

\* What the settings resolve to are settings.
LEMMA ResolvedIsSettings ==
  ASSUME NEW addr \in Addresses \cup {Unset}, NEW enabled \in BOOLEAN \cup {Unset}
  PROVE  ResolveObservabilityState(addr, enabled) \in Settings
<1>1. (IF addr = Unset THEN DefaultAddress ELSE addr) \in Addresses
  BY ObservabilityAssumption
<1>2. (IF enabled = Unset THEN DefaultEnabled ELSE enabled = TRUE) \in BOOLEAN
  BY ObservabilityAssumption
<1> QED
  BY <1>1, <1>2 DEF ResolveObservabilityState, Settings

\* A configuration is applied.
LEMMA ApplyKeeps ==
  ASSUME ObsStrong, applies < MaxApplies, applies' = applies + 1, NEW state \in Settings,
    NEW ctx \in Contexts,
         TurnOff(state) \/ LeaveAsIs(state, ctx) \/ StartAnew(state, ctx)
  PROVE  ObsStrong'
<1> USE RunsAre DEF ObsStrong
<1>1. applies \in Nat /\ runID \in 0..applies /\ cancel \in {0, runID} /\ (cancel # 0 => cancel \in Runs)
  BY DEF ControllerTyped
<1>2. CASE TurnOff(state)
  <2> USE <1>2 DEF TurnOff
  <2>1. RunsTyped'
    BY DEF RunsTyped
  <2>2. ControllerTyped'
    <3>1. applies' \in 0..MaxApplies /\ runID' \in 0..applies' /\ cancel' \in {0, runID'}
      BY <1>1 DEF ControllerTyped
    <3> QED
      BY <1>1, <3>1 DEF ControllerTyped
  <2>3. RunsFollow' /\ EndsForReason'
    BY <1>1 DEF RunsFollow, EndsForReason, RunsTyped, ControllerTyped
  <2>4. OneServer' /\ OnlyRefused'
    BY <1>1 DEF OneServer, OnlyRefused
  <2> QED
    BY <2>1, <2>2, <2>3, <2>4
<1>3. CASE LeaveAsIs(state, ctx)
  <2> USE <1>3 DEF LeaveAsIs, runVars
  <2>1. RunsTyped'
    BY DEF RunsTyped
  <2>2. ControllerTyped'
    <3>1. applies' \in 0..MaxApplies /\ runID' \in 0..applies' /\ cancel' \in {0, runID'}
      BY <1>1 DEF ControllerTyped
    <3> QED
      BY <1>1, <3>1 DEF ControllerTyped
  <2>3. RunsFollow' /\ EndsForReason'
    BY DEF RunsFollow, EndsForReason
  <2>4. OneServer' /\ OnlyRefused'
    BY DEF OneServer, OnlyRefused
  <2> QED
    BY <2>1, <2>2, <2>3, <2>4
<1>4. CASE StartAnew(state, ctx)
  <2> DEFINE n == runID + 1
  <2>1. n \in Runs /\ n > runID /\ n # 0 /\ n # cancel /\ runID' = n /\ cancel' = n
    BY <1>1, <1>4 DEF StartAnew
  <2>2. /\ runCancelled' = runCancelled \cup ({cancel} \ {0}) /\ current' = state /\ state.enabled
             /\ refused' = FALSE
        /\ UNCHANGED <<endedContexts, boundTo>>
    BY <1>4 DEF StartAnew
  <2>3. /\ runAt' = [runAt EXCEPT ![n] = "listen"]
        /\ runCfg' = [runCfg EXCEPT ![n] = state] /\ runCtx' = [runCtx EXCEPT ![n] = ctx]
    BY <1>4 DEF StartAnew
  <2> HIDE DEF n
  <2>4. runAt[n] = "none"
    BY <1>1, <2>1 DEF RunsFollow
  <2>5. RunsTyped'
    BY <2>1, <2>2, <2>3 DEF RunsTyped
  <2>6. ControllerTyped'
    <3>1. runID' \in 0..applies'
      BY <1>1, <2>1 DEF n
    <3>2. applies' \in 0..MaxApplies
      BY <1>1
    <3> QED
      BY <1>1, <2>1, <2>2, <3>1, <3>2 DEF ControllerTyped
  <2>a. \A r \in Runs : /\ runAt'[r] = (IF r = n THEN "listen" ELSE runAt[r])
                        /\ runCfg'[r] = (IF r = n THEN state ELSE runCfg[r])
    BY <2>3 DEF RunsTyped
  <2>7. RunsFollow'
    <3>1. \A r \in Runs : r > n => runAt'[r] = "none"
      BY <1>1, <2>1, <2>a DEF RunsFollow, n
    <3>2. n \notin runCancelled /\ \A r \in runCancelled' : r <= n
      <4>1. \A r \in runCancelled : r \in Nat /\ r <= runID
        BY DEF RunsFollow, ControllerTyped
      <4>2. \A r \in runCancelled : r < n
        BY <1>1, <4>1 DEF n
      <4>3. cancel \in Nat /\ cancel < n /\ n \in Nat
        BY <1>1 DEF n
      <4>4. n \notin runCancelled
        BY <4>1, <4>2, <4>3
      <4>5. ASSUME NEW r \in runCancelled' PROVE r <= n
        BY <2>2, <4>1, <4>2, <4>3
      <4> QED
        BY <4>4, <4>5
    <3>3. \A a \in Addresses : boundTo[a] # 0 => boundTo[a] \in Runs /\ boundTo[a] # n
      BY <2>4 DEF RunsFollow, RunsTyped, Runs
    <3> QED
      BY <2>1, <2>2, <2>a, <3>1, <3>2, <3>3 DEF RunsFollow
  <2>8. EndsForReason'
    BY <2>1, <2>a DEF EndsForReason
  <2>9. OneServer'
    BY <2>1, <2>2, <2>a DEF OneServer
  <2>10. OnlyRefused'
    BY <2>1 DEF OnlyRefused
  <2> QED
    BY <2>5, <2>6, <2>7, <2>8, <2>9, <2>10
<1> QED
  BY <1>2, <1>3, <1>4

\* The step of the controller, of a context, or of a run.
LEMMA ObsStep == ObsStrong /\ ObsNext => ObsStrong'
<1> SUFFICES ASSUME ObsStrong, ObsNext PROVE ObsStrong'
  OBVIOUS
<1> USE RunsAre DEF ObsStrong
<1>1. applies \in Nat /\ runID \in 0..applies /\ cancel \in {0, runID} /\ (cancel # 0 => cancel \in Runs)
  BY DEF ControllerTyped
<1>2. CASE Apply
  <2>1. PICK addr \in Addresses \cup {Unset}, enabled \in BOOLEAN \cup {Unset}, ctx \in Contexts :
          \/ TurnOff(ResolveObservabilityState(addr, enabled))
          \/ LeaveAsIs(ResolveObservabilityState(addr, enabled), ctx)
          \/ StartAnew(ResolveObservabilityState(addr, enabled), ctx)
    BY <1>2 DEF Apply
  <2>2. ResolveObservabilityState(addr, enabled) \in Settings
    BY ResolvedIsSettings
  <2> QED
    BY <1>2, <2>1, <2>2, ApplyKeeps DEF Apply
<1>3. CASE ContextEnds
  <2> USE <1>3 DEF ContextEnds, controllerVars
  <2>1. RunsTyped' /\ ControllerTyped'
    BY DEF RunsTyped, ControllerTyped
  <2>2. RunsFollow' /\ EndsForReason'
    BY DEF RunsFollow, EndsForReason
  <2>3. OneServer' /\ OnlyRefused'
    BY DEF OneServer, OnlyRefused
  <2> QED
    BY <2>1, <2>2, <2>3
<1>4. ASSUME NEW r \in Runs, Listens(r) PROVE ObsStrong'
  <2> USE <1>4 DEF Listens, controllerVars
  <2>1. runAt[r] = "listen" /\ runCfg[r].addr \in Addresses
    BY DEF RunsTyped, Settings
  <2>2. PICK to \in {"serve", "ending"} : runAt' = [runAt EXCEPT ![r] = to]
    OBVIOUS
  <2>3. RunsTyped' /\ ControllerTyped'
    <3>1. boundTo' \in [Addresses -> 0..MaxApplies]
      BY DEF RunsTyped, Runs
    <3>2. refused' \in BOOLEAN
      BY DEF ControllerTyped
    <3> QED
      BY <2>2, <3>1, <3>2 DEF RunsTyped, ControllerTyped
  <2>4. r <= runID
    BY <1>1, <2>1 DEF RunsFollow
  <2>5. RunsFollow'
    <3>1. \A q \in Runs : q > runID => runAt'[q] = "none"
      BY <1>1, <2>2, <2>4 DEF RunsFollow, RunsTyped
    <3>2. ASSUME NEW a \in Addresses, boundTo'[a] # 0 PROVE runCfg[boundTo'[a]].addr = a
            /\ runAt'[boundTo'[a]] = "serve"
      <4>1. CASE boundTo'[a] = r
        BY <2>1, <2>2, <3>2, <4>1 DEF RunsFollow, RunsTyped
      <4>2. CASE boundTo'[a] # r
        BY <2>1, <2>2, <3>2, <4>2 DEF RunsFollow, RunsTyped, Runs
      <4> QED
        BY <4>1, <4>2
    <3> QED
      BY <3>1, <3>2 DEF RunsFollow
  <2>6. EndsForReason'
    BY <1>1, <2>1, <2>2 DEF EndsForReason, RunsTyped, ControllerTyped
  <2>7. OneServer' /\ OnlyRefused'
    BY <2>1, <2>2 DEF OneServer, OnlyRefused, RunsTyped, ControllerTyped
  <2> QED
    BY <2>3, <2>5, <2>6, <2>7
<1>5. ASSUME NEW r \in Runs, ShutsDown(r) PROVE ObsStrong'
  <2> USE <1>5 DEF ShutsDown, controllerVars
  <2>1. RunsTyped' /\ ControllerTyped'
    BY DEF RunsTyped, ControllerTyped
  <2>2. RunsFollow'
    BY <1>1 DEF RunsFollow, RunsTyped, Runs
  <2>3. EndsForReason'
    BY <1>1 DEF EndsForReason, RunsTyped, RunsFollow, Cancelled
  <2>4. OneServer' /\ OnlyRefused'
    BY DEF OneServer, OnlyRefused, RunsTyped
  <2> QED
    BY <2>1, <2>2, <2>3, <2>4
<1>6. ASSUME NEW r \in Runs, RunEnds(r) PROVE ObsStrong'
  <2> USE <1>6 DEF RunEnds
  <2>1. RunsTyped' /\ ControllerTyped'
    BY DEF RunsTyped, ControllerTyped
  <2>2. RunsFollow'
    BY <1>1 DEF RunsFollow, RunsTyped, ControllerTyped, Runs
  <2>3. EndsForReason'
    BY <1>1 DEF EndsForReason, RunsTyped
  <2>4. OneServer'
    BY <1>1 DEF OneServer, RunsTyped
  <2>5. OnlyRefused'
    BY <1>1 DEF OnlyRefused, OneServer, EndsForReason
  <2> QED
    BY <2>1, <2>2, <2>3, <2>4, <2>5
<1> QED
  BY <1>2, <1>3, <1>4, <1>5, <1>6 DEF ObsNext

\* The invariant says what ObservabilityInv asks.
LEMMA ObsHolds == ObsStrong => ObservabilityInv
<1> SUFFICES ASSUME ObsStrong PROVE ObservabilityInv
  OBVIOUS
<1>1. {cancel, runID} \subseteq 0..MaxApplies
  BY RunsAre DEF ObsStrong, ControllerTyped
<1>2. ObsTypeOK
  BY <1>1 DEF ObsTypeOK, ObsStrong, ControllerTyped, RunsTyped, RunsFollow
<1> QED
  BY <1>2 DEF ObservabilityInv, ObsStrong

--------------------------------------------------------------------------------
(* The RPC server.                                                         *)

RpcTyped ==
  /\ network \in {"unix", "tcp"} /\ leadsTo \in RpcServers \cup {0}
  /\ at \in [RpcServers -> {"none", "listen", "configure", "serve", "graceful", "done"}]
  /\ failed \cup coreDone \cup listening \cup health \cup unlinked \subseteq RpcServers
CallsTyped ==
  rpcCalls \in [RpcServers -> Nat] /\ watches \in [RpcServers -> Nat]
    /\ taken \in [RpcServers -> 0..MaxRpcCalls]

\* What a server has at every place of its Run.
PhaseHas(r) ==
  /\ r \in health <=> at[r] = "serve"
  /\ at[r] \in {"configure", "serve"} => leadsTo = r \/ r \in unlinked
  /\ at[r] \in {"none", "listen", "graceful"} => r \notin listening
  /\ at[r] \in {"none", "listen", "configure"} => taken[r] = 0
  /\ at[r] \in {"none", "listen", "configure", "done"} => rpcCalls[r] = 0 /\ watches[r] = 0
  /\ at[r] = "done" /\ r \in listening => r \in failed /\ taken[r] = 0

AddressIsOf == /\ leadsTo # 0 => leadsTo \in listening
               /\ network = "tcp" => unlinked = {}

RpcStrong == RpcTyped /\ CallsTyped /\ AddressIsOf /\ \A r \in RpcServers : PhaseHas(r)

\* The first state of the servers.
LEMMA RpcBegins == RSInit => RpcStrong
<1> SUFFICES ASSUME RSInit PROVE RpcStrong
  OBVIOUS
<1> USE RpcServerAssumption DEF RSInit
<1>1. RpcTyped /\ AddressIsOf
  BY DEF RpcTyped, AddressIsOf
<1>2. CallsTyped
  BY DEF CallsTyped
<1>3. \A r \in RpcServers : PhaseHas(r)
  BY DEF PhaseHas
<1> QED
  BY <1>1, <1>2, <1>3 DEF RpcStrong

\* What removing a path does to the servers that have the address.
LEMMA PathGone ==
  ASSUME RpcStrong, NEW r \in RpcServers, RemovePath(r), UNCHANGED network
  PROVE  /\ leadsTo' \in {0, leadsTo} /\ leadsTo' # r /\ unlinked \subseteq unlinked'
           /\ unlinked' \subseteq RpcServers
         /\ network = "tcp" => unlinked' = unlinked
         /\ \A q \in RpcServers : q # r /\ leadsTo = q => leadsTo' = q \/ q \in unlinked'
<1>1. RpcTyped /\ 0 \notin RpcServers
  BY RpcServerAssumption DEF RpcStrong
<1> QED
  BY <1>1 DEF RemovePath, RpcTyped

\* A step of a server.
LEMMA RpcStep == RpcStrong /\ RSNext => RpcStrong'
<1> SUFFICES ASSUME RpcStrong, NEW r \in RpcServers, RSStep(r) PROVE RpcStrong'
  BY DEF RSNext
<1> USE RpcServerAssumption DEF RpcStrong, To, callVars
<1>0. RpcTyped /\ CallsTyped /\ AddressIsOf /\ (\A q \in RpcServers : PhaseHas(q))
        /\ 0 \notin RpcServers /\ RpcServers \subseteq Nat
  OBVIOUS
<1>1. CASE RunBegins(r)
  <2> USE <1>1 DEF RunBegins
  <2>1. /\ leadsTo' \in {0, leadsTo} /\ unlinked \subseteq unlinked' /\ unlinked' \subseteq RpcServers
        /\ network = "tcp" => unlinked' = unlinked
        /\ \A q \in RpcServers : q # r /\ leadsTo = q => leadsTo' = q \/ q \in unlinked'
    BY PathGone DEF RpcTyped
  <2>2. RpcTyped'
    BY <2>1 DEF RpcTyped
  <2>3. CallsTyped'
    BY DEF CallsTyped
  <2>4. AddressIsOf'
    BY <2>1 DEF AddressIsOf, PhaseHas, RpcTyped
  <2>5. ASSUME NEW q \in RpcServers PROVE PhaseHas(q)'
    BY <2>1 DEF PhaseHas, RpcTyped, CallsTyped, AddressIsOf
  <2> QED
    BY <2>2, <2>3, <2>4, <2>5
<1>2. CASE Listen(r)
  <2> USE <1>2 DEF Listen
  <2>2. RpcTyped'
    BY DEF RpcTyped
  <2>3. CallsTyped'
    BY DEF CallsTyped
  <2>4. AddressIsOf'
    BY DEF AddressIsOf, PhaseHas, RpcTyped
  <2>5. ASSUME NEW q \in RpcServers PROVE PhaseHas(q)'
    BY DEF PhaseHas, RpcTyped, CallsTyped, AddressIsOf
  <2> QED
    BY <2>2, <2>3, <2>4, <2>5
<1>3. CASE ListenFails(r)
  <2> USE <1>3 DEF ListenFails
  <2>2. RpcTyped'
    BY DEF RpcTyped
  <2>3. CallsTyped'
    BY DEF CallsTyped
  <2>4. AddressIsOf'
    BY DEF AddressIsOf, PhaseHas, RpcTyped
  <2>5. ASSUME NEW q \in RpcServers PROVE PhaseHas(q)'
    BY DEF PhaseHas, RpcTyped, CallsTyped, AddressIsOf
  <2> QED
    BY <2>2, <2>3, <2>4, <2>5
<1>4. CASE ConfigureFails(r)
  <2> USE <1>4 DEF ConfigureFails
  <2>2. RpcTyped'
    BY DEF RpcTyped
  <2>3. CallsTyped'
    BY DEF CallsTyped
  <2>4. AddressIsOf'
    BY DEF AddressIsOf, PhaseHas, RpcTyped
  <2>5. ASSUME NEW q \in RpcServers PROVE PhaseHas(q)'
    BY DEF PhaseHas, RpcTyped, CallsTyped, AddressIsOf
  <2> QED
    BY <2>2, <2>3, <2>4, <2>5
<1>5. CASE ServeBegins(r)
  <2> USE <1>5 DEF ServeBegins
  <2>2. RpcTyped'
    BY DEF RpcTyped
  <2>3. CallsTyped'
    BY DEF CallsTyped
  <2>4. AddressIsOf'
    BY DEF AddressIsOf, PhaseHas, RpcTyped
  <2>5. ASSUME NEW q \in RpcServers PROVE PhaseHas(q)'
    BY DEF PhaseHas, RpcTyped, CallsTyped, AddressIsOf
  <2> QED
    BY <2>2, <2>3, <2>4, <2>5
<1>6. CASE CallTaken(r)
  <2> USE <1>6 DEF CallTaken
  <2>2. RpcTyped'
    BY DEF RpcTyped
  <2>3. CallsTyped'
    BY DEF CallsTyped
  <2>4. AddressIsOf'
    BY DEF AddressIsOf, PhaseHas, RpcTyped
  <2>5. ASSUME NEW q \in RpcServers PROVE PhaseHas(q)'
    BY DEF PhaseHas, RpcTyped, CallsTyped, AddressIsOf
  <2> QED
    BY <2>2, <2>3, <2>4, <2>5
<1>7. CASE CallEnds(r)
  <2> USE <1>7 DEF CallEnds
  <2>2. RpcTyped'
    BY DEF RpcTyped
  <2>3. CallsTyped'
    BY DEF CallsTyped
  <2>4. AddressIsOf'
    BY DEF AddressIsOf, PhaseHas, RpcTyped
  <2>5. ASSUME NEW q \in RpcServers PROVE PhaseHas(q)'
    BY DEF PhaseHas, RpcTyped, CallsTyped, AddressIsOf
  <2> QED
    BY <2>2, <2>3, <2>4, <2>5
<1>8. CASE WatchGivenUp(r)
  <2> USE <1>8 DEF WatchGivenUp
  <2>2. RpcTyped'
    BY DEF RpcTyped
  <2>3. CallsTyped'
    BY DEF CallsTyped
  <2>4. AddressIsOf'
    BY DEF AddressIsOf, PhaseHas, RpcTyped
  <2>5. ASSUME NEW q \in RpcServers PROVE PhaseHas(q)'
    BY DEF PhaseHas, RpcTyped, CallsTyped, AddressIsOf
  <2> QED
    BY <2>2, <2>3, <2>4, <2>5
<1>9. CASE CoreContextDone(r)
  <2> USE <1>9 DEF CoreContextDone
  <2>2. RpcTyped'
    BY DEF RpcTyped
  <2>3. CallsTyped'
    BY DEF CallsTyped
  <2>4. AddressIsOf'
    BY DEF AddressIsOf, PhaseHas, RpcTyped
  <2>5. ASSUME NEW q \in RpcServers PROVE PhaseHas(q)'
    BY DEF PhaseHas, RpcTyped, CallsTyped, AddressIsOf
  <2> QED
    BY <2>2, <2>3, <2>4, <2>5
<1>10. CASE ContextSeen(r)
  <2> USE <1>10 DEF ContextSeen, StopBegins
  <2>1. /\ leadsTo' \in {0, leadsTo} /\ unlinked \subseteq unlinked' /\ unlinked' \subseteq RpcServers
        /\ network = "tcp" => unlinked' = unlinked
        /\ \A q \in RpcServers : q # r /\ leadsTo = q => leadsTo' = q \/ q \in unlinked'
        /\ leadsTo' # r
    BY PathGone DEF RpcTyped
  <2>2. RpcTyped'
    BY <2>1 DEF RpcTyped
  <2>3. CallsTyped'
    BY DEF CallsTyped
  <2>4. AddressIsOf'
    BY <2>1 DEF AddressIsOf, PhaseHas, RpcTyped
  <2>5. ASSUME NEW q \in RpcServers PROVE PhaseHas(q)'
    BY <2>1 DEF PhaseHas, RpcTyped, CallsTyped, AddressIsOf
  <2> QED
    BY <2>2, <2>3, <2>4, <2>5
<1>11. CASE ServeFails(r)
  <2> USE <1>11 DEF ServeFails, StopBegins
  <2>1. /\ leadsTo' \in {0, leadsTo} /\ unlinked \subseteq unlinked' /\ unlinked' \subseteq RpcServers
        /\ network = "tcp" => unlinked' = unlinked
        /\ \A q \in RpcServers : q # r /\ leadsTo = q => leadsTo' = q \/ q \in unlinked'
        /\ leadsTo' # r
    BY PathGone DEF RpcTyped
  <2>2. RpcTyped'
    BY <2>1 DEF RpcTyped
  <2>3. CallsTyped'
    BY DEF CallsTyped
  <2>4. AddressIsOf'
    BY <2>1 DEF AddressIsOf, PhaseHas, RpcTyped
  <2>5. ASSUME NEW q \in RpcServers PROVE PhaseHas(q)'
    BY <2>1 DEF PhaseHas, RpcTyped, CallsTyped, AddressIsOf
  <2> QED
    BY <2>2, <2>3, <2>4, <2>5
<1>12. CASE Stopped(r)
  <2> USE <1>12 DEF Stopped
  <2>1. /\ leadsTo' \in {0, leadsTo} /\ unlinked \subseteq unlinked' /\ unlinked' \subseteq RpcServers
        /\ network = "tcp" => unlinked' = unlinked
        /\ \A q \in RpcServers : q # r /\ leadsTo = q => leadsTo' = q \/ q \in unlinked'
        /\ leadsTo' # r
    BY PathGone DEF RpcTyped
  <2>2. RpcTyped'
    BY <2>1 DEF RpcTyped
  <2>3. CallsTyped'
    BY DEF CallsTyped
  <2>4. AddressIsOf'
    BY <2>1 DEF AddressIsOf, PhaseHas, RpcTyped
  <2>5. ASSUME NEW q \in RpcServers PROVE PhaseHas(q)'
    BY <2>1 DEF PhaseHas, RpcTyped, CallsTyped, AddressIsOf
  <2> QED
    BY <2>2, <2>3, <2>4, <2>5
<1>13. CASE StopTimesOut(r)
  <2> USE <1>13 DEF StopTimesOut
  <2>2. RpcTyped'
    BY DEF RpcTyped
  <2>3. CallsTyped'
    BY DEF CallsTyped
  <2>4. AddressIsOf'
    BY DEF AddressIsOf, PhaseHas, RpcTyped
  <2>5. ASSUME NEW q \in RpcServers PROVE PhaseHas(q)'
    BY DEF PhaseHas, RpcTyped, CallsTyped, AddressIsOf
  <2> QED
    BY <2>2, <2>3, <2>4, <2>5
<1> QED
  BY <1>1, <1>2, <1>3, <1>4, <1>5, <1>6, <1>7, <1>8, <1>9, <1>10, <1>11, <1>12, <1>13 DEF RSStep

\* The invariant says what RpcServerInv asks.
LEMMA RpcHolds == RpcStrong => RpcServerInv
<1> SUFFICES ASSUME RpcStrong PROVE RpcServerInv
  OBVIOUS
<1>1. RSTypeOK
  BY DEF RSTypeOK, RpcStrong, RpcTyped, CallsTyped
<1>2. AddressLeadsToServer /\ PortIsKept
  BY DEF AddressLeadsToServer, PortIsKept, RpcStrong, PhaseHas, AddressIsOf, RpcTyped
<1>3. NothingIsLeft
  BY DEF NothingIsLeft, RpcStrong, PhaseHas
<1> QED
  BY <1>1, <1>2, <1>3 DEF RpcServerInv

--------------------------------------------------------------------------------
(* The application.                                                        *)

AppTyped ==
  /\ main \in 1..14
  /\ boot \in {"none", "running", "completed", "failed"} /\ initManager \in {"off", "on", "stopped"}
  /\ reloadAt \in {"off", "wait", "apply"} /\ instances \subseteq {"bootstrap", "init", "reload", "call"}
SwitchesTyped ==
  {appDone, handedOut, plugins, indexes, idleLoop, calling, poolsGone, tooLate, finalLost} \subseteq BOOLEAN
ProgressTyped ==
  /\ progressAt \in {"none", "tick", "closed"}
  /\ progressCh = << >> \/ \E p \in {"running", "completed", "failed"} : progressCh = <<p>>

\* What is stopped by the time Run has come so far, unless something came too late.
StoppedInOrder ==
  /\ main >= 10 => ~indexes
  /\ main >= 12 => initManager = "stopped"
  /\ main >= 13 => ~idleLoop
  /\ poolsGone <=> main = 14
  /\ ~tooLate => /\ main >= 9 => ~plugins /\ reloadAt # "apply"
                 /\ main >= 11 => boot # "running"
                 /\ main = 14 => instances = {} /\ ~calling

\* The last state of a watch that is over is received, or waits to be.
EndIsSent ==
  /\ main <= 2 => boot = "none"
  /\ (progressAt = "closed" /\ ~finalLost) =>
       boot \in {"completed", "failed"} /\ (progressCh = <<boot>> \/ (progressCh = << >> /\ seen = boot))

AppStrong == AppTyped /\ SwitchesTyped /\ ProgressTyped /\ StoppedInOrder /\ EndIsSent

\* The places of a run of the application, one by one.
LEMMA OrderIs ==
  /\ DOMAIN Order = 1..14
  /\ Order[1] = "ready" /\ Order[2] = "bootstrap" /\ Order[3] = "activate" /\ Order[4] = "init"
       /\ Order[5] = "reload"
  /\ Order[6] = "idle" /\ Order[7] = "serve" /\ Order[8] = "plugins" /\ Order[9] = "deactivate"
       /\ Order[10] = "wait"
  /\ Order[11] = "stopInit" /\ Order[12] = "stopIdle" /\ Order[13] = "stopAll" /\ Order[14] = "returned"
BY DEF Order

\* Each place comes once.
LEMMA PlacesInOrderOf ==
  ASSUME NEW m \in 1..14
  PROVE  /\ Order[m] = "ready" <=> m = 1
         /\ Order[m] = "bootstrap" <=> m = 2
         /\ Order[m] = "activate" <=> m = 3
         /\ Order[m] = "init" <=> m = 4
         /\ Order[m] = "reload" <=> m = 5
         /\ Order[m] = "idle" <=> m = 6
         /\ Order[m] = "serve" <=> m = 7
         /\ Order[m] = "plugins" <=> m = 8
         /\ Order[m] = "deactivate" <=> m = 9
         /\ Order[m] = "wait" <=> m = 10
         /\ Order[m] = "stopInit" <=> m = 11
         /\ Order[m] = "stopIdle" <=> m = 12
         /\ Order[m] = "stopAll" <=> m = 13
         /\ Order[m] = "returned" <=> m = 14
BY OrderIs

\* The first state, at any step before the servers return.
LEMMA AppBegins == ASSUME NEW step \in 1..7, AppAt(step) PROVE AppStrong
<1> USE DEF AppAt
<1>1. AppTyped /\ ProgressTyped
  BY DEF AppTyped, ProgressTyped
<1>a. SwitchesTyped
  BY DEF SwitchesTyped
<1>2. StoppedInOrder /\ EndIsSent
  BY DEF StoppedInOrder, EndIsSent
<1> QED
  BY <1>1, <1>2, <1>a DEF AppStrong

\* The invariant says what AppInv asks.
LEMMA AppHolds == AppStrong => AppInv
<1> SUFFICES ASSUME AppStrong PROVE AppInv
  OBVIOUS
<1>1. main \in DOMAIN Order /\ (Order[main] = "returned" <=> main = 14) /\ main \in 1..14
  BY OrderIs, PlacesInOrderOf DEF AppStrong, AppTyped
<1>2. Len(progressCh) <= 1
  <2>1. Len(<< >>) <= 1 /\ \A x : Len(<<x>>) <= 1
    OBVIOUS
  <2> QED
    BY <2>1, Zenon DEF AppStrong, ProgressTyped
<1>3. APTypeOK
  BY <1>1, <1>2 DEF APTypeOK, AppStrong, AppTyped, SwitchesTyped, ProgressTyped
<1>4. NothingRemains /\ NoLateStart
  BY <1>1 DEF NothingRemains, NoLateStart, AppStrong, StoppedInOrder
<1>5. EndIsSeen
  BY DEF EndIsSeen, AppStrong, EndIsSent
<1> QED
  BY <1>3, <1>4, <1>5 DEF AppInv

\* A step of Run, or of what goes on meanwhile.
LEMMA AppStep == AppStrong /\ APNext => AppStrong'
<1> SUFFICES ASSUME AppStrong, APNext PROVE AppStrong'
  OBVIOUS
<1> USE DEF AppStrong, runRest, restOf, progressRest, partVars, otherVars, progressVars
<1>0. main \in 1..14
  BY DEF AppTyped
<1>1. CASE HandOut
  <2> USE <1>1 DEF HandOut
  <2>1. main = 1 /\ main' = 2
    BY <1>0, PlacesInOrderOf DEF At
  <2>2. AppTyped'
    BY <2>1 DEF AppTyped
  <2>a. SwitchesTyped'
    BY DEF SwitchesTyped
  <2>3. ProgressTyped'
    BY DEF ProgressTyped
  <2>4. StoppedInOrder'
    BY <2>1 DEF StoppedInOrder, AppTyped
  <2>5. EndIsSent'
    BY <2>1 DEF EndIsSent
  <2> QED
    BY <2>2, <2>3, <2>4, <2>5, <2>a
<1>2. CASE Bootstrap
  <2> USE <1>2 DEF Bootstrap
  <2>1. main = 2 /\ main' = 3
    BY <1>0, PlacesInOrderOf DEF At
  <2>2. AppTyped'
    BY <2>1 DEF AppTyped
  <2>a. SwitchesTyped'
    BY DEF SwitchesTyped
  <2>3. ProgressTyped'
    BY DEF ProgressTyped
  <2>4. StoppedInOrder'
    BY <2>1 DEF StoppedInOrder, AppTyped
  <2>5. EndIsSent'
    BY <2>1 DEF EndIsSent
  <2> QED
    BY <2>2, <2>3, <2>4, <2>5, <2>a
<1>3. CASE Activate
  <2> USE <1>3 DEF Activate
  <2>1. main = 3 /\ main' = 4
    BY <1>0, PlacesInOrderOf DEF At
  <2>2. AppTyped'
    BY <2>1 DEF AppTyped
  <2>a. SwitchesTyped'
    BY DEF SwitchesTyped
  <2>3. ProgressTyped'
    BY DEF ProgressTyped
  <2>4. StoppedInOrder'
    BY <2>1 DEF StoppedInOrder, AppTyped
  <2>5. EndIsSent'
    BY <2>1 DEF EndIsSent
  <2> QED
    BY <2>2, <2>3, <2>4, <2>5, <2>a
<1>4. CASE StartInit
  <2> USE <1>4 DEF StartInit
  <2>1. main = 4 /\ main' = 5
    BY <1>0, PlacesInOrderOf DEF At
  <2>2. AppTyped'
    BY <2>1 DEF AppTyped
  <2>a. SwitchesTyped'
    BY DEF SwitchesTyped
  <2>3. ProgressTyped'
    BY DEF ProgressTyped
  <2>4. StoppedInOrder'
    BY <2>1 DEF StoppedInOrder, AppTyped
  <2>5. EndIsSent'
    BY <2>1 DEF EndIsSent
  <2> QED
    BY <2>2, <2>3, <2>4, <2>5, <2>a
<1>5. CASE StartReload
  <2> USE <1>5 DEF StartReload
  <2>1. main = 5 /\ main' = 6
    BY <1>0, PlacesInOrderOf DEF At
  <2>2. AppTyped'
    BY <2>1 DEF AppTyped
  <2>a. SwitchesTyped'
    BY DEF SwitchesTyped
  <2>3. ProgressTyped'
    BY DEF ProgressTyped
  <2>4. StoppedInOrder'
    BY <2>1 DEF StoppedInOrder, AppTyped
  <2>5. EndIsSent'
    BY <2>1 DEF EndIsSent
  <2> QED
    BY <2>2, <2>3, <2>4, <2>5, <2>a
<1>6. CASE StartIdleManager
  <2> USE <1>6 DEF StartIdleManager
  <2>1. main = 6 /\ main' = 7
    BY <1>0, PlacesInOrderOf DEF At
  <2>2. AppTyped'
    BY <2>1 DEF AppTyped
  <2>a. SwitchesTyped'
    BY DEF SwitchesTyped
  <2>3. ProgressTyped'
    BY DEF ProgressTyped
  <2>4. StoppedInOrder'
    BY <2>1 DEF StoppedInOrder, AppTyped
  <2>5. EndIsSent'
    BY <2>1 DEF EndIsSent
  <2> QED
    BY <2>2, <2>3, <2>4, <2>5, <2>a
<1>7. CASE ServerReturns
  <2> USE <1>7 DEF ServerReturns
  <2>1. main = 7 /\ main' = 8
    BY <1>0, PlacesInOrderOf DEF At
  <2>2. AppTyped'
    BY <2>1 DEF AppTyped
  <2>a. SwitchesTyped'
    BY DEF SwitchesTyped
  <2>3. ProgressTyped'
    BY DEF ProgressTyped
  <2>b. ~tooLate' => ~tooLate /\ appDone
    BY DEF SwitchesTyped
  <2>4. StoppedInOrder'
    BY <2>1, <2>b DEF StoppedInOrder, AppTyped
  <2>5. EndIsSent'
    BY <2>1 DEF EndIsSent
  <2> QED
    BY <2>2, <2>3, <2>4, <2>5, <2>a
<1>8. CASE StopPlugins
  <2> USE <1>8 DEF StopPlugins
  <2>1. main = 8 /\ main' = 9
    BY <1>0, PlacesInOrderOf DEF At
  <2>2. AppTyped'
    BY <2>1 DEF AppTyped
  <2>a. SwitchesTyped'
    BY DEF SwitchesTyped
  <2>3. ProgressTyped'
    BY DEF ProgressTyped
  <2>b. ~tooLate' => ~tooLate /\ reloadAt # "apply"
    BY DEF SwitchesTyped
  <2>4. StoppedInOrder'
    BY <2>1, <2>b DEF StoppedInOrder, AppTyped
  <2>5. EndIsSent'
    BY <2>1 DEF EndIsSent
  <2> QED
    BY <2>2, <2>3, <2>4, <2>5, <2>a
<1>9. CASE Deactivate
  <2> USE <1>9 DEF Deactivate
  <2>1. main = 9 /\ main' = 10
    BY <1>0, PlacesInOrderOf DEF At
  <2>2. AppTyped'
    BY <2>1 DEF AppTyped
  <2>a. SwitchesTyped'
    BY DEF SwitchesTyped
  <2>3. ProgressTyped'
    BY DEF ProgressTyped
  <2>4. StoppedInOrder'
    BY <2>1 DEF StoppedInOrder, AppTyped
  <2>5. EndIsSent'
    BY <2>1 DEF EndIsSent
  <2> QED
    BY <2>2, <2>3, <2>4, <2>5, <2>a
<1>10. CASE BootstrapAwaited
  <2> USE <1>10 DEF BootstrapAwaited
  <2>1. main = 10 /\ main' = 11
    BY <1>0, PlacesInOrderOf DEF At
  <2>2. AppTyped'
    BY <2>1 DEF AppTyped
  <2>a. SwitchesTyped'
    BY DEF SwitchesTyped
  <2>3. ProgressTyped'
    BY DEF ProgressTyped
  <2>4. StoppedInOrder'
    BY <2>1 DEF StoppedInOrder, AppTyped
  <2>5. EndIsSent'
    BY <2>1 DEF EndIsSent
  <2> QED
    BY <2>2, <2>3, <2>4, <2>5, <2>a
<1>11. CASE WaitForBootstrap
  <2> USE <1>11 DEF WaitForBootstrap
  <2>1. main = 10 /\ main' = 11
    BY <1>0, PlacesInOrderOf DEF At
  <2>2. AppTyped'
    BY <2>1 DEF AppTyped
  <2>a. SwitchesTyped'
    BY DEF SwitchesTyped
  <2>3. ProgressTyped'
    BY DEF ProgressTyped
  <2>b. ~tooLate' => ~tooLate /\ boot # "running"
    BY DEF SwitchesTyped
  <2>4. StoppedInOrder'
    BY <2>1, <2>b DEF StoppedInOrder, AppTyped
  <2>5. EndIsSent'
    BY <2>1 DEF EndIsSent
  <2> QED
    BY <2>2, <2>3, <2>4, <2>5, <2>a
<1>12. CASE StopInit
  <2> USE <1>12 DEF StopInit
  <2>1. main = 11 /\ main' = 12
    BY <1>0, PlacesInOrderOf DEF At
  <2>2. AppTyped'
    BY <2>1 DEF AppTyped
  <2>a. SwitchesTyped'
    BY DEF SwitchesTyped
  <2>3. ProgressTyped'
    BY DEF ProgressTyped
  <2>4. StoppedInOrder'
    BY <2>1 DEF StoppedInOrder, AppTyped
  <2>5. EndIsSent'
    BY <2>1 DEF EndIsSent
  <2> QED
    BY <2>2, <2>3, <2>4, <2>5, <2>a
<1>13. CASE StopIdleManager
  <2> USE <1>13 DEF StopIdleManager
  <2>1. main = 12 /\ main' = 13
    BY <1>0, PlacesInOrderOf DEF At
  <2>2. AppTyped'
    BY <2>1 DEF AppTyped
  <2>a. SwitchesTyped'
    BY DEF SwitchesTyped
  <2>3. ProgressTyped'
    BY DEF ProgressTyped
  <2>4. StoppedInOrder'
    BY <2>1 DEF StoppedInOrder, AppTyped
  <2>5. EndIsSent'
    BY <2>1 DEF EndIsSent
  <2> QED
    BY <2>2, <2>3, <2>4, <2>5, <2>a
<1>14. CASE StopAll
  <2> USE <1>14 DEF StopAll
  <2>1. main = 13 /\ main' = 14
    BY <1>0, PlacesInOrderOf DEF At
  <2>2. AppTyped'
    BY <2>1 DEF AppTyped
  <2>a. SwitchesTyped'
    BY DEF SwitchesTyped
  <2>3. ProgressTyped'
    BY DEF ProgressTyped
  <2>b. ~tooLate' => ~tooLate /\ ~calling /\ reloadAt # "apply"
    BY DEF SwitchesTyped
  <2>4. StoppedInOrder'
    BY <2>1, <2>b DEF StoppedInOrder, AppTyped
  <2>5. EndIsSent'
    BY <2>1 DEF EndIsSent
  <2> QED
    BY <2>2, <2>3, <2>4, <2>5, <2>a
<1>15. CASE ContextDone
  <2> USE <1>15 DEF ContextDone
  <2>2. AppTyped'
    BY DEF AppTyped
  <2>a. SwitchesTyped'
    BY DEF SwitchesTyped
  <2>3. ProgressTyped'
    BY DEF ProgressTyped, Progress, AppTyped
  <2>4. StoppedInOrder'
    BY DEF StoppedInOrder, AppTyped
  <2>5. EndIsSent'
    BY <1>0 DEF EndIsSent, Progress, ProgressTyped, AppTyped
  <2> QED
    BY <2>2, <2>3, <2>4, <2>5, <2>a
<1>16. CASE BootstrapAsks
  <2> USE <1>16 DEF BootstrapAsks
  <2>2. AppTyped'
    BY DEF AppTyped
  <2>a. SwitchesTyped'
    BY DEF SwitchesTyped
  <2>3. ProgressTyped'
    BY DEF ProgressTyped, Progress, AppTyped
  <2>4. StoppedInOrder'
    BY DEF StoppedInOrder, AppTyped
  <2>5. EndIsSent'
    BY <1>0 DEF EndIsSent, Progress, ProgressTyped, AppTyped
  <2> QED
    BY <2>2, <2>3, <2>4, <2>5, <2>a
<1>17. CASE InitStarts
  <2> USE <1>17 DEF InitStarts
  <2>2. AppTyped'
    BY DEF AppTyped
  <2>a. SwitchesTyped'
    BY DEF SwitchesTyped
  <2>3. ProgressTyped'
    BY DEF ProgressTyped, Progress, AppTyped
  <2>4. StoppedInOrder'
    BY DEF StoppedInOrder, AppTyped
  <2>5. EndIsSent'
    BY <1>0 DEF EndIsSent, Progress, ProgressTyped, AppTyped
  <2> QED
    BY <2>2, <2>3, <2>4, <2>5, <2>a
<1>18. CASE ReloadBegins
  <2> USE <1>18 DEF ReloadBegins
  <2>1. Past("serve") <=> main >= 8
    <3>1. \A i \in 1..(main - 1) : i \in 1..14
      BY <1>0
    <3> QED
      BY <1>0, <3>1, PlacesInOrderOf DEF Past
  <2>2. AppTyped'
    BY <2>1 DEF AppTyped
  <2>a. SwitchesTyped'
    BY DEF SwitchesTyped
  <2>3. ProgressTyped'
    BY DEF ProgressTyped, Progress, AppTyped
  <2>b. ~tooLate' => ~tooLate /\ ~(main >= 8)
    BY <2>1 DEF SwitchesTyped
  <2>4. StoppedInOrder'
    BY <2>1, <2>b DEF StoppedInOrder, AppTyped
  <2>5. EndIsSent'
    BY <1>0 DEF EndIsSent, Progress, ProgressTyped, AppTyped
  <2> QED
    BY <2>2, <2>3, <2>4, <2>5, <2>a
<1>19. CASE ReloadStarts
  <2> USE <1>19 DEF ReloadStarts
  <2>2. AppTyped'
    BY DEF AppTyped
  <2>a. SwitchesTyped'
    BY DEF SwitchesTyped
  <2>3. ProgressTyped'
    BY DEF ProgressTyped, Progress, AppTyped
  <2>4. StoppedInOrder'
    BY DEF StoppedInOrder, AppTyped
  <2>5. EndIsSent'
    BY <1>0 DEF EndIsSent, Progress, ProgressTyped, AppTyped
  <2> QED
    BY <2>2, <2>3, <2>4, <2>5, <2>a
<1>20. CASE ReloadLoopEnds
  <2> USE <1>20 DEF ReloadLoopEnds
  <2>2. AppTyped'
    BY DEF AppTyped
  <2>a. SwitchesTyped'
    BY DEF SwitchesTyped
  <2>3. ProgressTyped'
    BY DEF ProgressTyped, Progress, AppTyped
  <2>4. StoppedInOrder'
    BY DEF StoppedInOrder, AppTyped
  <2>5. EndIsSent'
    BY <1>0 DEF EndIsSent, Progress, ProgressTyped, AppTyped
  <2> QED
    BY <2>2, <2>3, <2>4, <2>5, <2>a
<1>21. CASE WindowCalls
  <2> USE <1>21 DEF WindowCalls
  <2>2. AppTyped'
    BY DEF AppTyped
  <2>a. SwitchesTyped'
    BY DEF SwitchesTyped
  <2>3. ProgressTyped'
    BY DEF ProgressTyped, Progress, AppTyped
  <2>b. ~tooLate' => ~tooLate /\ ~poolsGone
    BY DEF SwitchesTyped
  <2>4. StoppedInOrder'
    BY <2>b DEF StoppedInOrder, AppTyped
  <2>5. EndIsSent'
    BY <1>0 DEF EndIsSent, Progress, ProgressTyped, AppTyped
  <2> QED
    BY <2>2, <2>3, <2>4, <2>5, <2>a
<1>22. CASE WindowCallStarts
  <2> USE <1>22 DEF WindowCallStarts
  <2>2. AppTyped'
    BY DEF AppTyped
  <2>a. SwitchesTyped'
    BY DEF SwitchesTyped
  <2>3. ProgressTyped'
    BY DEF ProgressTyped, Progress, AppTyped
  <2>4. StoppedInOrder'
    BY DEF StoppedInOrder, AppTyped
  <2>5. EndIsSent'
    BY <1>0 DEF EndIsSent, Progress, ProgressTyped, AppTyped
  <2> QED
    BY <2>2, <2>3, <2>4, <2>5, <2>a
<1>23. CASE ProgressWatched
  <2> USE <1>23 DEF ProgressWatched
  <2>2. AppTyped'
    BY DEF AppTyped
  <2>a. SwitchesTyped'
    BY DEF SwitchesTyped
  <2>3. ProgressTyped'
    BY DEF ProgressTyped, Progress, AppTyped
  <2>4. StoppedInOrder'
    BY DEF StoppedInOrder, AppTyped
  <2>5. EndIsSent'
    BY <1>0 DEF EndIsSent, Progress, ProgressTyped, AppTyped
  <2> QED
    BY <2>2, <2>3, <2>4, <2>5, <2>a
<1>24. CASE ProgressTicks
  <2> USE <1>24 DEF ProgressTicks
  <2>2. AppTyped'
    BY DEF AppTyped
  <2>a. SwitchesTyped'
    BY DEF SwitchesTyped
  <2>3. ProgressTyped'
    BY DEF ProgressTyped, Progress, AppTyped
  <2>4. StoppedInOrder'
    BY DEF StoppedInOrder, AppTyped
  <2>5. EndIsSent'
    <3>1. main <= 2 => boot = "none"
      BY DEF EndIsSent
    <3>2. CASE progressCh = << >>
      BY <1>0, <3>1, <3>2 DEF EndIsSent, Progress, AppTyped
    <3>3. CASE progressCh # << >>
      <4>1. PICK p \in {"running", "completed", "failed"} : progressCh = <<p>>
        BY <3>3 DEF ProgressTyped
      <4>2. progressCh[1] = p /\ progressCh' = <<p>>
        BY <3>3, <4>1
      <4>3. ~finalLost' => Progress = "running" \/ p = Progress
        BY <3>3, <4>1, <4>2
      <4> QED
        BY <3>1, <4>2, <4>3 DEF EndIsSent, Progress, AppTyped
    <3> QED
      BY <3>2, <3>3
  <2> QED
    BY <2>2, <2>3, <2>4, <2>5, <2>a
<1>25. CASE ProgressCancelled
  <2> USE <1>25 DEF ProgressCancelled
  <2>2. AppTyped'
    BY DEF AppTyped
  <2>a. SwitchesTyped'
    BY DEF SwitchesTyped
  <2>3. ProgressTyped'
    BY DEF ProgressTyped, Progress, AppTyped
  <2>4. StoppedInOrder'
    BY DEF StoppedInOrder, AppTyped
  <2>5. EndIsSent'
    BY <1>0 DEF EndIsSent, Progress, ProgressTyped, AppTyped
  <2> QED
    BY <2>2, <2>3, <2>4, <2>5, <2>a
<1>26. CASE ProgressReceived
  <2> USE <1>26 DEF ProgressReceived
  <2>2. AppTyped'
    BY DEF AppTyped
  <2>a. SwitchesTyped'
    BY DEF SwitchesTyped
  <2>3. ProgressTyped'
    BY DEF ProgressTyped, Progress, AppTyped
  <2>4. StoppedInOrder'
    BY DEF StoppedInOrder, AppTyped
  <2>5. EndIsSent'
    BY <1>0 DEF EndIsSent, Progress, ProgressTyped, AppTyped
  <2> QED
    BY <2>2, <2>3, <2>4, <2>5, <2>a
<1> QED
  BY <1>1, <1>2, <1>3, <1>4, <1>5, <1>6, <1>7, <1>8, <1>9, <1>10, <1>11, <1>12, <1>13, <1>14, <1>15,
     <1>16, <1>17, <1>18, <1>19, <1>20, <1>21, <1>22, <1>23, <1>24, <1>25, <1>26 DEF APNext, RunStep

--------------------------------------------------------------------------------
(* The services together: one component runs, the others rest.             *)

ServicesStrong ==
  RefreshStrong /\ LifecycleStrong /\ StatusStrong /\ LogStrong /\ HubStrong /\ ObsStrong
    /\ RpcStrong /\ AppStrong

\* Every component begins in its invariant.
LEMMA ServicesBegin == Init => ServicesStrong
<1> SUFFICES ASSUME Init PROVE ServicesStrong
  OBVIOUS
<1>1. RefreshStrong /\ LifecycleStrong /\ LogStrong /\ HubStrong /\ ObsStrong /\ RpcStrong
  BY RefreshInit, LifecycleInit, LogBegins, HubBegins, ObsBegins, RpcBegins DEF Init
<1>2. StatusStrong
  <2>1. STStored(NothingYet) \/ STStored(FirstStatuses)
    BY DEF Init, STInit
  <2>2. NothingYet \in Snapshots /\ FirstStatuses \in Snapshots
    <3>1. \E s \in StatusStates : s # Failed
      BY StatusWatchAssumption
    <3> QED
      BY <3>1 DEF Snapshots, FirstStatuses
  <2> QED
    BY <2>1, <2>2, StatusBegins
<1>3. AppStrong
  <2> DEFINE serve == CHOOSE i \in DOMAIN Order : Order[i] = "serve"
  <2>1. serve \in 1..7
    <3>1. serve \in DOMAIN Order /\ Order[serve] = "serve"
      BY OrderIs
    <3> HIDE DEF serve
    <3> QED
      BY <3>1, OrderIs, PlacesInOrderOf
  <2>2. AppAt(1) \/ AppAt(serve)
    BY DEF Init, APInit
  <2> HIDE DEF serve
  <2>3. 1 \in 1..7
    OBVIOUS
  <2> QED
    BY <2>1, <2>2, <2>3, AppBegins
<1> QED
  BY <1>1, <1>2, <1>3 DEF ServicesStrong

\* A component at rest stays as it is.
LEMMA AtRest ==
  /\ RefreshStrong /\ UNCHANGED irVars => RefreshStrong'
  /\ LifecycleStrong /\ UNCHANGED ilVars => LifecycleStrong'
  /\ StatusStrong /\ UNCHANGED swatchVars => StatusStrong'
  /\ LogStrong /\ UNCHANGED logVars => LogStrong'
  /\ HubStrong /\ UNCHANGED hubVars => HubStrong'
  /\ ObsStrong /\ UNCHANGED obsVars => ObsStrong'
  /\ RpcStrong /\ UNCHANGED rpcVars => RpcStrong'
  /\ AppStrong /\ UNCHANGED appVars => AppStrong'
<1>1. RefreshStrong /\ UNCHANGED irVars => RefreshStrong'
  <2> SUFFICES ASSUME RefreshStrong, UNCHANGED irVars PROVE RefreshStrong'
    OBVIOUS
  <2> USE DEF irVars, catalogVars, cacheVars, viewVars, fetchVars
  <2>1. IRTypeOK'
    BY DEF RefreshStrong, IRTypeOK
  <2>2. BreakerHidesServer'
    BY DEF RefreshStrong, BreakerHidesServer
  <2>3. GateHeld'
    BY DEF RefreshStrong, GateHeld
  <2>4. CopiesTyped'
    BY DEF RefreshStrong, CopiesTyped
  <2>5. SnapshotFollows'
    BY DEF RefreshStrong, SnapshotFollows
  <2> QED
    BY <2>1, <2>2, <2>3, <2>4, <2>5 DEF RefreshStrong
<1>2. LifecycleStrong /\ UNCHANGED ilVars => LifecycleStrong'
  <2> SUFFICES ASSUME LifecycleStrong, UNCHANGED ilVars PROVE LifecycleStrong'
    OBVIOUS
  <2> USE DEF ilVars, baseVars, coreVars, startVars
  <2>1. ILTypeOK'
    BY DEF LifecycleStrong, ILTypeOK
  <2>2. LoopsTyped'
    BY DEF LifecycleStrong, LoopsTyped
  <2>3. OpenStop'
    BY DEF LifecycleStrong, OpenStop, LiveLoops
  <2>4. LiveTicks'
    BY DEF LifecycleStrong, LiveTicks, LiveLoops
  <2>5. ListenersCounted'
    BY DEF LifecycleStrong, ListenersCounted
  <2> QED
    BY <2>1, <2>2, <2>3, <2>4, <2>5 DEF LifecycleStrong
<1>3. StatusStrong /\ UNCHANGED swatchVars => StatusStrong'
  <2> SUFFICES ASSUME StatusStrong, UNCHANGED swatchVars PROVE StatusStrong'
    OBVIOUS
  <2> USE DEF swatchVars, pollVars, subscription, currentVars, outVars, ghosts
  <2>1. ServersTyped'
    BY DEF StatusStrong, StatusTyped, ServersTyped
  <2>2. GoroutinesTyped'
    BY DEF StatusStrong, StatusTyped, GoroutinesTyped
  <2>3. FlagsTyped'
    BY DEF StatusStrong, StatusTyped, FlagsTyped
  <2>4. SnapsTyped'
    BY DEF StatusStrong, StatusTyped, SnapsTyped, Current
  <2>5. ChannelsTyped'
    BY DEF StatusStrong, StatusTyped, ChannelsTyped, Current
  <2>6. BeforeLoop'
    BY DEF StatusStrong, StatusTyped, BeforeLoop
  <2>7. InOrder'
    BY DEF StatusStrong, StatusTyped, InOrder
  <2>8. EachIsNews'
    BY DEF StatusStrong, StatusTyped, EachIsNews, Current
  <2>9. ListedIsOpen'
    BY DEF StatusStrong, StatusTyped, ListedIsOpen
  <2> QED
    BY <2>1, <2>2, <2>3, <2>4, <2>5, <2>6, <2>7, <2>8, <2>9 DEF StatusStrong, StatusTyped
<1>4. LogStrong /\ UNCHANGED logVars => LogStrong'
  <2> SUFFICES ASSUME LogStrong, UNCHANGED logVars PROVE LogStrong'
    OBVIOUS
  <2> USE DEF logVars, sessionVars, streamVars, emitVars
  <2>1. EntriesTyped'
    BY DEF LogStrong, LogTyped, EntriesTyped
  <2>2. SessionsTyped'
    BY DEF LogStrong, LogTyped, SessionsTyped
  <2>3. PlacesTyped'
    BY DEF LogStrong, LogTyped, PlacesTyped
  <2>4. CapsHold'
    BY DEF LogStrong, LogTyped, CapsHold
  <2>5. SinceIsPast'
    BY DEF LogStrong, LogTyped, SinceIsPast
  <2>6. OneSession'
    BY DEF LogStrong, LogTyped, OneSession
  <2>7. ASSUME NEW s \in Sessions PROVE StreamIsSound(s)'
    <3>1. SourceGrows(s) /\ SamePlaces(s) /\ relay' = relay
      BY DEF SourceGrows, SamePlaces
    <3>2. PlacesInOrder(s)' /\ OnlyWanted(s)' /\ AllWanted(s)'
      BY <3>1, StreamStays
    <3>3. StreamPhases(s)'
      BY DEF LogStrong, StreamIsSound, StreamPhases
    <3> QED
      BY <3>2, <3>3 DEF StreamIsSound
  <2> QED
    BY <2>1, <2>2, <2>3, <2>4, <2>5, <2>6, <2>7 DEF LogStrong, LogTyped
<1>5. HubStrong /\ UNCHANGED hubVars => HubStrong'
  <2> SUFFICES ASSUME HubStrong, UNCHANGED hubVars PROVE HubStrong'
    OBVIOUS
  <2> USE DEF hubVars
  <2>1. RingTyped'
    BY DEF HubStrong, RingTyped
  <2>2. RingHolds'
    BY DEF HubStrong, RingHolds
  <2> QED
    BY <2>1, <2>2 DEF HubStrong
<1>6. ObsStrong /\ UNCHANGED obsVars => ObsStrong'
  <2> SUFFICES ASSUME ObsStrong, UNCHANGED obsVars PROVE ObsStrong'
    OBVIOUS
  <2> USE DEF obsVars, controllerVars, runVars
  <2>1. RunsTyped'
    BY DEF ObsStrong, RunsTyped
  <2>2. ControllerTyped'
    BY DEF ObsStrong, ControllerTyped
  <2>3. RunsFollow'
    BY DEF ObsStrong, RunsFollow
  <2>4. EndsForReason'
    BY DEF ObsStrong, EndsForReason
  <2>5. OneServer'
    BY DEF ObsStrong, OneServer
  <2>6. OnlyRefused'
    BY DEF ObsStrong, OnlyRefused
  <2> QED
    BY <2>1, <2>2, <2>3, <2>4, <2>5, <2>6 DEF ObsStrong
<1>7. RpcStrong /\ UNCHANGED rpcVars => RpcStrong'
  <2> SUFFICES ASSUME RpcStrong, UNCHANGED rpcVars PROVE RpcStrong'
    OBVIOUS
  <2> USE DEF rpcVars
  <2>1. RpcTyped'
    BY DEF RpcStrong, RpcTyped
  <2>2. CallsTyped'
    BY DEF RpcStrong, CallsTyped
  <2>3. AddressIsOf'
    BY DEF RpcStrong, AddressIsOf
  <2>4. \A r \in RpcServers : PhaseHas(r)'
    BY DEF RpcStrong, PhaseHas
  <2> QED
    BY <2>1, <2>2, <2>3, <2>4 DEF RpcStrong
<1>8. AppStrong /\ UNCHANGED appVars => AppStrong'
  <2> SUFFICES ASSUME AppStrong, UNCHANGED appVars PROVE AppStrong'
    OBVIOUS
  <2> USE DEF appVars, partVars, otherVars, progressVars
  <2>1. AppTyped'
    BY DEF AppStrong, AppTyped
  <2>2. SwitchesTyped'
    BY DEF AppStrong, SwitchesTyped
  <2>3. ProgressTyped'
    BY DEF AppStrong, ProgressTyped
  <2>4. StoppedInOrder'
    BY DEF AppStrong, StoppedInOrder
  <2>5. EndIsSent'
    BY DEF AppStrong, EndIsSent
  <2> QED
    BY <2>1, <2>2, <2>3, <2>4, <2>5 DEF AppStrong
<1> QED
  BY <1>1, <1>2, <1>3, <1>4, <1>5, <1>6, <1>7, <1>8

\* One component moves and the others are at rest: each keeps its invariant.
LEMMA ServicesStep == ServicesStrong /\ [Next]_vars => ServicesStrong'
<1> SUFFICES ASSUME ServicesStrong, [Next]_vars PROVE ServicesStrong'
  OBVIOUS
<1> USE DEF ServicesStrong
<1>1. CASE UNCHANGED vars
  BY <1>1, AtRest DEF vars, services
<1>2. CASE IRNext /\ UNCHANGED <<ilVars, swatchVars, logVars, hubVars, obsVars, rpcVars, appVars>>
  BY <1>2, AtRest, RefreshKept
<1>3. CASE ILNext /\ UNCHANGED <<irVars, swatchVars, logVars, hubVars, obsVars, rpcVars, appVars>>
  BY <1>3, AtRest, LifecycleStep
<1>4. CASE STNext /\ UNCHANGED <<irVars, ilVars, logVars, hubVars, obsVars, rpcVars, appVars>>
  BY <1>4, AtRest, StatusStep
<1>5. CASE LogNext /\ UNCHANGED <<irVars, ilVars, swatchVars, hubVars, obsVars, rpcVars, appVars>>
  BY <1>5, AtRest, LogStep
<1>6. CASE HubNext /\ UNCHANGED <<irVars, ilVars, swatchVars, logVars, obsVars, rpcVars, appVars>>
  BY <1>6, AtRest, HubStep
<1>7. CASE ObsNext /\ UNCHANGED <<irVars, ilVars, swatchVars, logVars, hubVars, rpcVars, appVars>>
  BY <1>7, AtRest, ObsStep
<1>8. CASE RSNext /\ UNCHANGED <<irVars, ilVars, swatchVars, logVars, hubVars, obsVars, appVars>>
  BY <1>8, AtRest, RpcStep
<1>9. CASE APNext /\ UNCHANGED <<irVars, ilVars, swatchVars, logVars, hubVars, obsVars, rpcVars>>
  BY <1>9, AtRest, AppStep
<1> QED
  BY <1>1, <1>2, <1>3, <1>4, <1>5, <1>6, <1>7, <1>8, <1>9 DEF Next

\* The invariants hold in every state.
LEMMA ServicesAlways == Spec => []ServicesStrong
BY ServicesBegin, ServicesStep, PTL DEF Spec

\* A refresh publishes what the caches hold, a server whose breaker is open shows nothing,
\* and of the refresh loops at most one waits on a stop channel that is open, for any
\* number of servers, refreshers, updates and loops (IndexInv).
THEOREM IndexesHold == Spec => []IndexInv
<1>1. ServicesStrong => IndexInv
  BY RefreshHolds, LifecycleHolds DEF ServicesStrong, IndexInv
<1> QED
  BY <1>1, ServicesAlways, PTL

\* Who watches statuses never goes back, and what a session of the log shows is in order,
\* of its level and whole as long as no buffer was full, whatever the capacities; and the
\* ring for diagnostics holds the last entries in their order (WatchInv).
THEOREM WatchesHold == Spec => []WatchInv
<1>1. ServicesStrong => WatchInv
  BY StatusHolds, LogHolds DEF ServicesStrong, WatchInv
<1> QED
  BY <1>1, ServicesAlways, PTL

\* One observability server runs, and it is off only for a reason; the address of the
\* control plane leads to a server that listens; and Run leaves nothing behind unless
\* something came too late (CoreInv).
THEOREM CoreHolds == Spec => []CoreInv
<1>1. ServicesStrong => CoreInv
  BY ObsHolds, RpcHolds, AppHolds DEF ServicesStrong, CoreInv
<1> QED
  BY <1>1, ServicesAlways, PTL
================================================================================
