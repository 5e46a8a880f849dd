----------------------------- MODULE DesktopProofs -----------------------------
(***************************************************************************)
(* The desktop application and the gateway beside its core, for any number *)
(* of requests, selectors, mirrors, cores, processes, settings, releases   *)
(* and assets.  The goroutines of a runtime share its connection in turns, *)
(* the pool forgets no runtime, and the child process follows the core and *)
(* the settings; the window shows the core that is served, the checker     *)
(* caches what its etag stands for, and an update keeps a whole copy of    *)
(* the application.                                                        *)
(***************************************************************************)
EXTENDS MCDesktop, FiniteSetTheorems, WellFoundedInduction, TLAPS

--------------------------------------------------------------------------------
(* A runtime of the gateway.                                               *)

Dials == {"dial", "redial"}
Going ==
  {"run", "tick", "get", "reget", "list", "page", "stream", "recv", "sleep", "reset", "rereset", "register",
   "unregister", "ended", "done"}
RuntimePlaces == {"off"} \cup Dials \cup Going

\* The parts of the type invariant: the plain types, the mutex and the shared client.
RuntimeTyped ==
  /\ {up, registered, managed, gone} \subseteq BOOLEAN
  /\ version \in 1..(MaxVersion + 1) /\ crashes \in 0..MaxCrashes
  /\ dialer \in Members \cup {Nobody} /\ fresh \in [Members -> BOOLEAN]
  /\ stream \in [Streamers -> {"none", "live", "lost", "refused", "closed"}]
  /\ paging \in [Paged -> 0..(MaxVersion + 1)] /\ shown \in [Syncers -> 0..(MaxVersion + 1)]
MutexIsDialers == \A p \in Members : at[p] \in Dials <=> dialer = p
FreshIsManaged == (\E p \in Members : fresh[p]) => managed
OffTogether == at["main"] = "off" => \A p \in Members : at[p] = "off"

RuntimeStrong == OffTogether /\ RuntimeTyped /\ MutexIsDialers /\ FreshIsManaged
  /\ at \in [Members -> RuntimePlaces]

\* The invariant says what GSTypeOK asks.
LEMMA RuntimeHolds == RuntimeStrong => GSTypeOK
BY DEF RuntimeStrong, RuntimeTyped, MutexIsDialers, OffTogether, FreshIsManaged, GSTypeOK, Dials

\* The processes have different names.
LEMMA MembersApart == Nobody \notin Members /\ "beat" \in Members /\ "main" \in Members
BY GatewaySyncAssumption DEF Members, Workers, Streamers

\* The first state.
LEMMA RuntimeBegins == GSInit => RuntimeStrong
<1> SUFFICES ASSUME GSInit PROVE RuntimeStrong
  OBVIOUS
<1> USE GatewaySyncAssumption DEF GSInit
<1>1. version \in 1..(MaxVersion + 1) /\ 0 \in 0..(MaxVersion + 1) /\ crashes \in 0..MaxCrashes
  OBVIOUS
<1>2. RuntimeTyped
  BY <1>1 DEF RuntimeTyped
<1>3. at \in [Members -> RuntimePlaces]
  BY DEF RuntimePlaces
<1>4. MutexIsDialers /\ FreshIsManaged /\ OffTogether
  BY MembersApart DEF MutexIsDialers, FreshIsManaged, Dials, OffTogether
<1> QED
  BY <1>2, <1>3, <1>4 DEF RuntimeStrong

\* A goroutine goes from one place that is no dial to another.
LEMMA MovesOn ==
  ASSUME at \in [Members -> RuntimePlaces], MutexIsDialers, OffTogether, dialer' = dialer,
    NEW p \in Members, at[p] \in Going,
         NEW l \in Going, Move(p, l)
  PROVE  at' \in [Members -> RuntimePlaces] /\ MutexIsDialers' /\ OffTogether'
<1>1. at' \in [Members -> RuntimePlaces] /\ at' = [at EXCEPT ![p] = l]
  BY DEF Move, RuntimePlaces
<1>2. MutexIsDialers'
  BY <1>1 DEF MutexIsDialers, Going, Dials
<1>3. "main" \in Members
  BY MembersApart
<1>4. OffTogether'
  BY <1>1, <1>3 DEF OffTogether, Going
<1> QED
  BY <1>1, <1>2, <1>4

\* The steps over the client and its mutex.
LEMMA LockSteps ==
  ASSUME RuntimeStrong, NEW p \in Members, LockStep(p) \/ DialReady(p) \/ DialCancelled(p)
  PROVE  RuntimeStrong'
<1>0. /\ OffTogether /\ RuntimeTyped /\ MutexIsDialers /\ FreshIsManaged /\ at \in [Members -> RuntimePlaces]
      /\ Nobody \notin Members
  BY MembersApart DEF RuntimeStrong
<1>1. CASE Get(p)
  <2>1. at[p] \in Going /\ dialer' = dialer
    BY <1>1 DEF Get, Going, clientVars
  <2>2. PICK l \in Going : Move(p, l)
    BY <1>1 DEF Get, HasClient, RuntimePlaces, Dials, Going
  <2>3. at' \in [Members -> RuntimePlaces] /\ MutexIsDialers' /\ OffTogether'
    BY <1>0, <2>1, <2>2, MovesOn
  <2>4. RuntimeTyped' /\ FreshIsManaged'
    BY <1>0, <1>1 DEF Get, RuntimeTyped, FreshIsManaged, coreVars, mirrorVars
  <2> QED
    BY <2>3, <2>4 DEF RuntimeStrong
<1>2. CASE Dial(p)
  <2>1. PICK l \in Dials : Move(p, l)
    BY <1>2 DEF Dial, Dials
  <2>2. at' \in [Members -> RuntimePlaces]
    BY <1>0, <2>1 DEF Move, RuntimePlaces
  <2>3. MutexIsDialers' /\ OffTogether'
    BY <1>0, <1>2, <2>1, MembersApart DEF Dial, Move, MutexIsDialers, OffTogether, Dials
  <2>4. RuntimeTyped' /\ FreshIsManaged'
    BY <1>0, <1>2 DEF Dial, RuntimeTyped, FreshIsManaged, coreVars, mirrorVars
  <2> QED
    BY <2>2, <2>3, <2>4 DEF RuntimeStrong
<1>3. CASE DialReady(p)
  <2>1. PICK l \in Going : Move(p, l)
    BY <1>3 DEF DialReady, HasClient, RuntimePlaces, Dials, Going
  <2>2. dialer = p /\ dialer' = Nobody
    BY <1>0, <1>3 DEF DialReady, MutexIsDialers, Dials
  <2>3. at' \in [Members -> RuntimePlaces] /\ MutexIsDialers' /\ OffTogether'
    BY <1>0, <2>1, <2>2, MembersApart DEF Move, MutexIsDialers, OffTogether, RuntimePlaces, Going, Dials
  <2>4. RuntimeTyped' /\ FreshIsManaged'
    BY <1>0, <1>3 DEF DialReady, RuntimeTyped, FreshIsManaged, coreVars, mirrorVars
  <2> QED
    BY <2>3, <2>4 DEF RuntimeStrong
<1>4. CASE DialCancelled(p)
  <2>1. PICK l \in Going : Move(p, l)
    BY <1>4 DEF DialCancelled, RuntimePlaces, Dials, Going
  <2>2. dialer = p /\ dialer' = Nobody
    BY <1>0, <1>4 DEF DialCancelled, MutexIsDialers, Dials
  <2>3. at' \in [Members -> RuntimePlaces] /\ MutexIsDialers' /\ OffTogether'
    BY <1>0, <2>1, <2>2, MembersApart DEF Move, MutexIsDialers, OffTogether, RuntimePlaces, Going, Dials
  <2>4. RuntimeTyped' /\ FreshIsManaged'
    BY <1>0, <1>4 DEF DialCancelled, RuntimeTyped, FreshIsManaged, coreVars, mirrorVars
  <2> QED
    BY <2>3, <2>4 DEF RuntimeStrong
<1>5. CASE Reset(p)
  <2>1. PICK l \in Going : Move(p, l)
    BY <1>5 DEF Reset, RuntimePlaces, Dials, Going
  <2>2. at[p] \in Going /\ dialer' = dialer
    BY <1>5 DEF Reset, CloseClient, Going
  <2>3. at' \in [Members -> RuntimePlaces] /\ MutexIsDialers' /\ OffTogether'
    BY <1>0, <2>1, <2>2, MovesOn
  <2>4. RuntimeTyped' /\ FreshIsManaged'
    BY <1>0, <1>5 DEF Reset, CloseClient, RuntimeTyped, FreshIsManaged, coreVars, mirrorVars
  <2> QED
    BY <2>3, <2>4 DEF RuntimeStrong
<1> QED
  BY <1>1, <1>2, <1>3, <1>4, <1>5 DEF LockStep

\* The calls, the streams and the registration of a goroutine.
LEMMA CallSteps ==
  ASSUME RuntimeStrong, NEW p \in Members, CallStep(p) \/ RegisterStep(p)
  PROVE  RuntimeStrong'
<1>0. /\ OffTogether /\ RuntimeTyped /\ MutexIsDialers /\ FreshIsManaged /\ at \in [Members -> RuntimePlaces]
  BY DEF RuntimeStrong
<1>1. CASE DialReady(p) \/ DialCancelled(p)
  BY <1>1, LockSteps
<1>2. CASE ListOrWatchFails(p) \/ ListRefused(p) \/ List(p) \/ ListPage(p) \/ OpenStream(p) \/ RegisterStep(p)
  <2>1. UNCHANGED clientVars /\ at[p] \in Going
    BY <1>2 DEF ListOrWatchFails, ListRefused, List, ListPage, OpenStream, RegisterStep, Register,
       RegisterFails, Going
  <2>2. PICK l \in Going : Move(p, l)
    BY <1>2 DEF ListOrWatchFails, ListRefused, List, ListPage, OpenStream, RegisterStep, Register,
       RegisterFails,
       RuntimePlaces, Dials, Going
  <2>3. at' \in [Members -> RuntimePlaces] /\ MutexIsDialers' /\ OffTogether'
    BY <1>0, <2>1, <2>2, MovesOn DEF clientVars
  <2>4. FreshIsManaged'
    BY <1>0, <2>1 DEF FreshIsManaged, clientVars
  <2>5. version \in 0..(MaxVersion + 1) /\ 0 \in 0..(MaxVersion + 1)
    BY <1>0, GatewaySyncAssumption DEF RuntimeTyped
  <2>6. paging' \in [Paged -> 0..(MaxVersion + 1)] /\ shown' \in [Syncers -> 0..(MaxVersion + 1)]
    BY <1>0, <1>2, <2>5 DEF RuntimeTyped, ListOrWatchFails, ListRefused, List, ListPage, OpenStream,
       RegisterStep,
       Register, RegisterFails, mirrorVars
  <2>7. /\ stream' \in [Streamers -> {"none", "live", "lost", "refused", "closed"}]
        /\ UNCHANGED <<up, version, crashes, gone>> /\ registered' \in BOOLEAN
    BY <1>0, <1>2 DEF RuntimeTyped, ListOrWatchFails, ListRefused, List, ListPage, OpenStream, RegisterStep,
       Register, RegisterFails, coreVars
  <2>8. RuntimeTyped'
    BY <1>0, <2>1, <2>6, <2>7 DEF RuntimeTyped, clientVars
  <2> QED
    BY <2>3, <2>4, <2>8 DEF RuntimeStrong
<1> QED
  BY <1>1, <1>2 DEF CallStep

\* What a goroutine receives, and its sleeps.
LEMMA StreamSteps ==
  ASSUME RuntimeStrong, NEW p \in Streamers, RecvStep(p) \/ Wake(p)
  PROVE  RuntimeStrong'
<1>0. /\ OffTogether /\ RuntimeTyped /\ MutexIsDialers /\ FreshIsManaged
      /\ at \in [Members -> RuntimePlaces] /\ p \in Members
  BY DEF RuntimeStrong, Members, Workers
<1>1. CASE ReceiveVersion(p)
  <2>1. version \in 0..(MaxVersion + 1)
    BY <1>0, GatewaySyncAssumption DEF RuntimeTyped
  <2>2. shown' \in [Syncers -> 0..(MaxVersion + 1)]
    BY <1>0, <1>1, <2>1 DEF ReceiveVersion, RuntimeTyped
  <2> QED
    BY <1>0, <1>1, <2>2 DEF ReceiveVersion, RuntimeStrong, RuntimeTyped, MutexIsDialers,
       OffTogether, FreshIsManaged, coreVars,
       clientVars
<1>2. CASE RecvFails(p) \/ RecvCanceled(p) \/ RecvCancelled(p) \/ Wake(p)
  <2>1. UNCHANGED <<coreVars, clientVars, mirrorVars, gone>> /\ at[p] \in Going
    BY <1>2 DEF RecvFails, RecvCanceled, RecvCancelled, StreamEnds, Wake, Going
  <2>2. PICK l \in Going : Move(p, l)
    BY <1>2 DEF RecvFails, RecvCanceled, RecvCancelled, StreamEnds, Wake, RuntimePlaces, Dials, Going
  <2>3. at' \in [Members -> RuntimePlaces] /\ MutexIsDialers' /\ OffTogether'
    BY <1>0, <2>1, <2>2, MovesOn DEF clientVars
  <2>4. stream' \in [Streamers -> {"none", "live", "lost", "refused", "closed"}]
    BY <1>0, <1>2 DEF RecvFails, RecvCanceled, RecvCancelled, StreamEnds, Wake, RuntimeTyped
  <2> QED
    BY <1>0, <2>1, <2>3, <2>4 DEF RuntimeStrong, RuntimeTyped, FreshIsManaged, coreVars, clientVars,
       mirrorVars
<1> QED
  BY <1>1, <1>2 DEF RecvStep

\* Every step of a runtime.
LEMMA RuntimeStep == RuntimeStrong /\ [GSNext]_gsVars => RuntimeStrong'
<1> SUFFICES ASSUME RuntimeStrong, [GSNext]_gsVars PROVE RuntimeStrong'
  OBVIOUS
<1>0. /\ OffTogether /\ RuntimeTyped /\ MutexIsDialers /\ FreshIsManaged /\ at \in [Members -> RuntimePlaces]
      /\ Nobody \notin Members /\ "beat" \in Members /\ "main" \in Members
  BY MembersApart DEF RuntimeStrong
<1>1. CASE UNCHANGED gsVars
  BY <1>0, <1>1 DEF RuntimeStrong, RuntimeTyped, MutexIsDialers, OffTogether, FreshIsManaged,
     gsVars, coreVars, clientVars,
     mirrorVars
<1>2. CASE RunGateway
  <2>1. at' \in [Members -> RuntimePlaces] /\ \A p \in Members : at'[p] \in Going
    BY <1>2 DEF RunGateway, RuntimePlaces, Going
  <2>2. \A p \in Members : dialer # p
    BY <1>0, <1>2 DEF RunGateway, MutexIsDialers, OffTogether, Dials
  <2>3. UNCHANGED <<coreVars, clientVars, stream, mirrorVars, gone>>
    BY <1>2 DEF RunGateway
  <2>4. MutexIsDialers' /\ OffTogether'
    BY <1>0, <2>1, <2>2, <2>3 DEF MutexIsDialers, OffTogether, Going, Dials, clientVars
  <2> QED
    BY <1>0, <2>1, <2>3, <2>4 DEF RuntimeStrong, RuntimeTyped, FreshIsManaged, coreVars, clientVars,
       mirrorVars
<1>3. CASE Tick \/ Unregister
  <2>1. PICK p \in {"beat", "main"} : at[p] \in Going /\ \E l \in Going : Move(p, l)
    BY <1>3 DEF Tick, Unregister, RuntimePlaces, Dials, Going
  <2>2. UNCHANGED <<up, version, crashes, clientVars, stream, mirrorVars, gone>> /\ registered' \in BOOLEAN
    BY <1>0, <1>3 DEF Tick, Unregister, RuntimeTyped, coreVars
  <2>3. at' \in [Members -> RuntimePlaces] /\ MutexIsDialers' /\ OffTogether'
    BY <1>0, <2>1, <2>2, MovesOn DEF clientVars
  <2> QED
    BY <1>0, <2>2, <2>3 DEF RuntimeStrong, RuntimeTyped, FreshIsManaged, clientVars, mirrorVars
<1>4. CASE CloseRuntime
  <2>1. at["main"] \in Going /\ Move("main", "get") /\ dialer' = dialer /\ "get" \in Going
    BY <1>4 DEF CloseRuntime, CloseClient, RuntimePlaces, Dials, Going
  <2>2. at' \in [Members -> RuntimePlaces] /\ MutexIsDialers' /\ OffTogether'
    BY <1>0, <2>1, MovesOn
  <2>3. RuntimeTyped' /\ FreshIsManaged'
    BY <1>0, <1>4 DEF CloseRuntime, CloseClient, RuntimeTyped, FreshIsManaged, coreVars, mirrorVars
  <2> QED
    BY <2>2, <2>3 DEF RuntimeStrong
<1>5. CASE Publish \/ Crash \/ RestartCore \/ CancelRuntime
  <2>1. version' \in 1..(MaxVersion + 1) /\ crashes' \in 0..MaxCrashes
    BY <1>0, <1>5, GatewaySyncAssumption DEF Publish, Crash, RestartCore, CancelRuntime,
       RuntimeTyped, coreVars
  <2>2. stream' \in [Streamers -> {"none", "live", "lost", "refused", "closed"}]
    BY <1>0, <1>5 DEF Publish, Crash, RestartCore, CancelRuntime, RuntimeTyped
  <2>3. {up', registered', gone'} \subseteq BOOLEAN /\ UNCHANGED <<clientVars, at, mirrorVars>>
    BY <1>0, <1>5 DEF Publish, Crash, RestartCore, CancelRuntime, RuntimeTyped, coreVars
  <2> QED
    BY <1>0, <2>1, <2>2, <2>3
    DEF RuntimeStrong, RuntimeTyped, MutexIsDialers, OffTogether, FreshIsManaged, clientVars, mirrorVars
<1> QED
  BY <1>1, <1>2, <1>3, <1>4, <1>5, LockSteps, CallSteps, StreamSteps DEF GSNext

--------------------------------------------------------------------------------
(* The pool of the gateway's runtimes.                                     *)

\* A runtime that is starting is some request's, and a request that is not in Get has none.
StartsAreOwned ==
  \A r \in Runtimes : runtime[r] = "starting" => poolCtx \/ \E q \in Requests : own[q] = r
OwnsInGet == \A q \in Requests : own[q] = NoRuntime <=> rqpc[q] = "idle"

\* The runtimes are made one after the other, and one that a request is to discard has started.
MadeInOrder == \A r \in Runtimes : r > started => runtime[r] = "unused"
DiscardsStarted == \A q \in Requests : rqpc[q] = "discard" => runtime[own[q]] \notin {"unused", "starting"}

PoolStrong == GPTypeOK /\ NoOrphanRuntime /\ StartsAreOwned /\ OwnsInGet /\ MadeInOrder /\ DiscardsStarted

\* The first state.
LEMMA PoolBegins == GPInit => PoolStrong
<1> SUFFICES ASSUME GPInit PROVE PoolStrong
  OBVIOUS
<1> USE GatewayPoolAssumption DEF GPInit
<1>1. (CHOOSE k \in Selectors : TRUE) \in Selectors
  OBVIOUS
<1>2. \A s \in Stoppers : {} \in SUBSET Runtimes
  OBVIOUS
<1>3. GPTypeOK
  <2>1. started \in 0..MaxRuntimes
    OBVIOUS
  <2> QED
    BY <1>1, <2>1 DEF GPTypeOK
<1>4. NoOrphanRuntime /\ StartsAreOwned /\ OwnsInGet /\ MadeInOrder /\ DiscardsStarted
  BY DEF NoOrphanRuntime, StartsAreOwned, OwnsInGet, MadeInOrder, DiscardsStarted
<1> QED
  BY <1>3, <1>4 DEF PoolStrong

\* The variables keep their types.
LEMMA PoolTypes == PoolStrong /\ GPNext => GPTypeOK'
<1> SUFFICES ASSUME PoolStrong, GPNext PROVE GPTypeOK'
  OBVIOUS
<1> USE GatewayPoolAssumption DEF PoolStrong, GPTypeOK, poolVars, runtimeVars, requestVars
<1>0. "sweeper" \in Stoppers /\ "close" \in Stoppers
  BY DEF Stoppers
<1>1. ASSUME NEW q \in Requests, NEW k \in Selectors, GetPooled(q, k) PROVE GPTypeOK'
  BY <1>1 DEF GetPooled
<1>2. ASSUME NEW q \in Requests, NEW k \in Selectors, GetNew(q, k) PROVE GPTypeOK'
  <2>1. started + 1 \in Runtimes /\ started + 1 \in 0..MaxRuntimes
    BY <1>2 DEF GetNew, Runtimes
  <2> QED
    BY <1>2, <2>1 DEF GetNew
<1>3. ASSUME NEW q \in Requests, StartFailed(q) PROVE GPTypeOK'
  BY <1>3 DEF StartFailed, Leave
<1>4. ASSUME NEW q \in Requests, Store(q) PROVE GPTypeOK'
  <2>1. own[q] \in Runtimes /\ serves[own[q]] \in Selectors
    BY <1>4 DEF Store, OwnsInGet
  <2>2. pooled' \in [Selectors -> Runtimes \cup {NoRuntime}]
          /\ own' \in [Requests -> Runtimes \cup {NoRuntime}]
        /\ rqpc' \in [Requests -> {"idle", "start", "discard"}]
    BY <1>4, <2>1 DEF Store, Leave
  <2>3. stale' \in [Selectors -> BOOLEAN]
    BY <1>4, <2>1 DEF Store
  <2> QED
    BY <1>4, <2>2, <2>3 DEF Store
<1>5. ASSUME NEW q \in Requests, Discard(q) PROVE GPTypeOK'
  BY <1>5 DEF Discard, StopRuntime, Leave
<1>6. ASSUME NEW k \in Selectors, Age(k) PROVE GPTypeOK'
  BY <1>6 DEF Age
<1>7. ASSUME NEW s \in Stoppers, NEW ks \in SUBSET Kept, Forget(s, ks)
      PROVE /\ pooled' \in [Selectors -> Runtimes \cup {NoRuntime}] /\ stale' \in [Selectors -> BOOLEAN]
            /\ toStop' \in [Stoppers -> SUBSET Runtimes]
  <2>1. {pooled[k] : k \in ks} \subseteq Runtimes
    BY DEF Kept
  <2>2. toStop' \in [Stoppers -> SUBSET Runtimes]
    BY <1>7, <2>1 DEF Forget
  <2> QED
    BY <1>7, <2>2 DEF Forget
<1>8. CASE EvictIdle
  BY <1>0, <1>7, <1>8 DEF EvictIdle
<1>9. CASE ClosePool
  BY <1>0, <1>7, <1>9 DEF ClosePool
<1>10. CASE CancelPool
  BY <1>10 DEF CancelPool
<1>11. ASSUME NEW s \in Stoppers, StopperStep(s) PROVE GPTypeOK'
  BY <1>11 DEF StopperStep, StopNext, Stopped, StopRuntime
<1>12. ASSUME NEW r \in Runtimes, RuntimeStarts(r) \/ Heartbeat(r) \/ RuntimeEnds(r) PROVE GPTypeOK'
  BY <1>12 DEF RuntimeStarts, RuntimeEnds, RuntimeRegisters, RuntimeRefused, Heartbeat, RuntimeCancelled,
     RuntimeUnregisters, StopRuntime
<1> QED
  BY <1>1, <1>2, <1>3, <1>4, <1>5, <1>6, <1>8, <1>9, <1>10, <1>11, <1>12 DEF GPNext, RequestStep

\* Runtimes are made in their order, and none starts twice.
LEMMA PoolOrder == PoolStrong /\ GPNext => (MadeInOrder /\ DiscardsStarted)'
<1> SUFFICES ASSUME PoolStrong, GPNext PROVE (MadeInOrder /\ DiscardsStarted)'
  OBVIOUS
<1> USE GatewayPoolAssumption DEF GPTypeOK, poolVars, runtimeVars, requestVars
<1>0. GPTypeOK /\ OwnsInGet /\ MadeInOrder /\ DiscardsStarted /\ NoRuntime \notin Runtimes
  BY DEF PoolStrong, Runtimes
<1>a. \A q \in Requests : rqpc[q] = "discard" => own[q] \in Runtimes
  BY <1>0 DEF OwnsInGet
<1>1. CASE UNCHANGED <<started, runtime, requestVars>>
  BY <1>0, <1>1 DEF MadeInOrder, DiscardsStarted
<1>2. ASSUME NEW q \in Requests, NEW k \in Selectors, GetNew(q, k) PROVE (MadeInOrder /\ DiscardsStarted)'
  <2>1. started + 1 \in Runtimes /\ started \in Nat /\ runtime[started + 1] = "unused"
    BY <1>0, <1>2 DEF GetNew, Runtimes, MadeInOrder
  <2>2. MadeInOrder'
    BY <1>0, <1>2, <2>1 DEF GetNew, MadeInOrder, Runtimes
  <2>3. DiscardsStarted'
    BY <1>0, <1>a, <1>2, <2>1 DEF GetNew, DiscardsStarted
  <2> QED
    BY <2>2, <2>3
<1>3. ASSUME UNCHANGED <<started, runtime>>, NEW q \in Requests, StartFailed(q) \/ Store(q)
      PROVE (MadeInOrder /\ DiscardsStarted)'
  <2>1. MadeInOrder'
    BY <1>0, <1>3 DEF MadeInOrder
  <2>2. \A p \in Requests : p # q => rqpc'[p] = rqpc[p] /\ own'[p] = own[p]
    BY <1>0, <1>3 DEF StartFailed, Store, Leave
  <2>3. rqpc'[q] = "discard" => own'[q] = own[q] /\ runtime[own[q]] \in {"running", "stopping"}
    BY <1>0, <1>3 DEF StartFailed, Store, Leave
  <2> QED
    BY <1>0, <1>3, <2>1, <2>2, <2>3 DEF DiscardsStarted
<1>4. ASSUME started' = started, \A q \in Requests : rqpc'[q] = "discard" => rqpc[q] = "discard"
        /\ own'[q] = own[q],
             \A r \in Runtimes : \/ runtime'[r] = runtime[r]
                                 \/ runtime[r] # "unused"
                                      /\ runtime'[r] \in {"running", "stopping", "stopped"}
      PROVE (MadeInOrder /\ DiscardsStarted)'
  <2>1. MadeInOrder'
    BY <1>0, <1>4 DEF MadeInOrder
  <2>2. DiscardsStarted'
    BY <1>0, <1>a, <1>4 DEF DiscardsStarted
  <2> QED
    BY <2>1, <2>2
<1>5. ASSUME NEW q \in Requests, Discard(q) PROVE (MadeInOrder /\ DiscardsStarted)'
  BY <1>0, <1>4, <1>5 DEF Discard, StopRuntime, Leave
<1>6. ASSUME NEW s \in Stoppers, StopNext(s) PROVE (MadeInOrder /\ DiscardsStarted)'
  BY <1>0, <1>4, <1>6 DEF StopNext, StopRuntime
<1>7. ASSUME NEW r \in Runtimes, RuntimeStarts(r) \/ RuntimeEnds(r) PROVE (MadeInOrder /\ DiscardsStarted)'
  <2>1. started' = started /\ UNCHANGED requestVars
    BY <1>7 DEF RuntimeStarts, RuntimeEnds, RuntimeRegisters, RuntimeRefused, RuntimeCancelled,
       RuntimeUnregisters
  <2>2. ASSUME NEW x \in Runtimes, runtime'[x] # runtime[x]
        PROVE runtime[x] # "unused" /\ runtime'[x] \in {"running", "stopping", "stopped"}
    BY <1>0, <1>7, <2>2 DEF RuntimeStarts, RuntimeEnds, RuntimeRegisters, RuntimeRefused, RuntimeCancelled,
       RuntimeUnregisters, StopRuntime
  <2> QED
    BY <1>4, <2>1, <2>2
<1> QED
  BY <1>1, <1>2, <1>3, <1>5, <1>6, <1>7 DEF GPNext, RequestStep, StopperStep, GetPooled,
     StartFailed, Store, Age,
     EvictIdle, ClosePool, CancelPool, Stopped, Heartbeat

\* What keeps a runtime from being forgotten: who holds it, or it does not run.
HeldSomewhere(r) ==
  \/ pooled[serves[r]] = r \/ poolCtx
  \/ \E q \in Requests : own[q] = r
  \/ \E s \in Stoppers : r \in toStop[s]

\* No runtime is forgotten.
LEMMA PoolStep == PoolStrong /\ [GPNext]_gpVars => PoolStrong'
<1> SUFFICES ASSUME PoolStrong, [GPNext]_gpVars PROVE PoolStrong'
  OBVIOUS
<1>0. GPTypeOK /\ NoOrphanRuntime /\ StartsAreOwned /\ OwnsInGet /\ MadeInOrder /\ DiscardsStarted
  BY DEF PoolStrong
<1>1. CASE UNCHANGED gpVars
  BY <1>1 DEF gpVars, poolVars, runtimeVars, requestVars, PoolStrong, GPTypeOK, NoOrphanRuntime,
     StartsAreOwned,
     OwnsInGet, MadeInOrder, DiscardsStarted, Kept
<1>2. CASE GPNext
  <2> USE GatewayPoolAssumption, <1>0 DEF GPTypeOK, poolVars, runtimeVars, requestVars
  <2>a. "sweeper" \in Stoppers /\ "close" \in Stoppers
    BY DEF Stoppers
  <2>0. SUFFICES (NoOrphanRuntime /\ StartsAreOwned /\ OwnsInGet)'
    BY <1>2, PoolTypes, PoolOrder DEF PoolStrong
  <2>b. \A r \in Runtimes : runtime[r] = "running" => HeldSomewhere(r)
    BY DEF NoOrphanRuntime, HeldSomewhere
  <2>c. SUFFICES (\A r \in Runtimes : runtime[r] = "running" => HeldSomewhere(r))'
          /\ (StartsAreOwned /\ OwnsInGet)'
    BY DEF NoOrphanRuntime, HeldSomewhere
  <2>1. ASSUME NEW q \in Requests, NEW k \in Selectors, GetPooled(q, k)
        PROVE (\A r \in Runtimes : runtime[r] = "running" => HeldSomewhere(r))'
          /\ (StartsAreOwned /\ OwnsInGet)'
    BY <2>1, <2>b DEF GetPooled, HeldSomewhere, StartsAreOwned, OwnsInGet
  <2>2. ASSUME NEW q \in Requests, NEW k \in Selectors, GetNew(q, k)
        PROVE (\A r \in Runtimes : runtime[r] = "running" => HeldSomewhere(r))'
          /\ (StartsAreOwned /\ OwnsInGet)'
    <3>1. started + 1 \in Runtimes /\ own[q] = NoRuntime /\ NoRuntime \notin Runtimes
      BY <2>2 DEF GetNew, Runtimes, OwnsInGet
    <3>2. OwnsInGet'
      BY <2>2, <3>1 DEF GetNew, OwnsInGet
    <3>3. StartsAreOwned'
      BY <2>2, <3>1 DEF GetNew, StartsAreOwned
    <3>4. ASSUME NEW r \in Runtimes, runtime'[r] = "running" PROVE HeldSomewhere(r)'
      <4>1. r # started + 1 /\ runtime[r] = "running" /\ serves'[r] = serves[r]
        BY <2>2, <3>1, <3>4 DEF GetNew
      <4> QED
        BY <2>2, <2>b, <3>1, <4>1 DEF GetNew, HeldSomewhere
    <3> QED
      BY <3>2, <3>3, <3>4
  <2>3. ASSUME NEW q \in Requests, StartFailed(q)
        PROVE (\A r \in Runtimes : runtime[r] = "running" => HeldSomewhere(r))'
          /\ (StartsAreOwned /\ OwnsInGet)'
    BY <2>3, <2>b DEF StartFailed, Leave, HeldSomewhere, StartsAreOwned, OwnsInGet
  <2>4. ASSUME NEW q \in Requests, Store(q)
        PROVE (\A r \in Runtimes : runtime[r] = "running" => HeldSomewhere(r))'
          /\ (StartsAreOwned /\ OwnsInGet)'
    <3>1. own[q] \in Runtimes /\ serves[own[q]] \in Selectors /\ runtime[own[q]] \in {"running", "stopping"}
      BY <2>4 DEF Store, OwnsInGet
    <3>2. UNCHANGED <<runtime, serves, toStop, poolCtx>>
      BY <2>4 DEF Store
    <3>3. CASE closed \/ serves[own[q]] \in Kept
      <4>1. rqpc' = [rqpc EXCEPT ![q] = "discard"] /\ UNCHANGED <<pooled, own>> /\ rqpc[q] = "start"
        BY <2>4, <3>3 DEF Store
      <4> QED
        BY <3>1, <3>2, <4>1, <2>b DEF HeldSomewhere, StartsAreOwned, OwnsInGet
    <3>4. CASE ~(closed \/ serves[own[q]] \in Kept)
      <4>1. pooled' = [pooled EXCEPT ![serves[own[q]]] = own[q]] /\ Leave(q)
              /\ pooled[serves[own[q]]] = NoRuntime
        BY <2>4, <3>1, <3>4 DEF Store, Kept
      <4>2. ASSUME NEW r \in Runtimes, runtime'[r] = "running" PROVE HeldSomewhere(r)'
        BY <2>b, <3>1, <3>2, <4>1, <4>2 DEF HeldSomewhere, Leave, Runtimes
      <4> QED
        BY <3>1, <3>2, <4>1, <4>2 DEF StartsAreOwned, OwnsInGet, Leave
    <3> QED
      BY <3>3, <3>4
  <2>5. ASSUME NEW q \in Requests, Discard(q)
        PROVE (\A r \in Runtimes : runtime[r] = "running" => HeldSomewhere(r))'
          /\ (StartsAreOwned /\ OwnsInGet)'
    <3>1. own[q] \in Runtimes
      BY <2>5 DEF Discard, OwnsInGet
    <3>2. ASSUME NEW r \in Runtimes, runtime'[r] = "running" \/ runtime'[r] = "starting"
          PROVE runtime'[r] = runtime[r] /\ r # own[q]
      BY <2>5, <3>1, <3>2 DEF Discard, StopRuntime, DiscardsStarted
    <3>3. /\ UNCHANGED <<poolVars, serves, toStop, poolCtx>> /\ own' = [own EXCEPT ![q] = NoRuntime]
          /\ rqpc' = [rqpc EXCEPT ![q] = "idle"]
      BY <2>5 DEF Discard, Leave
    <3>4. ASSUME NEW r \in Runtimes, runtime'[r] = "running" PROVE HeldSomewhere(r)'
      <4>1. runtime[r] = "running" /\ r # own[q] /\ HeldSomewhere(r)
        BY <2>b, <3>1, <3>2, <3>4
      <4> QED
        BY <3>3, <4>1 DEF HeldSomewhere
    <3>5. ASSUME NEW r \in Runtimes, runtime'[r] = "starting" PROVE poolCtx'
            \/ \E p \in Requests : own'[p] = r
      <4>1. CASE poolCtx
        BY <3>3, <4>1
      <4>2. CASE ~poolCtx
        BY <3>2, <3>3, <3>5, <4>2 DEF StartsAreOwned
      <4> QED
        BY <4>1, <4>2
    <3>6. OwnsInGet'
      BY <3>3 DEF OwnsInGet
    <3> QED
      BY <3>4, <3>5, <3>6 DEF StartsAreOwned
  <2>6. ASSUME NEW k \in Selectors, Age(k)
        PROVE (\A r \in Runtimes : runtime[r] = "running" => HeldSomewhere(r))'
          /\ (StartsAreOwned /\ OwnsInGet)'
    BY <2>6, <2>b DEF Age, HeldSomewhere, StartsAreOwned, OwnsInGet
  <2>7. ASSUME NEW s \in Stoppers, NEW ks \in SUBSET Kept, Forget(s, ks),
          UNCHANGED <<runtimeVars, requestVars, poolCtx>>
        PROVE (\A r \in Runtimes : runtime[r] = "running" => HeldSomewhere(r))'
          /\ (StartsAreOwned /\ OwnsInGet)'
    <3>1. ASSUME NEW r \in Runtimes, runtime'[r] = "running" PROVE HeldSomewhere(r)'
      BY <2>7, <2>b, <3>1 DEF Forget, HeldSomewhere
    <3> QED
      BY <2>7, <3>1 DEF StartsAreOwned, OwnsInGet
  <2>8. CASE EvictIdle
    BY <2>a, <2>7, <2>8 DEF EvictIdle
  <2>9. CASE ClosePool
    BY <2>a, <2>7, <2>9 DEF ClosePool
  <2>10. CASE CancelPool
    BY <2>10, <2>b DEF CancelPool, HeldSomewhere, StartsAreOwned, OwnsInGet
  <2>11. ASSUME NEW s \in Stoppers, StopperStep(s)
         PROVE (\A r \in Runtimes : runtime[r] = "running" => HeldSomewhere(r))'
           /\ (StartsAreOwned /\ OwnsInGet)'
    <3>1. CASE StopNext(s)
      BY <3>1, <2>b DEF StopNext, StopRuntime, HeldSomewhere, StartsAreOwned, OwnsInGet
    <3>2. CASE Stopped(s)
      BY <3>2, <2>b DEF Stopped, HeldSomewhere, StartsAreOwned, OwnsInGet
    <3> QED
      BY <2>11, <3>1, <3>2 DEF StopperStep
  <2>12. ASSUME NEW r \in Runtimes, RuntimeStarts(r) \/ Heartbeat(r) \/ RuntimeEnds(r)
         PROVE (\A x \in Runtimes : runtime[x] = "running" => HeldSomewhere(x))'
           /\ (StartsAreOwned /\ OwnsInGet)'
    <3>1. UNCHANGED <<poolVars, serves, requestVars, toStop, poolCtx>>
      BY <2>12 DEF RuntimeStarts, RuntimeEnds, RuntimeRegisters, RuntimeRefused, Heartbeat, RuntimeCancelled,
         RuntimeUnregisters
    <3>2. ASSUME NEW x \in Runtimes, runtime'[x] = "starting" PROVE runtime[x] = "starting"
      BY <2>12, <3>2 DEF RuntimeStarts, RuntimeEnds, RuntimeRegisters, RuntimeRefused, Heartbeat,
         RuntimeCancelled,
         RuntimeUnregisters, StopRuntime
    <3>3. ASSUME NEW x \in Runtimes, runtime'[x] = "running" PROVE runtime[x] \in {"starting", "running"}
      BY <2>12, <3>3 DEF RuntimeStarts, RuntimeEnds, RuntimeRegisters, RuntimeRefused, Heartbeat,
         RuntimeCancelled,
         RuntimeUnregisters, StopRuntime
    <3>4. ASSUME NEW x \in Runtimes, runtime'[x] = "running" PROVE HeldSomewhere(x)'
      BY <2>b, <3>1, <3>3, <3>4 DEF HeldSomewhere, StartsAreOwned
    <3> QED
      BY <3>1, <3>2, <3>4 DEF StartsAreOwned, OwnsInGet
  <2> QED
    BY <1>2, <2>1, <2>2, <2>3, <2>4, <2>5, <2>6, <2>8, <2>9, <2>10, <2>11, <2>12 DEF GPNext, RequestStep
<1> QED
  BY <1>1, <1>2

\* The invariant says what PoolInv asks.
LEMMA PoolHolds == PoolStrong => PoolInv
BY DEF PoolStrong, PoolInv

--------------------------------------------------------------------------------
(* The gateway process of the desktop application.                         *)

StopPlaces == {"idle", "stop", "forget", "wait"}
Job == [at : StopPlaces \cup {"apply", "config", "start", "probe", "spawned"}, cfg : GatewayConfigs,
        running : BOOLEAN, then : BOOLEAN, cmd : Nat]

\* A job at a process knows one that was spawned.
JobsTyped ==
  /\ job \in [Callers -> Job] /\ procCfg \in Seq(GatewayConfigs)
  /\ \A t \in Callers : job[t].at \in {"spawned", "wait"} => job[t].cmd \in DOMAIN procCfg

\* Which jobs a core in its phases, Stop and the page of settings have.
JobsFit ==
  /\ \A r \in ServedCores :
       /\ phase[r] \in {"none", "up", "done"} => job[r].at = "idle"
       /\ phase[r] = "stopgw" => job[r].at \in StopPlaces /\ ~job[r].then
  /\ job[Stopper].at \in StopPlaces /\ ~job[Stopper].then
  /\ applies = 0 => job[Page].at = "idle"

\* What is to be stopped is not reaped, neither is what was just spawned.
Unreaped ==
  /\ cmd \notin reaped
  /\ \A t \in Callers : job[t].at = "spawned" => job[t].cmd \notin reaped

\* There is one start at a time, and none beside a process of this application.
OneStart ==
  /\ cmd # 0 => gwState = "running" /\ ownsProcess
  /\ \A t \in Callers : InStart(t) => cmd = 0 /\ gwState = "starting"
  /\ \A t, u \in Callers : InStart(t) /\ InStart(u) => t = u

\* Somebody is about to stop the process p.
Stops(t, p) == job[t].at \in {"stop", "forget"} \/ (job[t].at = "wait" /\ job[t].cmd = p)

\* A process with another configuration than the one in force is about to be stopped.
ConfigCovered ==
  /\ cmd \notin killed \cup {0} => procCfg[cmd] = gwCfg \/ \E t \in Callers : Stops(t, cmd)
  /\ \A t \in Callers :
       job[t].at = "spawned" =>
         procCfg[job[t].cmd] = gwCfg \/ \E u \in Callers : job[u].at \in {"stop", "forget"}

\* A process belongs to a core that is there or is about to stop it.
CoreCovered ==
  (applies = 0 /\ cmd \notin killed \cup {0}) =>
    \E r \in ServedCores : phase[r] \in {"apply", "up"} \/ (phase[r] = "stopgw" /\ Stops(r, cmd))

ChildStrong ==
  /\ GPSTypeOK /\ JobsTyped /\ JobsFit /\ Unreaped /\ NoOrphan
  /\ ~lost => OneStart /\ ConfigCovered /\ CoreCovered

\* The settings there are, the empty job and the callers.
LEMMA ChildNames ==
  /\ SomeConfig \in GatewayConfigs /\ NoJob \in Job /\ NoJob.at = "idle" /\ ~NoJob.then
  /\ Stopper \in Callers /\ Page \in Callers /\ Stopper # Page /\ ServedCores \subseteq Callers
  /\ Stopper \notin ServedCores /\ Page \notin ServedCores
<1>1. SomeConfig \in GatewayConfigs
  BY GatewayProcessAssumption DEF SomeConfig
<1> QED
  BY <1>1, GatewayProcessAssumption DEF NoJob, Job, StopPlaces, Callers

\* The first state.
LEMMA ChildBegins == GPSInit => ChildStrong
<1> SUFFICES ASSUME GPSInit PROVE ChildStrong
  OBVIOUS
<1> USE ChildNames, GatewayProcessAssumption DEF GPSInit
<1>1. GPSTypeOK
  <2>1. \A t \in Callers : job[t].at = "idle"
    OBVIOUS
  <2>2. applies \in 0..MaxApplies /\ DOMAIN procCfg = {}
    OBVIOUS
  <2> QED
    BY <2>1, <2>2 DEF GPSTypeOK
<1>2. JobsTyped
  BY DEF JobsTyped
<1>3. JobsFit /\ Unreaped /\ NoOrphan /\ OneStart /\ ConfigCovered /\ CoreCovered
  BY DEF JobsFit, Unreaped, NoOrphan, OneStart, ConfigCovered, CoreCovered, InStart, StopPlaces
<1> QED
  BY <1>1, <1>2, <1>3 DEF ChildStrong

\* The invariant says what GatewayProcessInv asks.
LEMMA ChildHolds == ChildStrong => GatewayProcessInv
<1> SUFFICES ASSUME ChildStrong PROVE GatewayProcessInv
  OBVIOUS
<1>1. GPSTypeOK /\ NoOrphan /\ JobsTyped
  BY DEF ChildStrong
<1>2. NoGatewayWithoutCore
  <2> SUFFICES ASSUME ~lost, applies = 0, Quiet, \A r \in ServedCores : phase[r] \in {"none", "done"},
                      NEW p \in procAlive
               PROVE p \in killed
    BY DEF NoGatewayWithoutCore
  <2>1. cmd \in killed \cup {0}
    BY DEF ChildStrong, CoreCovered
  <2>2. p # 0
    BY <1>1 DEF GPSTypeOK, JobsTyped
  <2> QED
    BY <1>1, <2>1, <2>2 DEF NoOrphan, Quiet
<1>3. ConfigInForce
  <2> SUFFICES ASSUME ~lost, Quiet, cmd \notin killed \cup {0} PROVE procCfg[cmd] = gwCfg
    BY DEF ConfigInForce
  <2> QED
    BY DEF ChildStrong, ConfigCovered, Stops, Quiet
<1> QED
  BY <1>1, <1>2, <1>3 DEF GatewayProcessInv

\* A job with another place, or another process or plan as well.
LEMMA JobMoves ==
  ASSUME NEW j \in Job, NEW a \in StopPlaces \cup {"apply", "config", "start", "probe", "spawned"}
  PROVE  /\ [j EXCEPT !.at = a] \in Job /\ [j EXCEPT !.at = a].at = a /\ [j EXCEPT !.at = a].then = j.then
BY DEF Job

Takes(j, a, p) == [j EXCEPT !.at = a, !.cmd = p]

\* A job that takes a process with it.
LEMMA JobTakes ==
  ASSUME NEW j \in Job, NEW a \in StopPlaces \cup {"apply", "config", "start", "probe", "spawned"},
    NEW p \in Nat
  PROVE  Takes(j, a, p) \in Job /\ Takes(j, a, p).at = a /\ Takes(j, a, p).then = j.then
    /\ Takes(j, a, p).cmd = p
BY DEF Job, Takes

\* A job that is to stop, and perhaps to start again.
LEMMA JobPlans ==
  ASSUME NEW j \in Job, NEW wanted \in BOOLEAN
  PROVE  [j EXCEPT !.at = "stop", !.then = wanted] \in Job
    /\ [j EXCEPT !.at = "stop", !.then = wanted].at = "stop"
BY DEF Job, StopPlaces

\* A job that is begun.
LEMMA JobBegins ==
  ASSUME JobsTyped, NEW t \in Callers, NEW place \in {"apply", "stop"}, NEW cfg \in GatewayConfigs,
         Calls(t, place, cfg)
  PROVE  /\ job' \in [Callers -> Job] /\ job'[t].at = place /\ ~job'[t].then /\ job'[t].cmd = 0
         /\ \A u \in Callers : u # t => job'[u] = job[u]
<1>1. [NoJob EXCEPT !.at = place, !.cfg = cfg] \in Job
  BY ChildNames DEF Job, StopPlaces
<1>2. /\ [NoJob EXCEPT !.at = place, !.cfg = cfg].at = place
      /\ ~[NoJob EXCEPT !.at = place, !.cfg = cfg].then /\ [NoJob EXCEPT !.at = place, !.cfg = cfg].cmd = 0
  BY DEF NoJob
<1>3. PICK j \in Job : j = [NoJob EXCEPT !.at = place, !.cfg = cfg]
  BY <1>1
<1>4. job' = [job EXCEPT ![t] = j] /\ job \in [Callers -> Job]
  BY <1>3 DEF Calls, JobsTyped
<1> QED
  BY <1>2, <1>3, <1>4

\* The job that is left when a Stop is over.
LEMMA AfterStopIs ==
  ASSUME JobsTyped, NEW t \in Callers
  PROVE  /\ AfterStop(t) \in Job /\ AfterStop(t).at = (IF job[t].then THEN "start" ELSE "idle")
         /\ ~AfterStop(t).then /\ AfterStop(t).cmd = 0
BY DEF AfterStop, Job, StopPlaces, JobsTyped

\* A step of a job changes no other, and goes from place to place as follows.
JobSteps(t, from, to) ==
  /\ job[t].at \in from
  /\ job' \in [Callers -> Job] /\ job'[t].at \in to
  /\ \A u \in Callers : u # t => job'[u] = job[u]

\* The steps of a job: whether a core runs is read.
LEMMA ReadMoves ==
  ASSUME JobsTyped, GPSTypeOK, NEW t \in Callers, ReadCoreState(t)
  PROVE  JobSteps(t, {"apply"}, {"config"}) /\ job'[t].then = job[t].then
<1>1. job[t] \in Job /\ running \in BOOLEAN /\ job \in [Callers -> Job]
  BY DEF JobsTyped, GPSTypeOK
<1>2. PICK j \in Job : job' = [job EXCEPT ![t] = j] /\ j.at = "config" /\ j.then = job[t].then
  <2>1. [job[t] EXCEPT !.at = "config", !.running = running] \in Job
    BY <1>1 DEF Job
  <2>2. job' = [job EXCEPT ![t] = [job[t] EXCEPT !.at = "config", !.running = running]]
    BY <1>1 DEF ReadCoreState
  <2>3. /\ [job[t] EXCEPT !.at = "config", !.running = running].at = "config"
        /\ [job[t] EXCEPT !.at = "config", !.running = running].then = job[t].then
    BY <1>1 DEF Job
  <2> QED
    BY <2>1, <2>2, <2>3
<1> QED
  BY <1>1, <1>2 DEF JobSteps, ReadCoreState

\* The configuration is taken over.
LEMMA UpdateMoves ==
  ASSUME JobsTyped, GPSTypeOK, NEW t \in Callers, UpdateConfig(t)
  PROVE  /\ JobSteps(t, {"config"}, {"start", "stop"}) /\ gwCfg' \in GatewayConfigs
         /\ job'[t].at = "start" => gwCfg' = gwCfg
<1>1. job[t] \in Job /\ job \in [Callers -> Job] /\ NoJob \in Job /\ job[t].at = "config"
        /\ gwCfg' = job[t].cfg
  BY ChildNames DEF JobsTyped, UpdateConfig
<1>2. gwCfg' \in GatewayConfigs /\ gwCfg'.enabled \in BOOLEAN /\ job[t].running \in BOOLEAN
  BY <1>1, GatewayProcessAssumption DEF Job
<1>3. PICK wanted \in BOOLEAN :
        job' = [job EXCEPT ![t] = IF wanted /\ gwCfg = gwCfg' THEN [NoJob EXCEPT !.at = "start"]
                                  ELSE [NoJob EXCEPT !.at = "stop", !.then = wanted]]
  BY <1>2 DEF UpdateConfig
<1>4. CASE wanted /\ gwCfg = gwCfg'
  <2>1. PICK j \in Job : j = [NoJob EXCEPT !.at = "start"] /\ j.at = "start"
    BY <1>1, JobMoves
  <2> QED
    BY <1>1, <1>2, <1>3, <1>4, <2>1 DEF JobSteps
<1>5. CASE ~(wanted /\ gwCfg = gwCfg')
  <2>1. PICK j \in Job : j = [NoJob EXCEPT !.at = "stop", !.then = wanted] /\ j.at = "stop"
    BY <1>1, JobPlans
  <2> QED
    BY <1>1, <1>2, <1>3, <1>5, <2>1 DEF JobSteps
<1> QED
  BY <1>4, <1>5

\* A Stop begins.
LEMMA LooksMoves ==
  ASSUME JobsTyped, GPSTypeOK, NEW t \in Callers, StopLooks(t)
  PROVE  \/ /\ gwState \notin {"running", "starting"} /\ JobSteps(t, {"stop"}, {"start", "idle"})
            /\ job'[t] = AfterStop(t)
         \/ /\ gwState \in {"running", "starting"} /\ ownsProcess /\ cmd # 0
            /\ JobSteps(t, {"stop"}, {"wait"}) /\ job'[t].cmd = cmd /\ job'[t].then = job[t].then
         \/ /\ gwState \in {"running", "starting"} /\ ~(ownsProcess /\ cmd # 0)
            /\ JobSteps(t, {"stop"}, {"forget"}) /\ job'[t].then = job[t].then
<1>1. job[t] \in Job /\ job \in [Callers -> Job] /\ job[t].at = "stop" /\ cmd \in Nat
  BY DEF JobsTyped, StopLooks, GPSTypeOK
<1>2. CASE gwState \notin {"running", "starting"}
  <2>1. job' = [job EXCEPT ![t] = AfterStop(t)]
    BY <1>2 DEF StopLooks
  <2> QED
    BY <1>1, <1>2, <2>1, AfterStopIs DEF JobSteps
<1>3. CASE gwState \in {"running", "starting"} /\ ownsProcess /\ cmd # 0
  <2>1. PICK j \in Job : j = Takes(job[t], "wait", cmd) /\ j.at = "wait" /\ j.cmd = cmd
          /\ j.then = job[t].then
    BY <1>1, JobTakes DEF StopPlaces
  <2>2. job' = [job EXCEPT ![t] = j]
    BY <1>3, <2>1 DEF StopLooks, Takes
  <2> QED
    BY <1>1, <1>3, <2>1, <2>2 DEF JobSteps
<1>4. CASE gwState \in {"running", "starting"} /\ ~(ownsProcess /\ cmd # 0)
  <2>1. PICK j \in Job : j = [job[t] EXCEPT !.at = "forget"] /\ j.at = "forget" /\ j.then = job[t].then
    BY <1>1, JobMoves DEF StopPlaces
  <2>2. job' = [job EXCEPT ![t] = j]
    BY <1>4, <2>1 DEF StopLooks
  <2> QED
    BY <1>1, <1>4, <2>1, <2>2 DEF JobSteps
<1> QED
  BY <1>2, <1>3, <1>4

\* A Stop comes to its end.
LEMMA StoppedMoves ==
  ASSUME JobsTyped, NEW t \in Callers, StopForgets(t) \/ StopSees(t) \/ StopTimesOut(t)
  PROVE  JobSteps(t, {"forget", "wait"}, {"start", "idle"}) /\ job'[t] = AfterStop(t)
<1>1. job \in [Callers -> Job] /\ job' = [job EXCEPT ![t] = AfterStop(t)] /\ job[t].at \in {"forget", "wait"}
  BY DEF JobsTyped, StopForgets, StopSees, StopTimesOut
<1> QED
  BY <1>1, AfterStopIs DEF JobSteps

\* A start.
LEMMA StartMoves ==
  ASSUME JobsTyped, NEW t \in Callers,
         StartChecks(t) \/ FoundHealthy(t) \/ SpawnFails(t) \/ Spawn(t) \/ Registered(t)
  PROVE  /\ JobSteps(t, {"start", "probe", "spawned"}, {"idle", "probe", "spawned"})
         /\ job'[t].at = "probe" => StartChecks(t) /\ job[t].at = "start"
              /\ gwState \notin {"running", "starting"}
                                      /\ gwState' = "starting"
         /\ job'[t].at = "spawned" => Spawn(t) /\ job[t].at = "probe" /\ job'[t].cmd = Len(procCfg')
<1>1. job \in [Callers -> Job] /\ NoJob \in Job /\ NoJob.at = "idle" /\ job[t] \in Job
  BY ChildNames DEF JobsTyped
<1>2. CASE job' = [job EXCEPT ![t] = NoJob]
  BY <1>1, <1>2 DEF JobSteps, StartChecks, FoundHealthy, SpawnFails, Spawn, Registered
<1>3. CASE StartChecks(t) /\ gwCfg.enabled /\ gwState \notin {"running", "starting"}
  <2>1. PICK j \in Job : j = [job[t] EXCEPT !.at = "probe"] /\ j.at = "probe"
    BY <1>1, JobMoves
  <2>2. job' = [job EXCEPT ![t] = j] /\ job[t].at = "start" /\ gwState' = "starting"
    BY <1>1, <1>3, <2>1 DEF StartChecks
  <2> QED
    BY <1>1, <1>3, <2>1, <2>2 DEF JobSteps
<1>4. CASE Spawn(t)
  <2>1. procCfg' = Append(procCfg, gwCfg) /\ procCfg \in Seq(GatewayConfigs)
    BY <1>4 DEF Spawn, JobsTyped
  <2>a. PICK n \in Nat : n = Len(procCfg')
    BY <2>1
  <2>2. PICK j \in Job : j = Takes(job[t], "spawned", n) /\ j.at = "spawned" /\ j.cmd = n
    BY <1>1, JobTakes DEF StopPlaces
  <2>3. job' = [job EXCEPT ![t] = j] /\ job[t].at = "probe"
    BY <1>1, <1>4, <2>a, <2>2 DEF Spawn, Takes
  <2> QED
    BY <1>1, <1>4, <2>a, <2>2, <2>3 DEF JobSteps
<1> QED
  BY <1>2, <1>3, <1>4 DEF StartChecks, FoundHealthy, SpawnFails, Registered

\* The steps of the callers themselves, and those of the processes.
CallerStep == StopCalled \/ ApplySettings \/ \E r \in ServedCores : CoreRuns(r) \/ CoreServes(r)
  \/ CoreEnded(r) \/ CoreGone(r)

\* A call is begun by who has none, and begun by name.
LEMMA CallsBegin ==
  ASSUME JobsTyped, GPSTypeOK, JobsFit, CallerStep
  PROVE  /\ UNCHANGED gwFields
         /\ \/ UNCHANGED job
            \/ \E t \in Callers : /\ job[t].at = "idle" /\ JobSteps(t, {"idle"}, {"apply", "stop"})
                 /\ ~job'[t].then
<1> USE ChildNames
<1>1. CASE StopCalled
  <2>1. job[Stopper].at = "idle" /\ Calls(Stopper, "stop", SomeConfig) /\ UNCHANGED gwFields
    BY <1>1 DEF StopCalled
  <2> QED
    BY <2>1, JobBegins DEF JobSteps
<1>2. CASE ApplySettings
  <2>1. job[Page].at = "idle" /\ Calls(Page, "apply", stored') /\ stored' \in GatewayConfigs
          /\ UNCHANGED gwFields
    BY <1>2 DEF ApplySettings
  <2>2. PICK cfg \in GatewayConfigs : cfg = stored'
    BY <2>1
  <2>3. Calls(Page, "apply", cfg)
    BY <2>1, <2>2 DEF Calls
  <2> QED
    BY <2>1, <2>3, JobBegins DEF JobSteps
<1>3. ASSUME NEW r \in ServedCores, CoreRuns(r) \/ CoreEnded(r)
      PROVE  /\ UNCHANGED gwFields
             /\ \E t \in Callers : job[t].at = "idle" /\ JobSteps(t, {"idle"}, {"apply", "stop"})
                  /\ ~job'[t].then
  <2>1. /\ job[r].at = "idle" /\ UNCHANGED gwFields /\ stored \in GatewayConfigs /\ r \in Callers
        /\ Calls(r, "apply", stored) \/ Calls(r, "stop", SomeConfig)
    BY <1>3 DEF CoreRuns, CoreEnded, CallerTo, JobsFit, GPSTypeOK
  <2> QED
    BY <2>1, JobBegins DEF JobSteps
<1>4. ASSUME NEW r \in ServedCores, CoreServes(r) \/ CoreGone(r) PROVE UNCHANGED <<job, gwFields>>
  BY <1>4 DEF CoreServes, CoreGone
<1> QED
  BY <1>1, <1>2, <1>3, <1>4 DEF CallerStep

\* The jobs keep their types, and a process that was spawned stays known.
LEMMA JobsKept ==
  ASSUME JobsTyped, GPSTypeOK, JobsFit, GPSNext
  PROVE  JobsTyped' /\ DOMAIN procCfg \subseteq DOMAIN procCfg'
<1>0. job \in [Callers -> Job] /\ procCfg \in Seq(GatewayConfigs) /\ gwCfg \in GatewayConfigs
  BY DEF JobsTyped, GPSTypeOK
<1>1. ASSUME procCfg' = procCfg, NEW t \in Callers, NEW from, NEW to, JobSteps(t, from, to),
             job'[t].at \in {"spawned", "wait"} => job'[t].cmd \in DOMAIN procCfg
      PROVE  JobsTyped' /\ DOMAIN procCfg \subseteq DOMAIN procCfg'
  BY <1>0, <1>1 DEF JobsTyped, JobSteps
<1>2. ASSUME procCfg' = procCfg, UNCHANGED job PROVE JobsTyped' /\ DOMAIN procCfg \subseteq DOMAIN procCfg'
  BY <1>0, <1>2 DEF JobsTyped
<1>3. CASE CallerStep
  <2>1. procCfg' = procCfg
    BY <1>3, CallsBegin DEF gwFields
  <2>2. ASSUME NEW t \in Callers, JobSteps(t, {"idle"}, {"apply", "stop"})
        PROVE JobsTyped' /\ DOMAIN procCfg \subseteq DOMAIN procCfg'
    BY <1>1, <2>1, <2>2 DEF JobSteps
  <2> QED
    BY <1>2, <1>3, <2>1, <2>2, CallsBegin
<1>4. ASSUME NEW t \in Callers, ReadCoreState(t) \/ UpdateConfig(t)
      PROVE  JobsTyped' /\ DOMAIN procCfg \subseteq DOMAIN procCfg'
  <2>1. procCfg' = procCfg
    BY <1>4 DEF ReadCoreState, UpdateConfig, gwFields
  <2>2. JobSteps(t, {"apply"}, {"config"}) \/ JobSteps(t, {"config"}, {"start", "stop"})
    BY <1>4, ReadMoves, UpdateMoves
  <2>3. job'[t].at \notin {"spawned", "wait"}
    BY <2>2 DEF JobSteps
  <2> QED
    BY <1>1, <2>1, <2>2, <2>3
<1>5. ASSUME NEW t \in Callers, StopLooks(t) PROVE JobsTyped' /\ DOMAIN procCfg \subseteq DOMAIN procCfg'
  <2>1. procCfg' = procCfg
    BY <1>5 DEF StopLooks
  <2>2. cmd # 0 => cmd \in DOMAIN procCfg
    BY DEF GPSTypeOK
  <2>3. CASE JobSteps(t, {"stop"}, {"start", "idle"}) \/ JobSteps(t, {"stop"}, {"forget"})
    <3>1. job'[t].at \notin {"spawned", "wait"}
      BY <2>3 DEF JobSteps
    <3> QED
      BY <1>1, <2>1, <2>3, <3>1
  <2>4. CASE JobSteps(t, {"stop"}, {"wait"}) /\ job'[t].cmd = cmd /\ cmd # 0
    BY <1>1, <2>1, <2>2, <2>4
  <2> QED
    BY <1>5, <2>3, <2>4, LooksMoves
<1>6. ASSUME NEW t \in Callers, StopForgets(t) \/ StopSees(t) \/ StopTimesOut(t)
      PROVE  JobsTyped' /\ DOMAIN procCfg \subseteq DOMAIN procCfg'
  <2>1. procCfg' = procCfg
    BY <1>6 DEF StopForgets, StopSees, StopTimesOut
  <2>2. JobSteps(t, {"forget", "wait"}, {"start", "idle"})
    BY <1>6, StoppedMoves
  <2>3. job'[t].at \notin {"spawned", "wait"}
    BY <2>2 DEF JobSteps
  <2> QED
    BY <1>1, <2>1, <2>2, <2>3
<1>7. ASSUME NEW t \in Callers, StartChecks(t) \/ FoundHealthy(t) \/ SpawnFails(t) \/ Registered(t)
      PROVE  JobsTyped' /\ DOMAIN procCfg \subseteq DOMAIN procCfg'
  <2>1. procCfg' = procCfg
    BY <1>7 DEF StartChecks, FoundHealthy, SpawnFails, Registered
  <2>2. /\ JobSteps(t, {"start", "probe", "spawned"}, {"idle", "probe", "spawned"})
        /\ job'[t].at = "spawned" => Spawn(t)
    BY <1>7, StartMoves
  <2>3. job'[t].at \notin {"spawned", "wait"}
    <3>1. Spawn(t) => procCfg' # procCfg
      BY <1>0 DEF Spawn
    <3> QED
      BY <2>1, <2>2, <3>1 DEF JobSteps
  <2> QED
    BY <1>1, <2>1, <2>2, <2>3
<1>8. ASSUME NEW t \in Callers, Spawn(t) PROVE JobsTyped' /\ DOMAIN procCfg \subseteq DOMAIN procCfg'
  <2>1. procCfg' = Append(procCfg, gwCfg)
    BY <1>8 DEF Spawn
  <2>2. procCfg' \in Seq(GatewayConfigs) /\ DOMAIN procCfg \subseteq DOMAIN procCfg'
          /\ Len(procCfg') \in DOMAIN procCfg'
    BY <1>0, <2>1
  <2>3. /\ JobSteps(t, {"start", "probe", "spawned"}, {"idle", "probe", "spawned"})
        /\ job'[t].at = "spawned" => job'[t].cmd = Len(procCfg')
    BY <1>8, StartMoves
  <2> QED
    BY <2>2, <2>3 DEF JobsTyped, JobSteps
<1>9. ASSUME NEW p \in Procs, ProcessExits(p) \/ Reap(p)
      PROVE  JobsTyped' /\ DOMAIN procCfg \subseteq DOMAIN procCfg'
  BY <1>2, <1>9 DEF ProcessExits, Reap
<1> QED
  BY <1>3, <1>4, <1>5, <1>6, <1>7, <1>8, <1>9 DEF GPSNext, CallerStep, GatewayStep

\* The type invariant.
LEMMA ChildTypes ==
  ASSUME JobsTyped, GPSTypeOK, JobsFit, GPSNext
  PROVE  GPSTypeOK'
<1>0. /\ job \in [Callers -> Job] /\ procCfg \in Seq(GatewayConfigs)
      /\ DOMAIN procCfg \subseteq DOMAIN procCfg'
      /\ job' \in [Callers -> Job]
  BY JobsKept DEF JobsTyped
<1>1. \A t \in Callers :
        job'[t].at \in {"idle", "apply", "config", "stop", "forget", "wait", "start", "probe", "spawned"}
  BY <1>0 DEF Job, StopPlaces
<1>2. /\ phase' \in [ServedCores -> {"none", "apply", "up", "stopgw", "done"}] /\ running' \in BOOLEAN
      /\ applies' \in 0..MaxApplies /\ stored' \in GatewayConfigs
  <2>1. CASE UNCHANGED <<phase, running, applies, stored>>
    BY <2>1 DEF GPSTypeOK
  <2>2. CASE CallerStep
    <3>1. CASE StopCalled
      BY <3>1 DEF StopCalled, GPSTypeOK, setVars
    <3>2. CASE ApplySettings
      <4>1. applies' \in 0..MaxApplies /\ stored' \in GatewayConfigs /\ UNCHANGED <<phase, running>>
        BY <3>2, GatewayProcessAssumption DEF ApplySettings, GPSTypeOK, callbackVars
      <4> QED
        BY <4>1 DEF GPSTypeOK
    <3>3. ASSUME NEW r \in ServedCores, CoreRuns(r) \/ CoreServes(r) \/ CoreEnded(r) \/ CoreGone(r)
          PROVE  /\ phase' \in [ServedCores -> {"none", "apply", "up", "stopgw", "done"}]
            /\ running' \in BOOLEAN
                 /\ applies' \in 0..MaxApplies /\ stored' \in GatewayConfigs
      <4>1. PICK to \in {"apply", "up", "stopgw", "done"} : phase' = [phase EXCEPT ![r] = to]
        BY <3>3 DEF CoreRuns, CoreServes, CoreEnded, CoreGone, CallerTo
      <4>2. running' \in BOOLEAN /\ UNCHANGED <<applies, stored>>
        BY <3>3 DEF CoreRuns, CoreServes, CoreEnded, CoreGone, GPSTypeOK, setVars
      <4> QED
        BY <4>1, <4>2 DEF GPSTypeOK
    <3> QED
      BY <2>2, <3>1, <3>2, <3>3 DEF CallerStep
  <2>3. ASSUME NEW t \in Callers, GatewayStep(t) PROVE UNCHANGED <<phase, running, applies, stored>>
    BY <2>3 DEF GatewayStep, ReadCoreState, UpdateConfig, StopLooks, StopForgets, StopSees,
       StopTimesOut, StartChecks,
       FoundHealthy, SpawnFails, Spawn, Registered, callbackVars, setVars
  <2>4. ASSUME NEW p \in Procs, ProcessExits(p) \/ Reap(p) PROVE UNCHANGED <<phase, running, applies, stored>>
    BY <2>4 DEF ProcessExits, Reap, callbackVars, setVars
  <2> QED
    BY <2>1, <2>2, <2>3, <2>4 DEF GPSNext, CallerStep
<1>3. /\ ownsProcess' \in BOOLEAN /\ lost' \in BOOLEAN
      /\ gwState' \in {"stopped", "starting", "running", "error"}
      /\ gwCfg' \in GatewayConfigs
  <2>1. CASE UNCHANGED <<ownsProcess, lost, gwState, gwCfg>>
    BY <2>1 DEF GPSTypeOK
  <2>2. ASSUME NEW t \in Callers, GatewayStep(t), ~UpdateConfig(t)
        PROVE /\ ownsProcess' \in BOOLEAN /\ lost' \in BOOLEAN
          /\ gwState' \in {"stopped", "starting", "running", "error"}
              /\ gwCfg' \in GatewayConfigs
    BY <2>2 DEF GatewayStep, ReadCoreState, StopLooks, StopForgets, StopSees, StopTimesOut, StartChecks,
       FoundHealthy, SpawnFails, Spawn, Registered, gwFields, GPSTypeOK
  <2>3. ASSUME NEW t \in Callers, UpdateConfig(t)
        PROVE UNCHANGED <<ownsProcess, lost, gwState>> /\ gwCfg' \in GatewayConfigs
    BY <2>3, UpdateMoves DEF UpdateConfig
  <2>4. ASSUME NEW p \in Procs, ProcessExits(p) \/ Reap(p)
        PROVE /\ ownsProcess' \in BOOLEAN /\ lost' \in BOOLEAN
          /\ gwState' \in {"stopped", "starting", "running", "error"}
              /\ gwCfg' \in GatewayConfigs
    BY <2>4 DEF ProcessExits, Reap, GPSTypeOK
  <2>5. CASE CallerStep
    BY <2>1, <2>5, CallsBegin DEF gwFields
  <2> QED
    BY <2>2, <2>3, <2>4, <2>5 DEF GPSNext, CallerStep, GPSTypeOK
<1>4. procAlive' \cup killed' \cup reaped' \subseteq DOMAIN procCfg' /\ cmd' \in {0} \cup DOMAIN procCfg'
  <2>0. procAlive \cup killed \cup reaped \subseteq DOMAIN procCfg' /\ cmd \in {0} \cup DOMAIN procCfg'
    BY <1>0 DEF GPSTypeOK
  <2>1. CASE UNCHANGED <<procAlive, killed, reaped, cmd>>
    BY <2>0, <2>1
  <2>2. ASSUME NEW t \in Callers, StopTimesOut(t)
        PROVE procAlive' \cup killed' \cup reaped' \subseteq DOMAIN procCfg'
          /\ cmd' \in {0} \cup DOMAIN procCfg'
    <3>1. job[t].cmd \in DOMAIN procCfg'
      BY <1>0, <2>2 DEF StopTimesOut, JobsTyped
    <3> QED
      BY <2>0, <2>2, <3>1 DEF StopTimesOut
  <2>3. ASSUME NEW t \in Callers, Spawn(t)
        PROVE procAlive' \cup killed' \cup reaped' \subseteq DOMAIN procCfg'
          /\ cmd' \in {0} \cup DOMAIN procCfg'
    <3>1. Len(procCfg') \in DOMAIN procCfg'
      BY <1>0, <2>3 DEF Spawn, GPSTypeOK
    <3> QED
      BY <2>0, <2>3, <3>1 DEF Spawn
  <2>4. ASSUME NEW t \in Callers, Registered(t)
        PROVE procAlive' \cup killed' \cup reaped' \subseteq DOMAIN procCfg'
          /\ cmd' \in {0} \cup DOMAIN procCfg'
    <3>1. job[t].cmd \in DOMAIN procCfg'
      BY <1>0, <2>4 DEF Registered, JobsTyped
    <3> QED
      BY <2>0, <2>4, <3>1 DEF Registered
  <2>5. ASSUME NEW p \in Procs, ProcessExits(p) \/ Reap(p)
        PROVE procAlive' \cup killed' \cup reaped' \subseteq DOMAIN procCfg'
          /\ cmd' \in {0} \cup DOMAIN procCfg'
    BY <1>0, <2>0, <2>5 DEF ProcessExits, Reap
  <2>6. CASE CallerStep
    BY <2>1, <2>6, CallsBegin DEF gwFields
  <2> QED
    BY <2>1, <2>2, <2>3, <2>4, <2>5, <2>6
    DEF GPSNext, CallerStep, GatewayStep, ReadCoreState, UpdateConfig, StopLooks, StopForgets,
        StopSees, StartChecks,
        FoundHealthy, SpawnFails, gwFields
<1> QED
  BY <1>1, <1>2, <1>3, <1>4 DEF GPSTypeOK

\* What every step of the gateway's calls does to the jobs.
LEMMA GatewayMoves ==
  ASSUME JobsTyped, GPSTypeOK, NEW t \in Callers, GatewayStep(t)
  PROVE  /\ job[t].at # "idle" /\ job' \in [Callers -> Job] /\ \A u \in Callers : u # t => job'[u] = job[u]
         /\ job[t].at \in StopPlaces /\ ~job[t].then => job'[t].at \in StopPlaces /\ ~job'[t].then
         /\ ~Spawn(t) => job'[t].at # "spawned"
         /\ job'[t].at \in {"probe", "spawned"} =>
              Spawn(t) \/ (StartChecks(t) /\ gwState \notin {"running", "starting"} /\ gwState' = "starting")
         /\ UNCHANGED <<callbackVars, setVars>>
<1>0. UNCHANGED <<callbackVars, setVars>>
  BY DEF GatewayStep, ReadCoreState, UpdateConfig, StopLooks, StopForgets, StopSees, StopTimesOut,
     StartChecks,
     FoundHealthy, SpawnFails, Spawn, Registered
<1> USE <1>0 DEF JobSteps, StopPlaces
<1>1. CASE ReadCoreState(t)
  BY <1>1, ReadMoves
<1>2. CASE UpdateConfig(t)
  BY <1>2, UpdateMoves
<1>3. CASE StopLooks(t)
  BY <1>3, LooksMoves, AfterStopIs
<1>4. CASE StopForgets(t) \/ StopSees(t) \/ StopTimesOut(t)
  BY <1>4, StoppedMoves, AfterStopIs
<1>5. CASE StartChecks(t) \/ FoundHealthy(t) \/ SpawnFails(t) \/ Spawn(t) \/ Registered(t)
  BY <1>5, StartMoves
<1> QED
  BY <1>1, <1>2, <1>3, <1>4, <1>5 DEF GatewayStep

\* Who calls has the jobs that fit.
LEMMA FitKept ==
  ASSUME JobsTyped, GPSTypeOK, JobsFit, GPSNext
  PROVE  JobsFit'
<1> USE ChildNames
<1>0. phase \in [ServedCores -> {"none", "apply", "up", "stopgw", "done"}] /\ applies \in Nat
  BY GatewayProcessAssumption DEF GPSTypeOK
<1>1. CASE StopCalled
  <2>1. Calls(Stopper, "stop", SomeConfig) /\ phase' = phase /\ applies' = applies
    BY <1>1 DEF StopCalled, setVars
  <2>2. job'[Stopper].at = "stop" /\ ~job'[Stopper].then /\ \A u \in Callers : u # Stopper => job'[u] = job[u]
    BY <2>1, JobBegins
  <2> QED
    BY <2>1, <2>2 DEF JobsFit, StopPlaces
<1>2. CASE ApplySettings
  <2>1. /\ Calls(Page, "apply", stored') /\ stored' \in GatewayConfigs /\ phase' = phase
        /\ applies' = applies + 1
    BY <1>2 DEF ApplySettings, callbackVars
  <2>2. PICK cfg \in GatewayConfigs : Calls(Page, "apply", cfg)
    BY <2>1 DEF Calls
  <2>3. \A u \in Callers : u # Page => job'[u] = job[u]
    BY <2>2, JobBegins
  <2> QED
    BY <1>0, <2>1, <2>3 DEF JobsFit
<1>3. ASSUME NEW r \in ServedCores, CoreRuns(r) \/ CoreEnded(r) PROVE JobsFit'
  <2>1. PICK to \in {"apply", "stopgw"} : phase' = [phase EXCEPT ![r] = to] /\ (to = "stopgw" => CoreEnded(r))
    BY <1>3 DEF CoreRuns, CoreEnded, CallerTo
  <2>2. applies' = applies /\ stored \in GatewayConfigs
    BY <1>3 DEF CoreRuns, CoreEnded, setVars, GPSTypeOK
  <2>3. PICK place \in {"apply", "stop"}, cfg \in GatewayConfigs :
          Calls(r, place, cfg) /\ (to = "stopgw" => place = "stop")
    BY <1>3, <2>1, <2>2 DEF CoreRuns, CoreEnded, CallerTo
  <2>4. job'[r].at = place /\ ~job'[r].then /\ \A u \in Callers : u # r => job'[u] = job[u]
    BY <2>3, JobBegins
  <2> QED
    BY <1>0, <2>1, <2>2, <2>3, <2>4 DEF JobsFit, StopPlaces
<1>4. ASSUME NEW r \in ServedCores, CoreServes(r) \/ CoreGone(r) PROVE JobsFit'
  <2>1. PICK to \in {"up", "done"} : phase' = [phase EXCEPT ![r] = to]
    BY <1>4 DEF CoreServes, CoreGone, CallerTo
  <2>2. job' = job /\ applies' = applies /\ job[r].at = "idle"
    BY <1>4 DEF CoreServes, CoreGone, setVars
  <2> QED
    BY <1>0, <2>1, <2>2 DEF JobsFit
<1>5. ASSUME NEW t \in Callers, GatewayStep(t) PROVE JobsFit'
  <2>1. phase' = phase /\ applies' = applies
    BY <1>5, GatewayMoves DEF callbackVars, setVars
  <2> QED
    BY <1>5, <2>1, GatewayMoves DEF JobsFit
<1>6. ASSUME NEW p \in Procs, ProcessExits(p) \/ Reap(p) PROVE JobsFit'
  BY <1>6 DEF ProcessExits, Reap, JobsFit, callbackVars, setVars
<1> QED
  BY <1>1, <1>2, <1>3, <1>4, <1>5, <1>6 DEF GPSNext

\* A process that was reaped is not stopped again.
LEMMA UnreapedKept ==
  ASSUME JobsTyped, GPSTypeOK, JobsFit, Unreaped, GPSNext
  PROVE  Unreaped'
<1>0. /\ 0 \notin reaped /\ reaped \subseteq DOMAIN procCfg /\ procCfg \in Seq(GatewayConfigs)
      /\ \A t \in Callers : job[t].at = "spawned" => job[t].cmd \in DOMAIN procCfg
  BY DEF GPSTypeOK, JobsTyped
<1>1. CASE CallerStep
  BY <1>1, CallsBegin DEF Unreaped, gwFields, JobSteps
<1>2. ASSUME NEW t \in Callers, GatewayStep(t), ~Spawn(t) PROVE Unreaped'
  <2>1. reaped' = reaped /\ (cmd' = cmd \/ (job[t].at = "spawned" /\ cmd' = job[t].cmd))
    BY <1>2 DEF GatewayStep, ReadCoreState, UpdateConfig, StopLooks, StopForgets, StopSees,
       StopTimesOut, StartChecks,
       FoundHealthy, SpawnFails, Registered, gwFields
  <2> QED
    BY <1>2, <2>1, GatewayMoves DEF Unreaped
<1>3. ASSUME NEW t \in Callers, Spawn(t) PROVE Unreaped'
  <2>1. reaped' = reaped /\ cmd' = cmd /\ procCfg' = Append(procCfg, gwCfg)
    BY <1>3 DEF Spawn
  <2>2. Len(procCfg') \notin reaped
    BY <1>0, <2>1
  <2>3. /\ \A u \in Callers : u # t => job'[u] = job[u]
        /\ job'[t].at = "spawned" => job'[t].cmd = Len(procCfg')
    BY <1>3, StartMoves DEF JobSteps
  <2> QED
    BY <2>1, <2>2, <2>3 DEF Unreaped
<1>4. ASSUME NEW p \in Procs, ProcessExits(p) PROVE Unreaped'
  BY <1>4 DEF ProcessExits, Unreaped
<1>5. ASSUME NEW p \in Procs, Reap(p) PROVE Unreaped'
  <2>1. p # 0
    BY <1>0, <1>5 DEF Reap
  <2> QED
    BY <1>0, <1>5, <2>1 DEF Reap, Unreaped
<1> QED
  BY <1>1, <1>2, <1>3, <1>4, <1>5 DEF GPSNext, CallerStep, GatewayStep

\* No process that lives is forgotten.
LEMMA OrphansNone ==
  ASSUME JobsTyped, GPSTypeOK, JobsFit, NoOrphan, GPSNext
  PROVE  NoOrphan'
<1>1. CASE CallerStep
  BY <1>1, CallsBegin DEF NoOrphan, gwFields, JobSteps
<1>2. ASSUME NEW t \in Callers, GatewayStep(t), ~Spawn(t), ~Registered(t) PROVE NoOrphan'
  <2>a. job[t].at # "spawned"
    BY <1>2 DEF GatewayStep, ReadCoreState, UpdateConfig, StopLooks, StopForgets, StopSees,
       StopTimesOut, StartChecks,
       FoundHealthy, SpawnFails
  <2>b. procAlive' = procAlive /\ cmd' = cmd /\ killed \subseteq killed' /\ (lost => lost')
    <3>1. CASE ReadCoreState(t) \/ UpdateConfig(t) \/ StopLooks(t) \/ StartChecks(t) \/ SpawnFails(t)
      BY <3>1 DEF ReadCoreState, UpdateConfig, StopLooks, StartChecks, SpawnFails, gwFields
    <3>2. CASE StopForgets(t)
      BY <3>2 DEF StopForgets
    <3>3. CASE StopSees(t)
      BY <3>3 DEF StopSees
    <3>4. CASE StopTimesOut(t)
      BY <3>4 DEF StopTimesOut
    <3>5. CASE FoundHealthy(t)
      BY <3>5 DEF FoundHealthy
    <3> QED
      BY <1>2, <3>1, <3>2, <3>3, <3>4, <3>5 DEF GatewayStep
  <2>1. /\ procAlive' = procAlive /\ cmd' = cmd /\ killed \subseteq killed' /\ (lost => lost')
        /\ job[t].at # "spawned"
    BY <2>a, <2>b
  <2> QED
    BY <1>2, <2>1, GatewayMoves DEF NoOrphan
<1>3. ASSUME NEW t \in Callers, Spawn(t) PROVE NoOrphan'
  <2>1. /\ procAlive' = procAlive \cup {Len(procCfg')} /\ UNCHANGED <<cmd, killed, lost>>
        /\ job[t].at # "spawned"
    BY <1>3 DEF Spawn
  <2>2. job \in [Callers -> Job] /\ job[t] \in Job
    BY DEF JobsTyped
  <2>3. job'[t].at = "spawned" /\ job'[t].cmd = Len(procCfg') /\ \A u \in Callers : u # t => job'[u] = job[u]
    BY <1>3, <2>2 DEF Spawn, Job
  <2> QED
    BY <2>1, <2>3 DEF NoOrphan
<1>4. ASSUME NEW t \in Callers, Registered(t) PROVE NoOrphan'
  <2>1. /\ procAlive' = procAlive /\ killed' = killed /\ cmd' = job[t].cmd /\ (~lost' => ~lost /\ cmd = 0)
    BY <1>4 DEF Registered
  <2>2. \A p \in procAlive : p # 0
    BY DEF GPSTypeOK, JobsTyped
  <2>3. \A u \in Callers : u # t => job'[u] = job[u]
    BY <1>4, StartMoves DEF JobSteps
  <2> QED
    BY <2>1, <2>2, <2>3 DEF NoOrphan
<1>5. ASSUME NEW p \in Procs, ProcessExits(p) PROVE NoOrphan'
  BY <1>5 DEF ProcessExits, NoOrphan
<1>6. ASSUME NEW p \in Procs, Reap(p) PROVE NoOrphan'
  BY <1>6 DEF Reap, NoOrphan
<1> QED
  BY <1>1, <1>2, <1>3, <1>4, <1>5, <1>6 DEF GPSNext, CallerStep, GatewayStep

\* As long as nothing is lost, it is the present process that is reaped.
LEMMA ReapIsCmd ==
  ASSUME GPSTypeOK, NEW p \in Procs, Reap(p), ~lost'
  PROVE  cmd = p /\ p # 0 /\ cmd' = 0 /\ job' = job
<1>1. lost' = (lost \/ cmd # p) /\ cmd' = 0 /\ job' = job
  BY DEF Reap
<1>2. cmd = p
  BY <1>1
<1>3. p # 0
  BY GatewayProcessAssumption DEF Procs
<1> QED
  BY <1>1, <1>2, <1>3

\* The values that a start goes by stay as they are.
SameGateway == UNCHANGED <<gwState, ownsProcess, cmd>>

\* Starts do not overlap unless a Stop came between.
LEMMA OneStartKept ==
  ASSUME JobsTyped, GPSTypeOK, JobsFit, OneStart, GPSNext, ~lost'
  PROVE  OneStart'
<1>1. CASE CallerStep
  BY <1>1, CallsBegin DEF OneStart, InStart, gwFields, JobSteps
<1>2. ASSUME NEW t \in Callers, GatewayStep(t), SameGateway, ~Spawn(t), ~StartChecks(t) PROVE OneStart'
  BY <1>2, GatewayMoves DEF OneStart, InStart, SameGateway
<1>3. ASSUME NEW t \in Callers, StopForgets(t) PROVE OneStart'
  <2>1. cmd = 0 /\ cmd' = cmd /\ \A u \in Callers : ~InStart(u)
    BY <1>3 DEF StopForgets
  <2>2. \A u \in Callers : u # t => job'[u] = job[u]
    BY <1>3, StoppedMoves DEF JobSteps
  <2>3. job'[t].at \in {"start", "idle"}
    BY <1>3, StoppedMoves DEF JobSteps
  <2> QED
    BY <2>1, <2>2, <2>3 DEF OneStart, InStart
<1>4. ASSUME NEW t \in Callers, StartChecks(t) PROVE OneStart'
  <2>1. UNCHANGED <<cmd, ownsProcess>> /\ \A u \in Callers : u # t => job'[u] = job[u]
    BY <1>4, StartMoves DEF StartChecks, JobSteps
  <2>2. CASE gwCfg.enabled /\ gwState \notin {"running", "starting"}
    <3>1. gwState' = "starting" /\ cmd = 0 /\ \A u \in Callers : ~InStart(u)
      BY <1>4, <2>2 DEF StartChecks, OneStart
    <3> QED
      BY <2>1, <3>1 DEF OneStart, InStart
  <2>3. CASE ~(gwCfg.enabled /\ gwState \notin {"running", "starting"})
    <3>1. job' = [job EXCEPT ![t] = NoJob] /\ gwState' = gwState /\ job \in [Callers -> Job]
      BY <1>4, <2>3 DEF StartChecks, JobsTyped
    <3>2. job'[t].at = "idle"
      BY <3>1, ChildNames
    <3> QED
      BY <2>1, <3>1, <3>2 DEF OneStart, InStart
  <2> QED
    BY <2>2, <2>3
<1>5. ASSUME NEW t \in Callers, FoundHealthy(t) \/ SpawnFails(t) PROVE OneStart'
  <2>1. InStart(t) /\ cmd' = cmd /\ job' = [job EXCEPT ![t] = NoJob] /\ job \in [Callers -> Job]
    BY <1>5 DEF FoundHealthy, SpawnFails, InStart, JobsTyped
  <2>2. cmd = 0 /\ \A u \in Callers : u # t => ~InStart(u)
    BY <2>1 DEF OneStart
  <2> QED
    BY <2>1, <2>2, ChildNames DEF OneStart, InStart
<1>6. ASSUME NEW t \in Callers, Spawn(t) PROVE OneStart'
  <2>1. InStart(t) /\ SameGateway /\ \A u \in Callers : u # t => job'[u] = job[u]
    BY <1>6, StartMoves DEF Spawn, InStart, SameGateway, JobSteps
  <2> QED
    BY <2>1 DEF OneStart, InStart, SameGateway
<1>7. ASSUME NEW t \in Callers, Registered(t) PROVE OneStart'
  <2>1. InStart(t) /\ gwState' = "running" /\ ownsProcess' /\ job' = [job EXCEPT ![t] = NoJob]
          /\ job \in [Callers -> Job]
    BY <1>7 DEF Registered, InStart, JobsTyped
  <2>2. \A u \in Callers : u # t => ~InStart(u)
    BY <2>1 DEF OneStart
  <2> QED
    BY <2>1, <2>2, ChildNames DEF OneStart, InStart
<1>8. ASSUME NEW p \in Procs, ProcessExits(p) PROVE OneStart'
  BY <1>8 DEF ProcessExits, OneStart, InStart
<1>9. ASSUME NEW p \in Procs, Reap(p) PROVE OneStart'
  <2>1. cmd = p /\ p # 0 /\ cmd' = 0 /\ job' = job
    BY <1>9, ReapIsCmd
  <2>2. \A u \in Callers : ~InStart(u)
    BY <2>1 DEF OneStart
  <2> QED
    BY <2>1, <2>2 DEF OneStart, InStart
<1>10. ASSUME NEW t \in Callers,
             ReadCoreState(t) \/ UpdateConfig(t) \/ StopLooks(t) \/ StopSees(t) \/ StopTimesOut(t)
       PROVE SameGateway /\ ~Spawn(t) /\ ~StartChecks(t)
  <2>1. SameGateway
    BY <1>10 DEF ReadCoreState, UpdateConfig, StopLooks, StopSees, StopTimesOut, SameGateway, gwFields
  <2>2. job[t].at \notin {"probe", "start"}
    BY <1>10 DEF ReadCoreState, UpdateConfig, StopLooks, StopSees, StopTimesOut
  <2> QED
    BY <2>1, <2>2 DEF Spawn, StartChecks
<1> QED
  BY <1>1, <1>2, <1>3, <1>4, <1>5, <1>6, <1>7, <1>8, <1>9, <1>10 DEF GPSNext, CallerStep, GatewayStep

\* A process with an old configuration is about to be stopped, or was.
LEMMA ConfigKept ==
  ASSUME JobsTyped, GPSTypeOK, JobsFit, Unreaped, OneStart, ConfigCovered, GPSNext, ~lost'
  PROVE  ConfigCovered'
<1>0. /\ procCfg \in Seq(GatewayConfigs) /\ cmd \in {0} \cup DOMAIN procCfg
      /\ \A t \in Callers : job[t].at = "spawned" => job[t].cmd \in DOMAIN procCfg
  BY DEF GPSTypeOK, JobsTyped
<1>1. CASE CallerStep
  BY <1>1, CallsBegin DEF ConfigCovered, Stops, gwFields, JobSteps
\* A step that changes no process leaves who is about to stop it.
<1>2. ASSUME NEW t \in Callers, GatewayStep(t), UNCHANGED <<procCfg, gwCfg, killed, cmd>>, ~Spawn(t),
             cmd \notin killed \cup {0} /\ Stops(t, cmd) => Stops(t, cmd)',
             (\E u \in Callers : job[u].at = "spawned") /\ job[t].at \in {"stop", "forget"}
               => job'[t].at \in {"stop", "forget"}
      PROVE  ConfigCovered'
  <2>1. /\ \A u \in Callers : u # t => job'[u] = job[u]
        /\ job'[t].at # "spawned"
    BY <1>2, GatewayMoves
  <2>2. \A u \in Callers : cmd \notin killed \cup {0} /\ Stops(u, cmd) => Stops(u, cmd)'
    BY <1>2, <2>1 DEF Stops
  <2>3. cmd' \notin killed' \cup {0} => procCfg'[cmd'] = gwCfg' \/ \E u \in Callers : Stops(u, cmd)'
    BY <1>2, <2>2 DEF ConfigCovered
  <2>4. ASSUME NEW w \in Callers, job'[w].at = "spawned"
        PROVE procCfg'[job'[w].cmd] = gwCfg' \/ \E u \in Callers : job'[u].at \in {"stop", "forget"}
    <3>1. job'[w] = job[w] /\ job[w].at = "spawned"
      BY <2>1, <2>4
    <3>2. CASE procCfg[job[w].cmd] = gwCfg
      BY <1>2, <3>1, <3>2
    <3>3. CASE procCfg[job[w].cmd] # gwCfg
      <4>1. PICK u \in Callers : job[u].at \in {"stop", "forget"}
        BY <3>1, <3>3 DEF ConfigCovered
      <4>2. job'[u].at \in {"stop", "forget"}
        BY <1>2, <2>1, <3>1, <4>1
      <4> QED
        BY <4>2
    <3> QED
      BY <3>2, <3>3
  <2> QED
    BY <2>3, <2>4 DEF ConfigCovered
<1>3. ASSUME NEW t \in Callers, ReadCoreState(t) PROVE ConfigCovered'
  <2>1. job[t].at = "apply" /\ UNCHANGED <<procCfg, gwCfg, killed, cmd>>
    BY <1>3 DEF ReadCoreState, gwFields
  <2>2. ~Spawn(t) /\ ~Stops(t, cmd)
    BY <2>1 DEF Spawn, Stops
  <2> QED
    BY <1>2, <1>3, <2>1, <2>2 DEF GatewayStep
<1>4. ASSUME NEW t \in Callers, UpdateConfig(t) PROVE ConfigCovered'
  <2>1. job[t].at = "config" /\ UNCHANGED <<procCfg, killed, cmd>> /\ ~Spawn(t) /\ GatewayStep(t)
    BY <1>4 DEF UpdateConfig, Spawn, GatewayStep
  <2>2. job'[t].at \in {"start", "stop"} /\ (job'[t].at = "start" => gwCfg' = gwCfg)
    BY <1>4, UpdateMoves DEF JobSteps
  <2>3. CASE job'[t].at = "start"
    <3>1. gwCfg' = gwCfg /\ ~Stops(t, cmd)
      BY <2>1, <2>2, <2>3 DEF Stops
    <3> QED
      BY <1>2, <2>1, <3>1
  <2>4. CASE job'[t].at = "stop"
    BY <2>4 DEF ConfigCovered, Stops
  <2> QED
    BY <2>2, <2>3, <2>4
<1>5. ASSUME NEW t \in Callers, StopLooks(t) PROVE ConfigCovered'
  <2>1. job[t].at = "stop" /\ UNCHANGED <<procCfg, gwCfg, killed, cmd>> /\ ~Spawn(t) /\ GatewayStep(t)
    BY <1>5 DEF StopLooks, Spawn, GatewayStep
  <2>2. CASE gwState \notin {"running", "starting"}
    <3>1. cmd = 0 /\ \A u \in Callers : job[u].at # "spawned"
      BY <2>2 DEF OneStart, InStart
    <3> QED
      BY <1>2, <2>1, <3>1
  <2>3. CASE cmd # 0 /\ job'[t].at = "wait" /\ job'[t].cmd = cmd
    <3>1. \A u \in Callers : job[u].at # "spawned"
      BY <2>3 DEF OneStart, InStart
    <3>2. Stops(t, cmd)'
      BY <2>1, <2>3 DEF Stops
    <3> QED
      BY <1>2, <2>1, <3>1, <3>2
  <2>4. CASE job'[t].at = "forget"
    <3>1. Stops(t, cmd)'
      BY <2>1, <2>4 DEF Stops
    <3> QED
      BY <1>2, <2>1, <2>4, <3>1
  <2> QED
    BY <1>5, <2>2, <2>3, <2>4, LooksMoves DEF JobSteps
<1>6. ASSUME NEW t \in Callers, StopForgets(t) PROVE ConfigCovered'
  <2>1. cmd' = 0 /\ \A u \in Callers : ~InStart(u)
    BY <1>6 DEF StopForgets
  <2>2. \A u \in Callers : job'[u].at # "spawned"
    <3>1. job'[t].at # "spawned" /\ \A u \in Callers : u # t => job'[u] = job[u]
      BY <1>6, StoppedMoves DEF JobSteps
    <3> QED
      BY <2>1, <3>1 DEF InStart
  <2> QED
    BY <2>1, <2>2 DEF ConfigCovered
<1>7. ASSUME NEW t \in Callers, StopSees(t) PROVE ConfigCovered'
  <2>1. /\ job[t].at = "wait" /\ job[t].cmd \in reaped /\ UNCHANGED <<procCfg, gwCfg, killed, cmd>>
        /\ ~Spawn(t) /\ GatewayStep(t)
    BY <1>7 DEF StopSees, Spawn, GatewayStep
  <2>2. ~Stops(t, cmd)
    BY <2>1 DEF Stops, Unreaped
  <2> QED
    BY <1>2, <2>1, <2>2
<1>8. ASSUME NEW t \in Callers, StopTimesOut(t) PROVE ConfigCovered'
  <2>1. /\ job[t].at = "wait" /\ killed' = killed \cup {job[t].cmd} /\ UNCHANGED <<procCfg, gwCfg, cmd>>
    BY <1>8 DEF StopTimesOut
  <2>2. job'[t].at \notin {"spawned", "stop", "forget", "wait"} /\ \A u \in Callers : u # t
          => job'[u] = job[u]
    BY <1>8, StoppedMoves DEF JobSteps
  <2>3. cmd' \notin killed' \cup {0} => procCfg'[cmd'] = gwCfg' \/ \E u \in Callers : Stops(u, cmd)'
    <3> SUFFICES ASSUME cmd \notin killed \cup {0}, cmd # job[t].cmd, procCfg[cmd] # gwCfg
                 PROVE \E u \in Callers : Stops(u, cmd)'
      BY <2>1
    <3>1. PICK u \in Callers : Stops(u, cmd)
      BY DEF ConfigCovered
    <3>2. u # t
      BY <2>1, <3>1 DEF Stops
    <3> QED
      BY <2>1, <2>2, <3>1, <3>2 DEF Stops
  <2>4. \A w \in Callers : job'[w].at = "spawned" =>
          procCfg'[job'[w].cmd] = gwCfg' \/ \E u \in Callers : job'[u].at \in {"stop", "forget"}
    BY <2>1, <2>2 DEF ConfigCovered
  <2> QED
    BY <2>3, <2>4 DEF ConfigCovered
<1>9. ASSUME NEW t \in Callers, StartChecks(t) \/ FoundHealthy(t) \/ SpawnFails(t) PROVE ConfigCovered'
  <2>1. job[t].at \in {"start", "probe"} /\ UNCHANGED <<procCfg, gwCfg, killed, cmd>> /\ GatewayStep(t)
    BY <1>9 DEF StartChecks, FoundHealthy, SpawnFails, GatewayStep
  <2>2. ~Spawn(t)
    <3>1. Spawn(t) => procCfg' # procCfg
      BY <1>0 DEF Spawn
    <3> QED
      BY <2>1, <3>1
  <2>3. ~Stops(t, cmd)
    BY <2>1 DEF Stops
  <2> QED
    BY <1>2, <2>1, <2>2, <2>3
<1>10. ASSUME NEW t \in Callers, Spawn(t) PROVE ConfigCovered'
  <2>1. /\ job[t].at = "probe" /\ procCfg' = Append(procCfg, gwCfg) /\ UNCHANGED <<gwCfg, killed, cmd>>
    BY <1>10 DEF Spawn
  <2>2. cmd = 0
    BY <2>1 DEF OneStart, InStart
  <2>3. /\ \A u \in Callers : u # t => job'[u] = job[u]
        /\ job'[t].at = "spawned" => job'[t].cmd = Len(procCfg')
    BY <1>10, StartMoves DEF JobSteps
  <2>4. procCfg'[Len(procCfg')] = gwCfg
    BY <1>0, <2>1
  <2>5. \A u \in Callers : u # t => job[u].at # "spawned"
    BY <2>1 DEF OneStart, InStart
  <2> QED
    BY <2>1, <2>2, <2>3, <2>4, <2>5 DEF ConfigCovered
<1>11. ASSUME NEW t \in Callers, Registered(t) PROVE ConfigCovered'
  <2>1. /\ job[t].at = "spawned" /\ cmd' = job[t].cmd /\ UNCHANGED <<procCfg, gwCfg, killed>>
        /\ job' = [job EXCEPT ![t] = NoJob] /\ job \in [Callers -> Job]
    BY <1>11 DEF Registered, JobsTyped
  <2>2. \A u \in Callers : u # t => job'[u] = job[u] /\ job[u].at # "spawned"
    BY <2>1 DEF OneStart, InStart
  <2>3. job'[t].at = "idle"
    BY <2>1, ChildNames
  <2>4. procCfg[job[t].cmd] = gwCfg \/ \E u \in Callers : job[u].at \in {"stop", "forget"}
    BY <2>1 DEF ConfigCovered
  <2>5. procCfg[job[t].cmd] = gwCfg \/ \E u \in Callers : Stops(u, cmd)'
    BY <2>1, <2>2, <2>4 DEF Stops
  <2> QED
    BY <2>1, <2>2, <2>3, <2>5 DEF ConfigCovered
<1>12. ASSUME NEW p \in Procs, ProcessExits(p) PROVE ConfigCovered'
  BY <1>12 DEF ProcessExits, ConfigCovered, Stops
<1>13. ASSUME NEW p \in Procs, Reap(p) PROVE ConfigCovered'
  <2>1. cmd' = 0 /\ cmd = p /\ p # 0 /\ UNCHANGED <<job, procCfg, gwCfg>>
    BY <1>13, ReapIsCmd DEF Reap
  <2>2. \A u \in Callers : job[u].at # "spawned"
    BY <2>1 DEF OneStart, InStart
  <2> QED
    BY <2>1, <2>2 DEF ConfigCovered
<1> QED
  BY <1>1, <1>3, <1>4, <1>5, <1>6, <1>7, <1>8, <1>9, <1>10, <1>11, <1>12, <1>13
     DEF GPSNext, CallerStep, GatewayStep

\* A process that runs has a core, or one that is about to stop it.
LEMMA CoreKept ==
  ASSUME JobsTyped, GPSTypeOK, JobsFit, Unreaped, OneStart, CoreCovered, GPSNext, ~lost'
  PROVE  CoreCovered'
<1> USE ChildNames
<1>0. phase \in [ServedCores -> {"none", "apply", "up", "stopgw", "done"}]
      /\ applies \in Nat
  BY GatewayProcessAssumption DEF GPSTypeOK
\* A step that leaves the phases and the present process: who is about to stop it still is.
<1>1. ASSUME NEW t \in Callers, GatewayStep(t), cmd' = cmd, killed \subseteq killed',
             cmd \notin killed' \cup {0} /\ Stops(t, cmd) => Stops(t, cmd)'
      PROVE  CoreCovered'
  <2>1. /\ \A u \in Callers : u # t => job'[u] = job[u]
        /\ phase' = phase /\ applies' = applies
    BY <1>1, GatewayMoves DEF callbackVars, setVars
  <2> SUFFICES ASSUME applies = 0, cmd \notin killed' \cup {0}
               PROVE \E r \in ServedCores : phase[r] \in {"apply", "up"}
                 \/ (phase[r] = "stopgw" /\ Stops(r, cmd)')
    BY <1>1, <2>1 DEF CoreCovered
  <2>2. PICK r \in ServedCores : phase[r] \in {"apply", "up"} \/ (phase[r] = "stopgw" /\ Stops(r, cmd))
    BY <1>1 DEF CoreCovered
  <2>3. Stops(r, cmd) => Stops(r, cmd)'
    BY <1>1, <2>1 DEF Stops
  <2> QED
    BY <2>2, <2>3
<1>2. CASE StopCalled
  <2>1. Calls(Stopper, "stop", SomeConfig) /\ UNCHANGED <<phase, applies, cmd, killed>>
    BY <1>2 DEF StopCalled, setVars, gwFields
  <2>2. \A u \in Callers : u # Stopper => job'[u] = job[u]
    BY <2>1, JobBegins
  <2>3. \A r \in ServedCores : job'[r] = job[r]
    BY <2>2
  <2> QED
    BY <2>1, <2>3 DEF CoreCovered, Stops
<1>3. CASE ApplySettings
  <2>1. applies' # 0
    BY <1>0, <1>3 DEF ApplySettings
  <2> QED
    BY <2>1 DEF CoreCovered
<1>4. ASSUME NEW r \in ServedCores, CoreRuns(r) \/ CoreServes(r) \/ CoreEnded(r) \/ CoreGone(r)
      PROVE CoreCovered'
  <2>1. UNCHANGED <<applies, cmd, killed>> /\ stored \in GatewayConfigs
    BY <1>4 DEF CoreRuns, CoreServes, CoreEnded, CoreGone, setVars, gwFields, GPSTypeOK
  <2>2. /\ \A q \in ServedCores : q # r => phase'[q] = phase[q]
        /\ phase'[r] \in {"apply", "up"} \/ (phase'[r] = "stopgw" /\ Calls(r, "stop", SomeConfig))
           \/ (phase[r] = "stopgw" /\ job[r].at = "idle")
    BY <1>0, <1>4 DEF CoreRuns, CoreServes, CoreEnded, CoreGone, CallerTo
  <2>3. \A u \in Callers : u # r => job'[u] = job[u]
    <3>1. UNCHANGED job \/ Calls(r, "apply", stored) \/ Calls(r, "stop", SomeConfig)
      BY <1>4 DEF CoreRuns, CoreServes, CoreEnded, CoreGone
    <3> QED
      BY <2>1, <3>1, JobBegins
  <2>4. Calls(r, "stop", SomeConfig) => Stops(r, cmd)'
    BY JobBegins DEF Stops
  <2>5. CASE phase'[r] \in {"apply", "up"} \/ (phase'[r] = "stopgw" /\ Stops(r, cmd)')
    BY <2>5 DEF CoreCovered
  <2>6. CASE phase[r] = "stopgw" /\ job[r].at = "idle"
    <3>1. ~Stops(r, cmd)
      BY <2>6 DEF Stops
    <3> QED
      BY <2>1, <2>2, <2>3, <2>6, <3>1 DEF CoreCovered, Stops
  <2> QED
    BY <2>2, <2>4, <2>5, <2>6
<1>5. ASSUME NEW t \in Callers, ReadCoreState(t) \/ UpdateConfig(t) \/ StartChecks(t)
        \/ FoundHealthy(t) \/ SpawnFails(t)
                                \/ Spawn(t)
      PROVE CoreCovered'
  <2>1. UNCHANGED <<cmd, killed>> /\ GatewayStep(t)
    BY <1>5 DEF ReadCoreState, UpdateConfig, StartChecks, FoundHealthy, SpawnFails, Spawn, gwFields,
       GatewayStep
  <2>2. job[t].at \in {"apply", "config", "start", "probe"}
    BY <1>5 DEF ReadCoreState, UpdateConfig, StartChecks, FoundHealthy, SpawnFails, Spawn
  <2>3. ~Stops(t, cmd)
    BY <2>2 DEF Stops
  <2> QED
    BY <1>1, <2>1, <2>3
<1>6. ASSUME NEW t \in Callers, StopLooks(t) PROVE CoreCovered'
  <2>1. UNCHANGED <<cmd, killed>> /\ GatewayStep(t)
    BY <1>6 DEF StopLooks, GatewayStep
  <2>2. CASE gwState \notin {"running", "starting"}
    <3>1. cmd = 0
      BY <2>2 DEF OneStart
    <3> QED
      BY <1>1, <2>1, <3>1
  <2>3. CASE job'[t].at = "forget" \/ (job'[t].at = "wait" /\ job'[t].cmd = cmd)
    <3>1. Stops(t, cmd)'
      BY <2>1, <2>3 DEF Stops
    <3> QED
      BY <1>1, <2>1, <3>1
  <2> QED
    BY <1>6, <2>2, <2>3, LooksMoves DEF JobSteps
<1>7. ASSUME NEW t \in Callers, StopForgets(t) PROVE CoreCovered'
  <2>1. cmd' = 0
    BY <1>7 DEF StopForgets
  <2> QED
    BY <2>1 DEF CoreCovered
<1>8. ASSUME NEW t \in Callers, StopSees(t) \/ StopTimesOut(t) PROVE CoreCovered'
  <2>1. /\ job[t].at = "wait" /\ cmd' = cmd /\ GatewayStep(t)
        /\ (job[t].cmd \in reaped /\ killed' = killed) \/ killed' = killed \cup {job[t].cmd}
    BY <1>8 DEF StopSees, StopTimesOut, GatewayStep
  <2>2. Stops(t, cmd) => job[t].cmd = cmd
    BY <2>1 DEF Stops
  <2>3. cmd \notin killed' \cup {0} => ~Stops(t, cmd)
    BY <2>1, <2>2 DEF Unreaped
  <2>4. killed \subseteq killed'
    BY <2>1
  <2> QED
    BY <1>1, <2>1, <2>3, <2>4
<1>9. ASSUME NEW t \in Callers, Registered(t) PROVE CoreCovered'
  <2>1. job[t].at = "spawned" /\ phase' = phase /\ applies' = applies
    BY <1>9 DEF Registered, callbackVars, setVars
  <2>2. applies = 0 => t \in ServedCores
    BY <2>1 DEF JobsFit, StopPlaces, Callers
  <2>3. t \in ServedCores => phase[t] = "apply"
    BY <1>0, <2>1 DEF JobsFit, StopPlaces
  <2> QED
    BY <2>1, <2>2, <2>3 DEF CoreCovered
<1>10. ASSUME NEW p \in Procs, ProcessExits(p) PROVE CoreCovered'
  BY <1>10 DEF ProcessExits, CoreCovered, Stops, callbackVars, setVars
<1>11. ASSUME NEW p \in Procs, Reap(p) PROVE CoreCovered'
  BY <1>11 DEF Reap, CoreCovered
<1> QED
  BY <1>2, <1>3, <1>4, <1>5, <1>6, <1>7, <1>8, <1>9, <1>10, <1>11 DEF GPSNext, GatewayStep

\* Every step of the gateway process.
LEMMA ChildStep == ChildStrong /\ [GPSNext]_gpsVars => ChildStrong'
<1> SUFFICES ASSUME ChildStrong, [GPSNext]_gpsVars PROVE ChildStrong'
  OBVIOUS
<1>0. GPSTypeOK /\ JobsTyped /\ JobsFit /\ Unreaped /\ NoOrphan
        /\ (~lost => OneStart /\ ConfigCovered /\ CoreCovered)
  BY DEF ChildStrong
<1>1. CASE UNCHANGED gpsVars
  <2>1. GPSTypeOK' /\ JobsTyped' /\ JobsFit' /\ Unreaped' /\ NoOrphan'
    BY <1>0, <1>1 DEF gpsVars, callbackVars, setVars, GPSTypeOK, JobsTyped, JobsFit, Unreaped, NoOrphan
  <2>2. lost' = lost /\ (OneStart => OneStart') /\ (ConfigCovered => ConfigCovered')
          /\ (CoreCovered => CoreCovered')
    BY <1>1 DEF gpsVars, callbackVars, setVars, OneStart, InStart, ConfigCovered, CoreCovered, Stops
  <2> QED
    BY <1>0, <2>1, <2>2 DEF ChildStrong
<1>2. CASE GPSNext
  <2>1. lost => lost'
    <3>1. CASE CallerStep
      BY <1>0, <3>1, CallsBegin DEF gwFields
    <3>2. CASE ~CallerStep
      BY <1>2, <3>2
      DEF GPSNext, CallerStep, GatewayStep, ReadCoreState, UpdateConfig, StopLooks, StopForgets,
          StopSees, StopTimesOut,
          StartChecks, FoundHealthy, SpawnFails, Spawn, Registered, ProcessExits, Reap, gwFields
    <3> QED
      BY <3>1, <3>2
  <2> QED
    BY <1>0, <1>2, <2>1, JobsKept, ChildTypes, FitKept, UnreapedKept, OrphansNone, OneStartKept,
       ConfigKept, CoreKept
       DEF ChildStrong
<1> QED
  BY <1>1, <1>2

--------------------------------------------------------------------------------
(* The core of the application.                                            *)

CoreStages == Serving \cup {"none", "tell", "stopgw", "done"}

DeskTyped == DMTypeOK /\ stage \in [Cores -> CoreStages] /\ ctxOf \in [Cores -> 0..MaxCores]

\* Cores are started in their order; what has a number was started, and none after the
\* present one.
StartedInOrder ==
  /\ \A q, r \in Cores : q < r /\ stage[q] = "none" => stage[r] = "none"
  /\ \A r \in {coreCtx, controlPlane, watchersCancel} \cup cancelled : r # 0 => stage[r] # "none"
  /\ \A r \in Cores : stopping = <<r>> => stage[r] # "none"
  /\ coreCtx # 0 => \A r \in Cores : r > coreCtx => stage[r] = "none"

\* Without an overlap the core that is served is the present one, and how far it got goes
\* with the state.
ServedAlone ==
  /\ coreState \in {"starting", "running", "stopping"} => coreCtx # 0 /\ stage[coreCtx] \in Serving
  /\ \A r \in Cores : stage[r] \in Serving =>
       /\ coreCtx = r /\ coreState \in {"starting", "running", "stopping"}
       /\ coreState = "starting" <=> stage[r] \in {"begin", "init", "ready"}
            \/ (stage[r] = "served" /\ controlPlane # r)
       /\ stage[r] # "begin" => ctxOf[r] = r
       /\ stage[r] \in {"ready", "watch", "gateway", "up"} => controlPlane = r /\ application = r
       /\ stage[r] \in {"begin", "init"} => controlPlane # r

\* The subscription of the window is to a core that nobody cancelled, and the core that
\* runs has one.
SubscribedToLive ==
  /\ coreState \in {"starting", "running"} => coreCtx \notin cancelled /\ stopping # <<coreCtx>>
  /\ coreState = "stopping" => watchersCancel = 0 /\ stage[coreCtx] # "watch"
  /\ watchersCancel \notin cancelled
  /\ coreState = "running" /\ stage[coreCtx] \in {"gateway", "up"} => watchersCancel # 0

DeskStrong ==
  /\ DeskTyped /\ StartedInOrder /\ WindowIsTold
  /\ ~overlapped => ServedAlone
  /\ ~overlapped /\ ~crossed /\ ~shut => SubscribedToLive

\* The first state.
LEMMA DeskBegins == DMInit => DeskStrong
<1> SUFFICES ASSUME DMInit PROVE DeskStrong
  OBVIOUS
<1> USE DesktopAssumption DEF DMInit
<1>1. DeskTyped
  <2>1. 0 \in 0..MaxCores /\ calls \in 0..MaxCalls
    OBVIOUS
  <2> QED
    BY <2>1 DEF DeskTyped, DMTypeOK, CoreStages
<1>2. StartedInOrder /\ WindowIsTold /\ ServedAlone /\ SubscribedToLive
  BY DEF StartedInOrder, WindowIsTold, ServedAlone, SubscribedToLive, Serving, Cores
<1> QED
  BY <1>1, <1>2 DEF DeskStrong

\* The invariant says what DesktopInv asks.
LEMMA DeskHolds == DeskStrong => DesktopInv
<1> SUFFICES ASSUME DeskStrong PROVE DesktopInv
  OBVIOUS
<1> USE DEF DeskStrong
<1>0. DMTypeOK /\ WindowIsTold /\ coreCtx \in 0..MaxCores /\ MaxCores \in Nat
  BY DesktopAssumption DEF DeskTyped, DMTypeOK
<1>1. OneCore
  <2> SUFFICES ASSUME ~overlapped PROVE OneCore
    BY DEF OneCore
  <2>1. ServedAlone
    OBVIOUS
  <2>2. Cardinality({r \in Cores : stage[r] \in Serving}) <= 1
    <3>1. CASE {r \in Cores : stage[r] \in Serving} = {}
      BY <3>1, FS_EmptySet
    <3>2. CASE {r \in Cores : stage[r] \in Serving} # {}
      <4>1. {r \in Cores : stage[r] \in Serving} = {coreCtx}
        BY <2>1, <3>2 DEF ServedAlone
      <4>2. Cardinality({coreCtx}) = 1
        BY FS_Singleton
      <4> QED
        BY <4>1, <4>2
    <3> QED
      BY <3>1, <3>2
  <2>3. coreState = "running" =>
          /\ controlPlane = coreCtx /\ coreCtx # 0
          /\ stage[coreCtx] \in {"watch", "gateway", "up", "served"}
          /\ stage[coreCtx] = "served" \/ application = coreCtx
    <3> SUFFICES ASSUME coreState = "running"
                 PROVE /\ controlPlane = coreCtx /\ coreCtx # 0
                       /\ stage[coreCtx] \in {"watch", "gateway", "up", "served"}
                       /\ stage[coreCtx] = "served" \/ application = coreCtx
      OBVIOUS
    <3>1. coreCtx \in Cores /\ stage[coreCtx] \in Serving
      BY <1>0, <2>1 DEF ServedAlone, Cores
    <3> QED
      BY <2>1, <3>1 DEF ServedAlone, Serving
  <2> QED
    BY <2>2, <2>3 DEF OneCore
<1>2. WatchersFollow
  <2> SUFFICES ASSUME ~overlapped, ~crossed, ~shut, coreState = "running",
        stage[coreCtx] \in {"gateway", "up"},
                      \A q \in Cores : q < coreCtx => q \in cancelled
               PROVE watchersCancel = coreCtx
    BY DEF WatchersFollow
  <2>1. watchersCancel \in 0..MaxCores /\ watchersCancel \notin cancelled \cup {0} /\ coreCtx # 0
    BY DEF DeskTyped, DMTypeOK, SubscribedToLive, ServedAlone
  <2>2. watchersCancel \in Cores /\ stage[watchersCancel] # "none"
    BY <1>0, <2>1 DEF Cores, StartedInOrder
  <2>3. ~(watchersCancel > coreCtx) /\ ~(watchersCancel < coreCtx)
    BY <2>1, <2>2 DEF StartedInOrder
  <2> QED
    BY <1>0, <2>1, <2>3
<1> QED
  BY <1>0, <1>1, <1>2 DEF DesktopInv

\* The variables keep their types.
LEMMA DeskTypes == DeskTyped /\ [DMNext]_dmVars => DeskTyped'
<1> SUFFICES ASSUME DeskTyped, [DMNext]_dmVars PROVE DeskTyped'
  OBVIOUS
<1> USE DesktopAssumption DEF DeskTyped, DMTypeOK, fieldVars, coreRunVars, callVars
<1>a. "begin" \in CoreStages /\ "init" \in CoreStages /\ "ready" \in CoreStages /\ "watch" \in CoreStages
      /\ "gateway" \in CoreStages /\ "up" \in CoreStages /\ "served" \in CoreStages /\ "tell" \in CoreStages
      /\ "stopgw" \in CoreStages /\ "done" \in CoreStages
  BY DEF CoreStages, Serving
<1>b. Cores \subseteq 0..MaxCores /\ 0 \in 0..MaxCores
  BY DEF Cores
<1>c. ASSUME stage' \in [Cores -> CoreStages] PROVE \A r \in Cores : stage'[r] \in CoreStages
  BY <1>c
<1>d. ASSUME NEW r \in Cores PROVE stage[r] \in CoreStages /\ ctxOf[r] \in 0..MaxCores
  OBVIOUS
<1>1. CASE UNCHANGED dmVars
  BY <1>1 DEF dmVars
<1>2. ASSUME Starts, calls' \in 0..MaxCalls, restarting' \in BOOLEAN PROVE DeskTyped'
  <2>1. PICK r \in Cores : coreCtx' = r /\ stage' = [stage EXCEPT ![r] = "begin"]
    BY <1>2 DEF Starts
  <2>2. overlapped' \in BOOLEAN
    BY <1>2 DEF Starts
  <2>3. stage' \in [Cores -> CoreStages]
    BY <1>a, <2>1
  <2> QED
    BY <1>2, <1>b, <2>1, <2>2, <2>3 DEF Starts, CoreStages
<1>3. ASSUME StopBegins, calls' \in 0..MaxCalls, restarting' \in BOOLEAN PROVE DeskTyped'
  BY <1>3, <1>b DEF StopBegins, CoreStages
<1>4. ASSUME Called PROVE calls' \in 0..MaxCalls
  BY <1>4 DEF Called
<1>5. CASE StartCore \/ StopCore \/ RestartBegins \/ RestartStarts
  <2>1. CASE StartCore
    BY <1>2, <1>4, <2>1 DEF StartCore
  <2>2. CASE StopCore
    BY <1>3, <1>4, <2>2 DEF StopCore
  <2>3. CASE RestartBegins
    BY <1>3, <1>4, <2>3 DEF RestartBegins, CoreStages
  <2>4. CASE RestartStarts
    BY <1>2, <2>4 DEF RestartStarts
  <2> QED
    BY <1>5, <2>1, <2>2, <2>3, <2>4
<1>6. CASE StopCancels
  <2>2. PICK c \in 0..MaxCores : stopping = <<c>>
    BY <1>6 DEF StopCancels
  <2>3. cancelled \subseteq Cores /\ cancelled' = cancelled \cup ({c} \ {0}) /\ (c = 0 \/ c \in Cores)
    BY <1>6, <2>2 DEF StopCancels, Cores
  <2> QED
    BY <1>6, <2>3 DEF StopCancels, CoreStages
<1>7. CASE RestartGivesUp
  BY <1>7 DEF RestartGivesUp, CoreStages
<1>8. CASE Shutdown
  <2>1. cancelled \subseteq Cores /\ (coreCtx = 0 \/ coreCtx \in Cores)
    BY DEF Cores
  <2>2. cancelled' = cancelled \/ cancelled' = cancelled \cup ({coreCtx} \ {0})
    BY <1>8 DEF Shutdown
  <2> QED
    BY <1>4, <1>8, <1>b, <2>1, <2>2 DEF Shutdown, CoreStages
<1>9. ASSUME NEW r \in Cores, CoreStep(r) PROVE DeskTyped'
  <2>1. stage' \in [Cores -> CoreStages] /\ ctxOf' \in [Cores -> 0..MaxCores]
    BY <1>9, <1>a, <1>b DEF CoreStep, CoreTo, CoreBegins, CoreReady, OnCoreReady, StartWatchers, CoreUp,
       ServeReturns, CorePanics, CoreEnds, TellWindow, CoreDone
  <2>2. /\ {coreState', windowState'} \subseteq {"stopped", "starting", "running", "stopping", "error"}
        /\ {coreCtx', controlPlane', watchersCancel', application'} \subseteq 0..MaxCores
    BY <1>9, <1>b DEF CoreStep, CoreTo, CoreBegins, CoreReady, OnCoreReady, StartWatchers, CoreUp,
       ServeReturns, CorePanics, CoreEnds, TellWindow, CoreDone
  <2>3. cancelled' = cancelled /\ UNCHANGED callVars /\ overlapped' = overlapped /\ crossed' \in BOOLEAN
    BY <1>9 DEF CoreStep, CoreTo, CoreBegins, CoreReady, OnCoreReady, StartWatchers, CoreUp,
       ServeReturns, CorePanics, CoreEnds, TellWindow, CoreDone
  <2> QED
    BY <2>1, <2>2, <2>3 DEF CoreStages
<1> QED
  BY <1>1, <1>5, <1>6, <1>7, <1>8, <1>9 DEF DMNext

\* What a step of the goroutine of a core leaves as it was.
LEMMA CoreMoves ==
  ASSUME DeskTyped, NEW r \in Cores, CoreStep(r)
  PROVE  /\ stage[r] # "none" /\ stage'[r] # "none" /\ \A q \in Cores : q # r => stage'[q] = stage[q]
         /\ coreCtx' \in {coreCtx, 0} /\ controlPlane' \in {controlPlane, 0, r}
         /\ watchersCancel' \in {watchersCancel, controlPlane}
         /\ UNCHANGED <<cancelled, callVars, overlapped>>
<1>1. stage \in [Cores -> CoreStages]
  BY DEF DeskTyped
<1>2. stage[r] # "none" /\ stage'[r] # "none" /\ \A q \in Cores : q # r => stage'[q] = stage[q]
  BY <1>1 DEF CoreStep, CoreTo, CoreBegins, CoreReady, OnCoreReady, StartWatchers, CoreUp,
     ServeReturns, CorePanics, CoreEnds, TellWindow, CoreDone
<1>3. /\ coreCtx' \in {coreCtx, 0} /\ controlPlane' \in {controlPlane, 0, r}
      /\ watchersCancel' \in {watchersCancel, controlPlane} /\ UNCHANGED <<cancelled, callVars, overlapped>>
  BY DEF CoreStep, CoreTo, CoreBegins, CoreReady, OnCoreReady, StartWatchers, CoreUp, fieldVars,
     ServeReturns, CorePanics, CoreEnds, TellWindow, CoreDone
<1> QED
  BY <1>2, <1>3

\* A core is started after all before it and before all after it.
LEMMA StartsNext ==
  ASSUME DeskTyped, Starts
  PROVE  /\ \E r \in Cores : /\ coreCtx' = r /\ stage[r] = "none" /\ stage'[r] = "begin"
                             /\ \A q \in Cores : /\ q < r => stage[q] # "none"
                                                 /\ q # r => stage'[q] = stage[q]
         /\ coreState' = "starting" /\ windowState' = "starting" /\ coreState \notin {"running", "starting"}
         /\ overlapped' = (overlapped \/ \E q \in Cores : stage[q] \in Serving)
         /\ UNCHANGED <<controlPlane, watchersCancel, application, ctxOf, cancelled, stopping, shut, crossed>>
BY DEF Starts, DeskTyped

\* Cores are started in their order.
LEMMA OrderOfCores == DeskTyped /\ StartedInOrder /\ [DMNext]_dmVars => StartedInOrder'
<1> SUFFICES ASSUME DeskTyped, StartedInOrder, [DMNext]_dmVars PROVE StartedInOrder'
  OBVIOUS
<1>0. /\ coreCtx \in 0..MaxCores /\ controlPlane \in 0..MaxCores /\ watchersCancel \in 0..MaxCores
      /\ cancelled \subseteq Cores /\ 0 \notin Cores /\ Cores \subseteq Nat /\ 0..MaxCores = Cores \cup {0}
      /\ stopping \in {<< >>} \cup {<<c>> : c \in 0..MaxCores}
  BY DesktopAssumption DEF DeskTyped, DMTypeOK, Cores
<1>1. CASE UNCHANGED dmVars
  BY <1>1 DEF dmVars, fieldVars, coreRunVars, callVars, StartedInOrder
<1>2. CASE Starts
  <2>1. PICK r \in Cores : /\ coreCtx' = r /\ stage[r] = "none" /\ stage'[r] = "begin"
                           /\ \A q \in Cores : /\ q < r => stage[q] # "none"
                                               /\ q # r => stage'[q] = stage[q]
    BY <1>2, StartsNext
  <2>2. UNCHANGED <<controlPlane, watchersCancel, cancelled, stopping>>
    BY <1>2 DEF Starts
  <2>3. \A q, p \in Cores : q < p /\ stage'[q] = "none" => stage'[p] = "none"
    BY <1>0, <2>1 DEF StartedInOrder
  <2>4. \A p \in Cores : p > r => stage'[p] = "none"
    BY <1>0, <2>1 DEF StartedInOrder
  <2>5. \A p \in Cores : stage[p] # "none" => stage'[p] # "none"
    BY <2>1
  <2>6. \A p \in {coreCtx', controlPlane', watchersCancel'} \cup cancelled' : p # 0 => stage'[p] # "none"
    BY <1>0, <2>1, <2>2, <2>5 DEF StartedInOrder
  <2> QED
    BY <2>1, <2>2, <2>3, <2>4, <2>5, <2>6 DEF StartedInOrder
<1>3. ASSUME stage' = stage, coreCtx' = coreCtx, controlPlane' = controlPlane,
             watchersCancel' \in {watchersCancel, 0}, stopping' \in {stopping, << >>, <<coreCtx>>},
             \A c \in cancelled' : c \in cancelled \/ c = coreCtx \/ stopping = <<c>>
      PROVE StartedInOrder'
  <2>a. \A p \in {coreCtx, controlPlane, watchersCancel} \cup cancelled : p # 0 => stage[p] # "none"
    BY DEF StartedInOrder
  <2>b. ASSUME NEW p, stopping = <<p>>, p # 0 PROVE stage[p] # "none"
    <3>1. p \in Cores
      BY <1>0, <2>b
    <3> QED
      BY <2>b, <3>1 DEF StartedInOrder
  <2>1. \A p \in {coreCtx', controlPlane', watchersCancel'} \cup cancelled' : p # 0 => stage'[p] # "none"
    BY <1>3, <2>a, <2>b
  <2>2. \A p \in Cores : stopping' = <<p>> => stage'[p] # "none"
    BY <1>0, <1>3 DEF StartedInOrder
  <2> QED
    BY <1>0, <1>3, <2>1, <2>2 DEF StartedInOrder
<1>4. CASE StopBegins
  BY <1>3, <1>4 DEF StopBegins, coreRunVars
<1>5. CASE StopCancels
  <2>1. PICK c : stopping = <<c>>
    BY <1>0, <1>5 DEF StopCancels
  <2> QED
    BY <1>3, <1>5, <2>1 DEF StopCancels, fieldVars
<1>6. CASE RestartGivesUp \/ (RestartBegins /\ ~StopBegins)
  BY <1>3, <1>6 DEF RestartGivesUp, RestartBegins, fieldVars, coreRunVars
<1>7. CASE Shutdown
  BY <1>3, <1>7 DEF Shutdown
<1>8. ASSUME NEW r \in Cores, CoreStep(r) PROVE StartedInOrder'
  <2>1. \A p \in Cores : stage'[p] = "none" <=> stage[p] = "none"
    BY <1>8, CoreMoves
  <2>2. \A p \in {coreCtx', controlPlane', watchersCancel'} \cup cancelled' : p # 0 => p \in Cores
          /\ stage[p] # "none"
    BY <1>0, <1>8, CoreMoves DEF StartedInOrder
  <2>3. stopping' = stopping /\ coreCtx' \in {coreCtx, 0}
    BY <1>8, CoreMoves DEF callVars
  <2> QED
    BY <1>0, <2>1, <2>2, <2>3 DEF StartedInOrder
<1> QED
  BY <1>1, <1>2, <1>4, <1>5, <1>6, <1>7, <1>8 DEF DMNext, StartCore, StopCore, RestartBegins, RestartStarts

\* The window is told.
LEMMA WindowStaysTold == DeskTyped /\ WindowIsTold /\ [DMNext]_dmVars => WindowIsTold'
<1> SUFFICES ASSUME DeskTyped, WindowIsTold, [DMNext]_dmVars PROVE WindowIsTold'
  OBVIOUS
<1>0. stage \in [Cores -> CoreStages] /\ {overlapped, crossed} \subseteq BOOLEAN
  BY DEF DeskTyped, DMTypeOK
<1>1. CASE UNCHANGED <<windowState, coreState, stage, stopping, overlapped, crossed>>
  BY <1>1 DEF WindowIsTold
<1>2. CASE windowState' = coreState'
  BY <1>2 DEF WindowIsTold
<1>3. CASE Starts
  BY <1>2, <1>3, StartsNext
<1>4. CASE StopBegins
  BY <1>4 DEF StopBegins, WindowIsTold
<1>5. CASE StopCancels
  BY <1>0, <1>5 DEF StopCancels, WindowIsTold, fieldVars
<1>6. ASSUME NEW r \in Cores, CoreStep(r), ~TellWindow(r), ~CoreEnds(r) PROVE WindowIsTold'
  <2>1. CASE coreState' = coreState /\ windowState' = windowState
    <3>1. \A q \in Cores : stage[q] = "tell" => stage'[q] = "tell"
      BY <1>0, <1>6 DEF CoreStep, CoreTo, CoreBegins, CoreReady, OnCoreReady, StartWatchers, CoreUp,
         ServeReturns, CorePanics, CoreDone
    <3>2. stopping' = stopping /\ overlapped' = overlapped /\ crossed' = crossed
      BY <1>6 DEF CoreStep, CoreTo, CoreBegins, CoreReady, OnCoreReady, StartWatchers, CoreUp,
         ServeReturns, CorePanics, CoreDone, callVars
    <3> QED
      BY <2>1, <3>1, <3>2 DEF WindowIsTold
  <2>2. CASE ~(coreState' = coreState /\ windowState' = windowState)
    BY <1>2, <1>6, <2>2 DEF CoreStep, CoreTo, CoreBegins, CoreReady, OnCoreReady, StartWatchers, CoreUp,
         ServeReturns, CorePanics, CoreDone, fieldVars
  <2> QED
    BY <2>1, <2>2
<1>7. ASSUME NEW r \in Cores, CoreEnds(r) PROVE WindowIsTold'
  <2>1. stage'[r] = "tell"
    BY <1>0, <1>7 DEF CoreEnds, CoreTo
  <2> QED
    BY <2>1 DEF WindowIsTold
<1>8. ASSUME NEW r \in Cores, TellWindow(r) PROVE WindowIsTold'
  <2>1. crossed' = (crossed \/ coreState # windowState') /\ coreState' = coreState
    BY <1>8 DEF TellWindow, fieldVars
  <2> QED
    BY <1>0, <2>1 DEF WindowIsTold
<1>9. CASE RestartGivesUp \/ (RestartBegins /\ ~StopBegins) \/ Shutdown
  BY <1>1, <1>9 DEF RestartGivesUp, RestartBegins, Shutdown, fieldVars, coreRunVars
<1>10. CASE UNCHANGED dmVars
  BY <1>1, <1>10 DEF dmVars, fieldVars, coreRunVars, callVars
<1> QED
  BY <1>3, <1>4, <1>5, <1>6, <1>7, <1>8, <1>9, <1>10 DEF DMNext, StartCore, StopCore, RestartBegins,
     RestartStarts

\* Without an overlap one core is served, and it is the present one.
LEMMA AloneOn ==
  DeskTyped /\ StartedInOrder /\ (~overlapped => ServedAlone) /\ [DMNext]_dmVars
    => (~overlapped => ServedAlone)'
<1> SUFFICES ASSUME DeskTyped, StartedInOrder, ~overlapped => ServedAlone, [DMNext]_dmVars, ~overlapped'
             PROVE ServedAlone'
  OBVIOUS
<1>0. /\ stage \in [Cores -> CoreStages] /\ coreCtx \in Cores \cup {0} /\ controlPlane \in Cores \cup {0}
      /\ 0 \notin Cores /\ ctxOf \in [Cores -> 0..MaxCores]
  BY DesktopAssumption DEF DeskTyped, DMTypeOK, Cores
<1>1. CASE UNCHANGED <<coreState, stage, ctxOf, coreCtx, controlPlane, application, overlapped>>
  BY <1>1 DEF ServedAlone
<1>2. CASE Starts
  <2>1. PICK r \in Cores : /\ coreCtx' = r /\ stage[r] = "none" /\ stage'[r] = "begin"
                           /\ \A q \in Cores : /\ q < r => stage[q] # "none"
                                               /\ q # r => stage'[q] = stage[q]
    BY <1>2, StartsNext
  <2>2. \A q \in Cores : stage[q] \notin Serving
    BY <1>2, StartsNext
  <2>3. controlPlane # r /\ controlPlane' = controlPlane /\ coreState' = "starting"
    BY <1>0, <1>2, <2>1 DEF StartedInOrder, Starts
  <2> QED
    BY <1>0, <2>1, <2>2, <2>3 DEF ServedAlone, Serving
<1>3. CASE StopBegins
  <2>1. ServedAlone /\ coreState = "running" /\ coreState' = "stopping"
        /\ UNCHANGED <<stage, ctxOf, coreCtx, controlPlane, application>>
    BY <1>3 DEF StopBegins, coreRunVars
  <2> QED
    BY <2>1 DEF ServedAlone
<1>4. CASE StopCancels \/ RestartGivesUp \/ (RestartBegins /\ ~StopBegins) \/ Shutdown \/ UNCHANGED dmVars
  BY <1>1, <1>4 DEF StopCancels, RestartGivesUp, RestartBegins, Shutdown, dmVars, fieldVars, coreRunVars
<1>5. ASSUME NEW r \in Cores, CoreStep(r) PROVE ServedAlone'
  <2>1. ServedAlone
    BY <1>5, CoreMoves
  <2>2. \A q \in Cores : q # r => stage'[q] = stage[q]
    BY <1>5, CoreMoves
  <2>3. ASSUME NEW q \in Cores, q # r, stage[r] \in Serving PROVE stage[q] \notin Serving
    BY <2>1, <2>3 DEF ServedAlone
  <2>4. CASE TellWindow(r) \/ CoreDone(r)
    <3>1. /\ UNCHANGED <<coreState, coreCtx, controlPlane, application>> /\ stage[r] \in {"tell", "stopgw"}
          /\ stage'[r] \in {"stopgw", "done"} /\ \A q \in Cores : q # r => ctxOf'[q] = ctxOf[q]
      BY <1>0, <2>4 DEF TellWindow, CoreDone, CoreTo, fieldVars
    <3>2. \A q \in Cores : stage'[q] \in Serving => q # r /\ stage'[q] = stage[q] /\ ctxOf'[q] = ctxOf[q]
      BY <2>2, <3>1 DEF Serving
    <3>3. coreCtx # 0 /\ stage[coreCtx] \in Serving => coreCtx # r
      BY <3>1 DEF Serving
    <3> QED
      BY <1>0, <2>1, <2>2, <3>1, <3>2, <3>3 DEF ServedAlone
  <2>5. CASE stage[r] \in Serving
    <3>1. /\ coreCtx = r /\ coreState \in {"starting", "running", "stopping"}
          /\ coreState = "starting" <=> stage[r] \in {"begin", "init", "ready"}
               \/ (stage[r] = "served" /\ controlPlane # r)
          /\ stage[r] # "begin" => ctxOf[r] = r
          /\ stage[r] \in {"ready", "watch", "gateway", "up"} => controlPlane = r /\ application = r
          /\ stage[r] \in {"begin", "init"} => controlPlane # r
      BY <2>1, <2>5 DEF ServedAlone
    <3>2. SUFFICES
          /\ coreState' \in {"starting", "running", "stopping"} => coreCtx' # 0 /\ stage'[r] \in Serving
          /\ stage'[r] \in Serving =>
               /\ coreCtx' = r /\ coreState' \in {"starting", "running", "stopping"}
               /\ coreState' = "starting" <=>
                    stage'[r] \in {"begin", "init", "ready"} \/ (stage'[r] = "served" /\ controlPlane' # r)
               /\ stage'[r] # "begin" => ctxOf'[r] = r
               /\ stage'[r] \in {"ready", "watch", "gateway", "up"} => controlPlane' = r /\ application' = r
               /\ stage'[r] \in {"begin", "init"} => controlPlane' # r
      <4>1. \A q \in Cores : stage'[q] \in Serving => q = r
        BY <2>2, <2>3, <2>5
      <4>2. coreCtx' \in {r, 0}
        BY <1>5, <3>1, CoreMoves
      <4> QED
        BY <3>2, <4>1, <4>2 DEF ServedAlone
    <3>3. CASE CoreBegins(r) \/ CoreReady(r)
      BY <1>0, <3>1, <3>3 DEF CoreBegins, CoreReady, CoreTo, Serving, fieldVars
    <3>4. CASE OnCoreReady(r)
      BY <1>0, <3>1, <3>4 DEF OnCoreReady, CoreTo, Serving
    <3>5. CASE StartWatchers(r) \/ CoreUp(r)
      BY <1>0, <3>1, <3>5 DEF StartWatchers, CoreUp, CoreTo, Serving, fieldVars
    <3>6. CASE ServeReturns(r)
      BY <1>0, <3>1, <3>6 DEF ServeReturns, Serving
    <3>7. CASE CorePanics(r) \/ CoreEnds(r)
      BY <1>0, <3>1, <3>7 DEF CorePanics, CoreEnds, CoreTo, Serving
    <3> QED
      BY <1>5, <2>4, <2>5, <3>3, <3>4, <3>5, <3>6, <3>7 DEF CoreStep, TellWindow, CoreDone, CoreTo, Serving
  <2> QED
    BY <1>5, <2>4, <2>5 DEF CoreStep, CoreBegins, CoreReady, OnCoreReady, StartWatchers, CoreUp,
       ServeReturns, CorePanics, CoreEnds, CoreTo, Serving
<1> QED
  BY <1>2, <1>3, <1>4, <1>5 DEF DMNext, StartCore, StopCore, RestartBegins, RestartStarts

\* The window stays subscribed to a core that is not cancelled.
LEMMA SubscribedOn ==
  DeskStrong /\ [DMNext]_dmVars => (~overlapped /\ ~crossed /\ ~shut => SubscribedToLive)'
<1> SUFFICES ASSUME DeskStrong, [DMNext]_dmVars, ~overlapped', ~crossed', ~shut' PROVE SubscribedToLive'
  OBVIOUS
<1>0. /\ stage \in [Cores -> CoreStages] /\ coreCtx \in Cores \cup {0} /\ controlPlane \in Cores \cup {0}
      /\ 0 \notin Cores /\ cancelled \subseteq Cores
      /\ DeskTyped /\ StartedInOrder /\ (~overlapped => ServedAlone)
      /\ ~overlapped /\ ~crossed /\ ~shut => SubscribedToLive
  BY DesktopAssumption DEF DeskStrong, DeskTyped, DMTypeOK, Cores
<1>1. CASE UNCHANGED <<coreState, stage, coreCtx, cancelled, stopping, watchersCancel, overlapped,
          crossed, shut>>
  BY <1>0, <1>1 DEF SubscribedToLive
<1>2. CASE Starts
  <2>1. PICK r \in Cores : coreCtx' = r /\ stage[r] = "none"
    BY <1>0, <1>2, StartsNext
  <2>2. /\ coreState' = "starting" /\ ~overlapped /\ ~crossed /\ ~shut
        /\ UNCHANGED <<cancelled, stopping, watchersCancel>>
    BY <1>2 DEF Starts
  <2>3. r \notin cancelled /\ stopping # <<r>>
    BY <1>0, <2>1 DEF StartedInOrder
  <2> QED
    BY <1>0, <2>1, <2>2, <2>3 DEF SubscribedToLive
<1>3. CASE StopBegins
  <2>1. /\ coreState = "running" /\ coreState' = "stopping" /\ watchersCancel' = 0 /\ ~overlapped
        /\ \A r \in Cores : stage[r] # "watch"
        /\ UNCHANGED <<stage, coreCtx, cancelled>>
    BY <1>3 DEF StopBegins, coreRunVars
  <2>2. coreCtx \in Cores
    BY <1>0, <2>1 DEF ServedAlone
  <2> QED
    BY <1>0, <2>1, <2>2 DEF SubscribedToLive
<1>4. CASE StopCancels
  <2>1. /\ coreState = "stopping" /\ ~overlapped /\ ~crossed /\ ~shut /\ 0 \notin cancelled'
        /\ UNCHANGED <<coreState, coreCtx, stage, watchersCancel>>
    BY <1>0, <1>4 DEF StopCancels, fieldVars
  <2> QED
    BY <1>0, <2>1 DEF SubscribedToLive
<1>5. CASE RestartGivesUp \/ (RestartBegins /\ ~StopBegins) \/ Shutdown \/ UNCHANGED dmVars
  BY <1>1, <1>5 DEF RestartGivesUp, RestartBegins, Shutdown, dmVars, fieldVars, coreRunVars, callVars
<1>6. ASSUME NEW r \in Cores, CoreStep(r) PROVE SubscribedToLive'
  <2>1. /\ ~overlapped /\ ~shut /\ cancelled' = cancelled /\ stopping' = stopping
        /\ \A q \in Cores : q # r => stage'[q] = stage[q]
    BY <1>0, <1>6, CoreMoves DEF callVars
  <2>2. ~crossed
    BY <1>6 DEF CoreStep, CoreBegins, CoreReady, OnCoreReady, StartWatchers, CoreUp,
       ServeReturns, CorePanics, CoreEnds, TellWindow, CoreDone
  <2>3. ServedAlone /\ SubscribedToLive
    BY <1>0, <2>1, <2>2
  <2>4. CASE TellWindow(r) \/ CoreDone(r)
    <3>1. UNCHANGED <<coreState, coreCtx, watchersCancel>> /\ stage[r] \notin Serving
      BY <1>0, <2>4 DEF TellWindow, CoreDone, CoreTo, fieldVars, Serving
    <3>2. coreState \in {"starting", "running", "stopping"} => stage'[coreCtx] = stage[coreCtx]
      BY <1>0, <2>1, <2>3, <3>1 DEF ServedAlone
    <3> QED
      BY <2>1, <2>3, <3>1, <3>2 DEF SubscribedToLive
  <2>5. CASE CorePanics(r) \/ CoreEnds(r)
    <3>1. coreState' \in {"stopped", "error"} /\ watchersCancel' = watchersCancel
      BY <2>5 DEF CorePanics, CoreEnds
    <3> QED
      BY <2>1, <2>3, <3>1 DEF SubscribedToLive
  <2>6. CASE CoreBegins(r) \/ CoreReady(r) \/ CoreUp(r) \/ ServeReturns(r)
    <3>1. /\ UNCHANGED <<coreState, coreCtx, watchersCancel>> /\ stage[r] \in Serving
          /\ stage'[r] \in {"init", "ready", "up", "served"} /\ (stage'[r] = "up" => stage[r] = "gateway")
      BY <1>0, <2>6 DEF CoreBegins, CoreReady, CoreUp, ServeReturns, CoreTo, fieldVars, Serving
    <3>2. coreCtx = r
      BY <2>3, <3>1 DEF ServedAlone
    <3> QED
      BY <2>1, <2>3, <3>1, <3>2 DEF SubscribedToLive
  <2>7. CASE OnCoreReady(r)
    <3>1. coreCtx = r /\ coreState = "starting"
      BY <2>3, <2>7 DEF OnCoreReady, CoreTo, ServedAlone, Serving
    <3>2. coreState' = "running" /\ stage'[r] = "watch" /\ UNCHANGED <<coreCtx, watchersCancel>>
      BY <1>0, <2>7, <3>1 DEF OnCoreReady, CoreTo
    <3> QED
      BY <2>1, <2>3, <3>1, <3>2 DEF SubscribedToLive
  <2>8. CASE StartWatchers(r)
    <3>1. coreCtx = r /\ controlPlane = r /\ coreState = "running"
      BY <2>3, <2>8 DEF StartWatchers, CoreTo, ServedAlone, SubscribedToLive, Serving
    <3>2. /\ stage'[r] = "gateway" /\ UNCHANGED <<coreState, coreCtx>>
          /\ watchersCancel' = IF watchersCancel = 0 THEN r ELSE watchersCancel
      BY <1>0, <2>8, <3>1 DEF StartWatchers, CoreTo
    <3> QED
      BY <1>0, <2>1, <2>3, <3>1, <3>2 DEF SubscribedToLive
  <2> QED
    BY <1>6, <2>4, <2>5, <2>6, <2>7, <2>8 DEF CoreStep
<1> QED
  BY <1>2, <1>3, <1>4, <1>5, <1>6 DEF DMNext, StartCore, StopCore, RestartBegins, RestartStarts

\* Every step preserves the invariant.
LEMMA DeskStep == DeskStrong /\ [DMNext]_dmVars => DeskStrong'
<1> SUFFICES ASSUME DeskStrong, [DMNext]_dmVars PROVE DeskStrong'
  OBVIOUS
<1>1. DeskTyped /\ StartedInOrder /\ WindowIsTold /\ (~overlapped => ServedAlone)
  BY DEF DeskStrong
<1>2. DeskTyped' /\ StartedInOrder' /\ WindowIsTold'
  BY <1>1, DeskTypes, OrderOfCores, WindowStaysTold
<1>3. (~overlapped => ServedAlone)'
  BY <1>1, AloneOn
<1>4. (~overlapped /\ ~crossed /\ ~shut => SubscribedToLive)'
  BY SubscribedOn
<1> QED
  BY <1>2, <1>3, <1>4 DEF DeskStrong

--------------------------------------------------------------------------------
(* The checker of updates.                                                 *)

\* A set of natural numbers that is not empty has a least.
LEMMA LeastIs ==
  ASSUME NEW T \in SUBSET Nat, T # {}
  PROVE  Min(T) \in T /\ \A k \in T : Min(T) <= k
<1>1. PICK x \in T : \A y \in T : ~ (<<y, x>> \in OpToRel(<, Nat))
  BY NatLessThanWellFounded, WFMin
<1>2. ASSUME NEW y \in T PROVE x <= y
  <2>1. x \in Nat /\ y \in Nat
    OBVIOUS
  <2>2. <<y, x>> \notin {ss \in Nat \X Nat : ss[1] < ss[2]}
    BY <1>1, Zenon DEF OpToRel
  <2>3. ~ (y < x)
    BY <2>1, <2>2
  <2> QED
    BY <2>1, <2>3
<1> QED
  BY <1>2 DEF Min

\* A bounded set of natural numbers has a greatest.
LEMMA GreatestIs ==
  ASSUME NEW u \in Nat, NEW T \in SUBSET (0..u), T # {}
  PROVE  Max(T) \in T
<1> DEFINE Below == {u - k : k \in T}
<1>1. Below \in SUBSET Nat /\ Below # {}
  <2>1. \A k \in T : k \in Nat /\ k <= u /\ u - k \in Nat
    OBVIOUS
  <2>2. PICK k : k \in T
    OBVIOUS
  <2>3. u - k \in Below
    BY <2>2
  <2> QED
    BY <2>1, <2>3
<1>2. PICK b \in Below : \A d \in Below : b <= d
  BY <1>1, LeastIs
<1>3. PICK k \in T : b = u - k
  BY <1>2
<1>4. \A m \in T : k >= m
  <2> TAKE m \in T
  <2>1. u - m \in Below
    OBVIOUS
  <2> QED
    BY <1>2, <1>3, <2>1
<1> QED
  BY <1>4 DEF Max

CheckerTyped ==
  /\ UCTypeOK /\ {raced, overtaken, channel} \subseteq BOOLEAN /\ interval \in {1, 2}
  /\ wish \in [Clients -> BOOLEAN \X {1, 2}] /\ asked \in [Checkers -> BOOLEAN]

\* A request asks for the channel that is set, unless that changed meanwhile.
AsksForChannel == \A c \in Checkers : check[c] \in {"fetch", "answer"} => asked[c] = channel

\* A ticker and its stop channel come and go together, a closed channel is not the
\* present one, and a loop waits on a channel there was.
TickersNumbered ==
  /\ ticker = stopCh /\ ticker \in 0..starts /\ ticker \notin stopClosed /\ stopClosed \subseteq 1..starts
  /\ \A l \in Loops : (l > starts => loop[l] = "none") /\ (loop[l] = "select" => watches[l] # 0)

\* A loop waits on the present channel or on a closed one, and one loop at most goes on.
LoopsTakeTurns ==
  /\ \A l \in Loops : loop[l] = "select" => watches[l] = stopCh \/ watches[l] \in stopClosed
  /\ \A l, m \in LiveLoops : l = m

CheckerStrong ==
  /\ CheckerTyped /\ TickersNumbered /\ CacheFollowsChannel
  /\ ~raced => AsksForChannel
  /\ ~overtaken => LoopsTakeTurns

\* The release that is chosen is one there is, or none.
LEMMA SelectReleaseIs ==
  ASSUME NEW u \in Releases, NEW pre
  PROVE  SelectRelease(u, pre) \in Releases
<1>1. u \in Nat /\ MaxReleases \in Nat /\ u <= MaxReleases
  BY UpdateCheckerAssumption DEF Releases
<1>2. {0} \cup {k \in 1..u : pre \/ k \notin PreReleases} \in SUBSET (0..u)
  BY <1>1
<1>3. SelectRelease(u, pre) \in 0..u
  BY <1>1, <1>2, GreatestIs DEF SelectRelease
<1> QED
  BY <1>1, <1>3 DEF Releases

\* The first state.
LEMMA CheckerBegins == UCInit => CheckerStrong
<1> SUFFICES ASSUME UCInit PROVE CheckerStrong
  OBVIOUS
<1> USE UpdateCheckerAssumption DEF UCInit
<1>1. CheckerTyped
  <2>1. 0 \in 0..MaxStarts /\ 0 \in Releases /\ 1 \in Releases /\ savedSettings \in 0..MaxSettings
    BY DEF Releases
  <2>2. NoWish \in BOOLEAN \X {1, 2}
    BY DEF NoWish
  <2> QED
    BY <2>1, <2>2 DEF CheckerTyped, UCTypeOK
<1>2. TickersNumbered /\ CacheFollowsChannel /\ AsksForChannel
  BY DEF TickersNumbered, CacheFollowsChannel, AsksForChannel
<1>3. LoopsTakeTurns
  BY DEF LoopsTakeTurns, LiveLoops
<1> QED
  BY <1>1, <1>2, <1>3 DEF CheckerStrong

\* The invariant says what CheckerInv asks.
LEMMA CheckerHolds == CheckerStrong => CheckerInv
<1> SUFFICES ASSUME CheckerStrong PROVE CheckerInv
  OBVIOUS
<1>1. OneLoop
  <2> SUFFICES ASSUME ~overtaken PROVE Cardinality(LiveLoops) <= 1
    BY DEF OneLoop
  <2>1. \A l, m \in LiveLoops : l = m
    BY DEF CheckerStrong, LoopsTakeTurns
  <2>2. CASE LiveLoops = {}
    BY <2>2, FS_EmptySet
  <2>3. ASSUME NEW l \in LiveLoops PROVE Cardinality(LiveLoops) <= 1
    <3>1. LiveLoops = {l}
      BY <2>1, <2>3
    <3>2. Cardinality({l}) = 1
      BY FS_Singleton
    <3> QED
      BY <3>1, <3>2
  <2> QED
    BY <2>2, <2>3
<1> QED
  BY <1>1 DEF CheckerStrong, CheckerTyped, CheckerInv

\* Who makes a ticker.
LEMMA StartedIs ==
  ASSUME CheckerTyped, Started
  PROVE  /\ starts' \in Loops /\ starts' = starts + 1 /\ starts \in Nat
         /\ ticker' = starts' /\ stopCh' = starts' /\ doneCh' = starts'
         /\ loop' \in [Loops -> {"none", "check", "select", "exit", "ended"}]
         /\ loop'[starts'] = "check" /\ \A l \in Loops : l # starts' => loop'[l] = loop[l]
         /\ check' \in [Checkers -> {"idle", "gate", "fetch", "answer", "done"}]
         /\ check'[starts'] = "gate" /\ \A c \in Checkers : c # starts' => check'[c] = check[c]
         /\ UNCHANGED <<stopClosed, doneClosed, watches>>
<1>1. starts \in 0..MaxStarts /\ MaxStarts \in Nat
  BY UpdateCheckerAssumption DEF CheckerTyped, UCTypeOK
<1>2. starts' \in Loops /\ starts' = starts + 1 /\ starts \in Nat
  BY <1>1 DEF Started, Loops
<1> QED
  BY <1>2 DEF Started, CheckerTyped, UCTypeOK, Checkers

\* The variables keep their types.
LEMMA CheckerTypes == CheckerTyped /\ [UCNext]_ucVars => CheckerTyped'
<1> SUFFICES ASSUME CheckerTyped, [UCNext]_ucVars PROVE CheckerTyped'
  OBVIOUS
<1>0. /\ UCTypeOK /\ {raced, overtaken, channel} \subseteq BOOLEAN /\ interval \in {1, 2}
      /\ wish \in [Clients -> BOOLEAN \X {1, 2}] /\ asked \in [Checkers -> BOOLEAN]
      /\ Loops \subseteq 0..MaxStarts /\ 0 \in 0..MaxStarts /\ 0 \in Releases /\ MaxSettings \in Nat
      /\ NoWish \in BOOLEAN \X {1, 2}
  <2>1. NoWish \in BOOLEAN \X {1, 2}
    BY DEF NoWish
  <2> QED
    BY <2>1, UpdateCheckerAssumption DEF CheckerTyped, Loops, Releases
<1> USE DEF UCTypeOK, loopVars, optionVars, cacheVars, checkVars, settingVars, ghostVars
<1>1. CASE UNCHANGED ucVars
  BY <1>0, <1>1 DEF ucVars, CheckerTyped
<1>2. CASE StartChecker
  BY <1>0, <1>2, StartedIs DEF StartChecker, CheckerTyped
<1>3. ASSUME NEW l \in Loops, ReadTicker(l) \/ TickerFires(l) \/ StopSeen(l) \/ LoopEnds(l)
      PROVE CheckerTyped'
  <2>1. /\ loop' \in [Loops -> {"none", "check", "select", "exit", "ended"}]
        /\ watches' \in [Loops -> 0..MaxStarts]
        /\ check' \in [Checkers -> {"idle", "gate", "fetch", "answer", "done"}]
        /\ doneClosed' \subseteq 0..MaxStarts
    <3>1. CASE ReadTicker(l)
      BY <1>0, <3>1 DEF ReadTicker
    <3>2. CASE TickerFires(l)
      BY <1>0, <3>2 DEF TickerFires
    <3>3. CASE StopSeen(l)
      BY <1>0, <3>3 DEF StopSeen
    <3>4. CASE LoopEnds(l)
      BY <1>0, <3>4 DEF LoopEnds
    <3> QED
      BY <1>3, <3>1, <3>2, <3>3, <3>4
  <2> QED
    BY <1>0, <1>3, <2>1 DEF ReadTicker, TickerFires, StopSeen, LoopEnds, CheckerTyped
<1>4. CASE StopChecker
  BY <1>0, <1>4 DEF StopChecker, CheckerTyped
<1>5. ASSUME NEW c \in Clients, NEW pre \in BOOLEAN, NEW hours \in {1, 2}, SetOptions(c, pre, hours)
      PROVE CheckerTyped'
  <2>1. wish' \in [Clients -> BOOLEAN \X {1, 2}] /\ setting' \in [Clients -> {"idle", "restart", "start"}]
    BY <1>0, <1>5 DEF SetOptions
  <2>2. savedSettings' \in 0..MaxSettings /\ {etag', cachedRelease', lastNotified'} \subseteq Releases
    BY <1>0, <1>5 DEF SetOptions
  <2> QED
    BY <1>0, <1>5, <2>1, <2>2 DEF SetOptions, CheckerTyped
<1>6. ASSUME NEW c \in Clients, RestartTicker(c) PROVE CheckerTyped'
  <2>1. wish[c][1] \in BOOLEAN /\ wish[c][2] \in {1, 2}
    BY <1>0
  <2>2. wish' \in [Clients -> BOOLEAN \X {1, 2}] /\ setting' \in [Clients -> {"idle", "restart", "start"}]
    BY <1>0, <1>6 DEF RestartTicker
  <2>3. {raced', overtaken', channel'} \subseteq BOOLEAN /\ interval' \in {1, 2}
    BY <1>0, <1>6, <2>1 DEF RestartTicker
  <2> QED
    BY <1>0, <1>6, <2>2, <2>3 DEF RestartTicker, CheckerTyped
<1>7. ASSUME NEW c \in Clients, StartAgain(c) PROVE CheckerTyped'
  <2>1. setting' \in [Clients -> {"idle", "restart", "start"}] /\ overtaken' \in BOOLEAN
    BY <1>0, <1>7 DEF StartAgain
  <2>2. CASE Started
    BY <1>0, <1>7, <2>1, <2>2, StartedIs DEF StartAgain, CheckerTyped
  <2>3. CASE UNCHANGED <<loopVars, check>>
    BY <1>0, <1>7, <2>1, <2>3 DEF StartAgain, CheckerTyped
  <2> QED
    BY <1>7, <2>2, <2>3 DEF StartAgain
<1>8. ASSUME NEW c \in Checkers, CheckNow(c) PROVE CheckerTyped'
  <2>1. savedSettings' \in 0..MaxSettings
    BY <1>0, <1>8 DEF CheckNow
  <2> QED
    BY <1>0, <1>8, <2>1 DEF CheckNow, CheckerTyped
<1>9. ASSUME NEW c \in Checkers, EnterCheck(c) \/ ReadETag(c) \/ FetchFails(c) \/ NotModified(c)
      PROVE CheckerTyped'
  <2>1. /\ check' \in [Checkers -> {"idle", "gate", "fetch", "answer", "done"}]
        /\ answer' \in [Checkers -> Releases] /\ sentTag' \in [Checkers -> Releases]
        /\ asked' \in [Checkers -> BOOLEAN]
    BY <1>0, <1>9 DEF EnterCheck, ReadETag, FetchFails, NotModified
  <2> QED
    BY <1>0, <1>9, <2>1 DEF EnterCheck, ReadETag, FetchFails, NotModified, CheckerTyped
<1>10. ASSUME NEW c \in Checkers, Answered(c) PROVE CheckerTyped'
  <2>1. PICK s \in Releases : s = SelectRelease(upstream, asked[c])
    BY <1>0, SelectReleaseIs
  <2>2. /\ check' = [check EXCEPT ![c] = "done"] /\ answer' = [answer EXCEPT ![c] = s]
        /\ {etag', cachedRelease'} \subseteq Releases
    BY <1>0, <1>10, <2>1 DEF Answered
  <2> QED
    BY <1>0, <1>10, <2>2 DEF Answered, CheckerTyped
<1>11. ASSUME NEW c \in Checkers, EndCheck(c) PROVE CheckerTyped'
  <2>1. lastNotified' \in Releases
    BY <1>0, <1>11 DEF EndCheck
  <2>2. /\ check' \in [Checkers -> {"idle", "gate", "fetch", "answer", "done"}]
        /\ answer' \in [Checkers -> Releases] /\ sentTag' \in [Checkers -> Releases]
        /\ asked' \in [Checkers -> BOOLEAN]
    BY <1>0, <1>11 DEF EndCheck
  <2> QED
    BY <1>0, <1>11, <2>1, <2>2 DEF EndCheck, CheckerTyped
<1>12. CASE Release
  <2>1. upstream' \in Releases
    BY <1>0, <1>12, UpdateCheckerAssumption DEF Release, Releases
  <2> QED
    BY <1>0, <1>12, <2>1 DEF Release, CheckerTyped
<1> QED
  BY <1>1, <1>2, <1>3, <1>4, <1>5, <1>6, <1>7, <1>8, <1>9, <1>10, <1>11, <1>12 DEF UCNext, LoopStep,
     SettingStep, CheckStep

\* What is cached stays what its etag stands for.
CacheFits == etag # 0 => cachedRelease = SelectRelease(etag, channel) /\ cachedRelease # 0

\* Neither a change of the settings nor a check puts another channel's release into the cache.
LEMMA CacheKept ==
  CheckerTyped /\ CacheFollowsChannel /\ (~raced => AsksForChannel) /\ [UCNext]_ucVars
    => CacheFollowsChannel' /\ (~raced => AsksForChannel)'
<1> SUFFICES ASSUME CheckerTyped, CacheFollowsChannel, ~raced => AsksForChannel, [UCNext]_ucVars
             PROVE (~raced => CacheFits)' /\ (~raced => AsksForChannel)'
  BY DEF CacheFollowsChannel, CacheFits
<1>0. /\ asked \in [Checkers -> BOOLEAN] /\ {raced, channel} \subseteq BOOLEAN
      /\ check \in [Checkers -> {"idle", "gate", "fetch", "answer", "done"}]
      /\ ~raced => CacheFits
  BY DEF CheckerTyped, UCTypeOK, CacheFollowsChannel, CacheFits
<1> USE DEF loopVars, optionVars, cacheVars, checkVars, settingVars, ghostVars
<1>1. ASSUME UNCHANGED <<etag, cachedRelease, channel, raced>>,
             \A c \in Checkers : check'[c] \in {"fetch", "answer"} =>
               asked'[c] = channel \/ (asked'[c] = asked[c] /\ check[c] \in {"fetch", "answer"})
      PROVE (~raced => CacheFits)' /\ (~raced => AsksForChannel)'
  BY <1>0, <1>1 DEF AsksForChannel, CacheFits
<1>2. CASE UNCHANGED ucVars
  BY <1>1, <1>2 DEF ucVars
<1>3. ASSUME Started, UNCHANGED <<etag, cachedRelease, channel, raced, asked>>
      PROVE (~raced => CacheFits)' /\ (~raced => AsksForChannel)'
  BY <1>1, <1>3, StartedIs
<1>4. CASE StartChecker \/ StopChecker \/ Release
  BY <1>1, <1>3, <1>4 DEF StartChecker, StopChecker, Release
<1>5. ASSUME NEW l \in Loops, ReadTicker(l) \/ TickerFires(l) \/ StopSeen(l) \/ LoopEnds(l)
      PROVE (~raced => CacheFits)' /\ (~raced => AsksForChannel)'
  <2>1. UNCHANGED <<etag, cachedRelease, channel, raced, asked>>
        /\ \A c \in Checkers : check'[c] \in {"fetch", "answer"} => check[c] \in {"fetch", "answer"}
    BY <1>0, <1>5 DEF ReadTicker, TickerFires, StopSeen, LoopEnds
  <2> QED
    BY <1>1, <2>1
<1>6. ASSUME NEW c \in Clients, StartAgain(c)
      PROVE (~raced => CacheFits)' /\ (~raced => AsksForChannel)'
  BY <1>1, <1>3, <1>6 DEF StartAgain
<1>7. ASSUME NEW c \in Clients, NEW pre \in BOOLEAN, NEW hours \in {1, 2}, SetOptions(c, pre, hours)
      PROVE (~raced => CacheFits)' /\ (~raced => AsksForChannel)'
  <2>1. /\ channel' = pre /\ raced' = (raced \/ (pre # channel /\ InFetch)) /\ UNCHANGED <<check, asked>>
        /\ IF pre # channel THEN etag' = 0 ELSE UNCHANGED <<etag, cachedRelease>>
    BY <1>7 DEF SetOptions
  <2>2. CASE pre = channel
    BY <1>0, <1>1, <2>1, <2>2
  <2>3. CASE pre # channel
    BY <1>0, <2>1, <2>3 DEF AsksForChannel, InFetch, CacheFits
  <2> QED
    BY <2>2, <2>3
<1>8. ASSUME NEW c \in Clients, RestartTicker(c)
      PROVE (~raced => CacheFits)' /\ (~raced => AsksForChannel)'
  <2>1. raced' = (raced \/ channel' # channel) /\ UNCHANGED <<check, asked, etag, cachedRelease>>
    BY <1>8 DEF RestartTicker
  <2> QED
    BY <1>0, <2>1 DEF AsksForChannel, CacheFits
<1>9. ASSUME NEW c \in Checkers, CheckNow(c) \/ EnterCheck(c) \/ ReadETag(c) \/ FetchFails(c)
        \/ NotModified(c) \/ EndCheck(c)
      PROVE (~raced => CacheFits)' /\ (~raced => AsksForChannel)'
  <2>1. UNCHANGED <<etag, cachedRelease, channel, raced>>
    BY <1>9 DEF CheckNow, EnterCheck, ReadETag, FetchFails, NotModified, EndCheck
  <2>2. \A d \in Checkers : check'[d] \in {"fetch", "answer"} =>
          asked'[d] = channel \/ (asked'[d] = asked[d] /\ check[d] \in {"fetch", "answer"})
    BY <1>0, <1>9 DEF CheckNow, EnterCheck, ReadETag, FetchFails, NotModified, EndCheck
  <2> QED
    BY <1>1, <2>1, <2>2
<1>10. ASSUME NEW c \in Checkers, Answered(c)
       PROVE (~raced => CacheFits)' /\ (~raced => AsksForChannel)'
  <2>1. /\ UNCHANGED <<channel, raced, asked>> /\ check[c] = "answer"
        /\ \A d \in Checkers : check'[d] \in {"fetch", "answer"} => check[d] \in {"fetch", "answer"}
    BY <1>0, <1>10 DEF Answered
  <2>2. \/ UNCHANGED <<etag, cachedRelease>>
        \/ /\ etag' = upstream /\ cachedRelease' = SelectRelease(upstream, asked[c])
           /\ cachedRelease' # 0
    BY <1>10 DEF Answered
  <2>3. ~raced => asked[c] = channel
    BY <2>1 DEF AsksForChannel
  <2>4. (~raced => CacheFits)'
    BY <1>0, <2>1, <2>2, <2>3 DEF CacheFits
  <2> QED
    BY <2>1, <2>4 DEF AsksForChannel
<1> QED
  BY <1>2, <1>4, <1>5, <1>6, <1>7, <1>8, <1>9, <1>10 DEF UCNext, LoopStep, SettingStep, CheckStep

\* The loops of the checker take turns.
LEMMA TurnsKept ==
  CheckerTyped /\ TickersNumbered /\ (~overtaken => LoopsTakeTurns) /\ [UCNext]_ucVars
    => TickersNumbered' /\ (~overtaken => LoopsTakeTurns)'
<1> SUFFICES ASSUME CheckerTyped, TickersNumbered, ~overtaken => LoopsTakeTurns, [UCNext]_ucVars
             PROVE TickersNumbered' /\ (~overtaken => LoopsTakeTurns)'
  OBVIOUS
<1>0. /\ loop \in [Loops -> {"none", "check", "select", "exit", "ended"}]
      /\ watches \in [Loops -> 0..MaxStarts]
      /\ starts \in Nat /\ overtaken \in BOOLEAN /\ Loops \subseteq Nat /\ MaxStarts \in Nat
      /\ ticker = stopCh /\ ticker \in 0..starts /\ ticker \notin stopClosed /\ stopClosed \subseteq 1..starts
      /\ \A l \in Loops : (l > starts => loop[l] = "none") /\ (loop[l] = "select" => watches[l] # 0)
  BY UpdateCheckerAssumption DEF CheckerTyped, UCTypeOK, TickersNumbered, Loops
<1> USE DEF loopVars, optionVars, cacheVars, checkVars, settingVars, ghostVars
<1>1. CASE UNCHANGED <<loopVars, overtaken>>
  BY <1>1 DEF TickersNumbered, LoopsTakeTurns, LiveLoops
<1>2. ASSUME Started, ~overtaken' => ~overtaken /\ ticker = 0 /\ \A l \in Loops : loop[l] # "check"
      PROVE TickersNumbered' /\ (~overtaken => LoopsTakeTurns)'
  <2>1. PICK n \in Loops : /\ starts' = n /\ n = starts + 1
                           /\ ticker' = n /\ stopCh' = n /\ loop'[n] = "check"
                           /\ \A l \in Loops : l # n => loop'[l] = loop[l]
                           /\ UNCHANGED <<stopClosed, watches>>
    BY <1>2, StartedIs
  <2>2. TickersNumbered'
    <3>1. n \in Nat /\ ticker' \in 0..starts' /\ stopClosed' \subseteq 1..starts'
            /\ ticker' \notin stopClosed'
      <4>1. starts \in Nat /\ \A x \in stopClosed : x \in 1..starts
        BY <1>0
      <4> QED
        BY <2>1, <4>1
    <3>2. \A l \in Loops : (l > n => loop'[l] = "none") /\ (loop'[l] = "select" => watches'[l] # 0)
      BY <1>0, <2>1, <3>1
    <3> QED
      BY <2>1, <3>1, <3>2 DEF TickersNumbered
  <2>3. ASSUME ~overtaken', NEW l \in Loops, l # n, loop[l] = "select" PROVE watches[l] \in stopClosed
    BY <1>0, <1>2, <2>3 DEF LoopsTakeTurns
  <2>4. ASSUME ~overtaken' PROVE LiveLoops' \subseteq {n}
    BY <1>2, <2>1, <2>3, <2>4 DEF LiveLoops
  <2>5. ASSUME ~overtaken' PROVE LoopsTakeTurns'
    BY <2>1, <2>3, <2>4, <2>5 DEF LoopsTakeTurns
  <2> QED
    BY <2>2, <2>5
<1>3. CASE StartChecker
  <2>1. starts = 0 /\ Started /\ overtaken' = overtaken
    BY <1>3 DEF StartChecker
  <2>2. ticker = 0 /\ \A l \in Loops : loop[l] = "none"
    BY <1>0, <2>1 DEF Loops
  <2> QED
    BY <1>2, <2>1, <2>2
<1>4. ASSUME NEW c \in Clients, StartAgain(c) PROVE TickersNumbered' /\ (~overtaken => LoopsTakeTurns)'
  <2>1. /\ overtaken' = (overtaken \/ halted \/ ticker # 0 \/ \E l \in Loops : loop[l] = "check")
        /\ IF ticker = 0 THEN Started ELSE UNCHANGED loopVars
    BY <1>4 DEF StartAgain
  <2>2. CASE ticker = 0
    BY <1>2, <2>1, <2>2
  <2>3. CASE ticker # 0
    <3>1. UNCHANGED loopVars /\ overtaken'
      BY <2>1, <2>3
    <3> QED
      BY <1>0, <3>1 DEF TickersNumbered
  <2> QED
    BY <2>2, <2>3
<1>5. ASSUME NEW l \in Loops, UNCHANGED <<ticker, stopCh, starts, stopClosed, overtaken>>,
             \A m \in Loops : m # l => loop'[m] = loop[m] /\ watches'[m] = watches[m],
             loop[l] # "none",
             loop'[l] = "select" => watches'[l] = stopCh /\ stopCh # 0,
             loop'[l] \in {"check", "select"} => l \in LiveLoops
      PROVE TickersNumbered' /\ (~overtaken => LoopsTakeTurns)'
  <2>1. TickersNumbered'
    BY <1>0, <1>5 DEF TickersNumbered
  <2>2. LiveLoops' \subseteq LiveLoops
    BY <1>5 DEF LiveLoops
  <2> QED
    BY <1>5, <2>1, <2>2 DEF LoopsTakeTurns
<1>6. ASSUME NEW l \in Loops, ReadTicker(l) PROVE TickersNumbered' /\ (~overtaken => LoopsTakeTurns)'
  BY <1>0, <1>5, <1>6 DEF ReadTicker, LiveLoops
<1>7. ASSUME NEW l \in Loops, TickerFires(l) PROVE TickersNumbered' /\ (~overtaken => LoopsTakeTurns)'
  BY <1>0, <1>5, <1>7 DEF TickerFires, LiveLoops
<1>8. ASSUME NEW l \in Loops, StopSeen(l) \/ LoopEnds(l) PROVE TickersNumbered'
        /\ (~overtaken => LoopsTakeTurns)'
  BY <1>0, <1>5, <1>8 DEF StopSeen, LoopEnds
<1>9. ASSUME ticker' = 0, stopCh' = 0, stopClosed' = stopClosed \cup ({stopCh} \ {0}),
             UNCHANGED <<starts, loop, watches>>, ~overtaken' => ~overtaken
      PROVE TickersNumbered' /\ (~overtaken => LoopsTakeTurns)'
  <2>1. TickersNumbered'
    BY <1>0, <1>9 DEF TickersNumbered
  <2>2. LiveLoops' \subseteq LiveLoops
    BY <1>9 DEF LiveLoops
  <2> QED
    BY <1>0, <1>9, <2>1, <2>2 DEF LoopsTakeTurns
<1>10. CASE StopChecker
  BY <1>9, <1>10 DEF StopChecker
<1>11. ASSUME NEW c \in Clients, RestartTicker(c) PROVE TickersNumbered' /\ (~overtaken => LoopsTakeTurns)'
  BY <1>0, <1>9, <1>11 DEF RestartTicker
<1>12. ASSUME NEW c \in Checkers, CheckStep(c) \/ CheckNow(c) PROVE TickersNumbered'
         /\ (~overtaken => LoopsTakeTurns)'
  BY <1>1, <1>12 DEF CheckStep, CheckNow, EnterCheck, ReadETag, Answered, NotModified, FetchFails, EndCheck
<1>13. CASE Release \/ UNCHANGED ucVars \/ \E c \in Clients, pre \in BOOLEAN,
         hours \in {1, 2} : SetOptions(c, pre, hours)
  BY <1>1, <1>13 DEF Release, ucVars, SetOptions
<1> QED
  BY <1>3, <1>4, <1>6, <1>7, <1>8, <1>10, <1>11, <1>12, <1>13 DEF UCNext, LoopStep, SettingStep

\* Every step preserves the invariant.
LEMMA CheckerStep == CheckerStrong /\ [UCNext]_ucVars => CheckerStrong'
BY CheckerTypes, CacheKept, TurnsKept DEF CheckerStrong

--------------------------------------------------------------------------------
(* The update of the application.                                          *)

Copies == Versions \cup {Nothing, CutShort}

UpdateTyped == SUTypeOK /\ backups \in [Stamps -> Copies] /\ {bundle, volume, file} \subseteq Copies

\* One download and one installation run at a time, and only in an application that runs.
OneOfEach ==
  /\ dlInFlight <=> download # "idle"
  /\ inInFlight <=> install # "idle"
  /\ install # "idle" => alive
  /\ download # "idle" => dlStatus \in {"resolving", "downloading"}
  /\ install \in {"validate", "backup", "copy", "copying"} => volume = "new"

\* What is on the disk at each step of the installation.
DiskAtSteps ==
  /\ install \in {"backup", "cleaning", "restart"} => bundle \in Versions
  /\ bundle = CutShort => ~alive \/ install = "copying"
  /\ install \in {"copy", "copying", "cleaning"} => backups[stamp] \in Versions /\ stamp \notin cleaners
  /\ \A s \in cleaners : backups[s] # Nothing
  /\ bundle \in Versions \/ (backups[stamp] \in Versions /\ stamp \notin cleaners)

\* What is left when nothing failed twice.
NoTraceAtSteps ==
  /\ install \notin {"copy", "copying"} => bundle \in Versions
  /\ download # "copy" => file # CutShort
  /\ dlStatus = "completed" => file = "new"

UpdateStrong == UpdateTyped /\ OneOfEach /\ DiskAtSteps /\ (~spoiled => NoTraceAtSteps)

\* The asset that comes first is one of those it is taken from, and there is one if any of
\* them is supported.
LEMMA FirstByExtensionIs ==
  ASSUME NEW assets \in AssetLists, NEW those \in SUBSET DOMAIN assets
  PROVE  /\ \/ FirstByExtension(assets, those) = NoAsset
            \/ \E i \in those : IsSupported(assets[i]) /\ FirstByExtension(assets, those) = assets[i]
         /\ \A i \in those : IsSupported(assets[i]) => FirstByExtension(assets, those) # NoAsset
<1> DEFINE OfExt(e) == {i \in those : IsSupported(assets[i]) /\ assets[i].ext = Extensions[e]}
           exts == {e \in DOMAIN Extensions : OfExt(e) # {}}
<1>1. FirstByExtension(assets, those) = IF exts = {} THEN NoAsset ELSE assets[Min(OfExt(Min(exts)))]
  BY DEF FirstByExtension
<1>2. DOMAIN assets \subseteq Nat /\ DOMAIN Extensions \subseteq Nat
  BY SelfUpdateAssumption DEF Extensions
<1>3. CASE exts = {}
  <2>1. \A i \in those : ~IsSupported(assets[i])
    <3> SUFFICES ASSUME NEW i \in those, IsSupported(assets[i]) PROVE FALSE
      OBVIOUS
    <3>1. \E e \in DOMAIN Extensions : Extensions[e] = assets[i].ext
      BY DEF IsSupported, ToSet
    <3> QED
      BY <1>3, <3>1
  <2> QED
    BY <1>1, <1>3, <2>1
<1>4. CASE exts # {}
  <2>1. PICK e \in exts : e = Min(exts)
    BY <1>2, <1>4, LeastIs
  <2>2. PICK i \in OfExt(e) : i = Min(OfExt(e))
    BY <1>2, <2>1, LeastIs
  <2>3. FirstByExtension(assets, those) = assets[i] /\ i \in those /\ IsSupported(assets[i])
    BY <1>1, <1>4, <2>1, <2>2
  <2>4. NoAsset.ext = "none" /\ assets[i].ext # "none"
    BY <2>3 DEF NoAsset, IsSupported, ToSet, Extensions
  <2> QED
    BY <2>3, <2>4
<1> QED
  BY <1>3, <1>4

\* The asset that is chosen fits the machine whenever one does.
LEMMA AssetsFit == AssetFits
<1> SUFFICES ASSUME NEW assets \in AssetLists
             PROVE /\ {a \in ToSet(assets) : IsSupported(a) /\ a.arch = Arch} # {} =>
                        SelectReleaseAsset(assets, NoAsset).arch = Arch
                   /\ SelectReleaseAsset(assets, NoAsset) # NoAsset =>
                        ~SelectReleaseAsset(assets, NoAsset).universal
  BY DEF AssetFits
<1> DEFINE here == {i \in DOMAIN assets : assets[i].arch = Arch}
           ofArch == FirstByExtension(assets, here)
           any == FirstByExtension(assets, DOMAIN assets)
<1>1. ~IsSupported(NoAsset)
  BY DEF IsSupported, NoAsset, ToSet, Extensions
<1>2. SelectReleaseAsset(assets, NoAsset) = IF ofArch # NoAsset THEN ofArch ELSE any
  BY <1>1 DEF SelectReleaseAsset
<1>3. /\ ofArch = NoAsset \/ \E i \in here : IsSupported(assets[i]) /\ ofArch = assets[i]
      /\ \A i \in here : IsSupported(assets[i]) => ofArch # NoAsset
  BY FirstByExtensionIs
<1>4. any = NoAsset \/ \E i \in DOMAIN assets : IsSupported(assets[i]) /\ any = assets[i]
  BY FirstByExtensionIs
<1>5. ofArch # NoAsset => ofArch.arch = Arch /\ ~ofArch.universal
  BY <1>3 DEF IsSupported
<1>6. any # NoAsset => ~any.universal
  BY <1>4 DEF IsSupported
<1>7. ASSUME NEW a \in ToSet(assets), IsSupported(a), a.arch = Arch PROVE ofArch # NoAsset
  <2>1. PICK i \in DOMAIN assets : a = assets[i]
    BY DEF ToSet
  <2> QED
    BY <1>3, <1>7, <2>1
<1> QED
  BY <1>2, <1>5, <1>6, <1>7

\* The first state.
LEMMA UpdateBegins == SUInit => UpdateStrong
<1> SUFFICES ASSUME SUInit PROVE UpdateStrong
  OBVIOUS
<1> USE SelfUpdateAssumption DEF SUInit, Versions
<1>1. UpdateTyped
  <2>1. updates \in 0..MaxUpdates
    OBVIOUS
  <2> QED
    BY <2>1 DEF UpdateTyped, SUTypeOK, Copies
<1>2. OneOfEach /\ DiskAtSteps /\ NoTraceAtSteps
  BY DEF OneOfEach, DiskAtSteps, NoTraceAtSteps
<1> QED
  BY <1>1, <1>2 DEF UpdateStrong

\* The invariant says what UpdateInv asks.
LEMMA UpdateHolds == UpdateStrong => UpdateInv
<1> SUFFICES ASSUME UpdateStrong PROVE UpdateInv
  OBVIOUS
<1>1. WholeCopyExists
  BY DEF UpdateStrong, DiskAtSteps, WholeCopyExists, UpdateTyped, SUTypeOK
<1>2. FailureLeavesNoTrace
  BY DEF UpdateStrong, NoTraceAtSteps, FailureLeavesNoTrace
<1> QED
  BY <1>1, <1>2, AssetsFit DEF UpdateStrong, UpdateTyped, UpdateInv

\* The variables keep their types.
LEMMA UpdateTypes == UpdateTyped /\ [SUNext]_suVars => UpdateTyped'
<1> SUFFICES ASSUME UpdateTyped, [SUNext]_suVars PROVE UpdateTyped'
  OBVIOUS
<1> USE SelfUpdateAssumption DEF UpdateTyped, SUTypeOK, downloadVars, installVars, diskVars
<1>0. Nothing \in Copies /\ CutShort \in Copies /\ "new" \in Copies
  BY DEF Copies, Versions
<1>1. CASE UNCHANGED suVars
  BY <1>1 DEF suVars, Copies
<1>2. ASSUME {dlInFlight', inInFlight', alive', spoiled'} \subseteq BOOLEAN, updates' \in 0..MaxUpdates,
             download' \in {"idle", "resolve", "create", "copy"},
             dlStatus' \in {"idle", "resolving", "downloading", "completed", "failed"},
             install' \in {"idle", "open", "validate", "backup", "copy", "copying", "cleaning", "restart"},
             {bundle', volume', file'} \subseteq Copies, backups' \in [Stamps -> Copies],
             cleaners' \subseteq Stamps, {clock', stamp'} \subseteq Stamps
      PROVE UpdateTyped'
  BY <1>2 DEF Copies
<1>3. CASE StartDownload \/ StartInstall
  <2>1. updates' \in 0..MaxUpdates
    BY <1>3 DEF StartDownload, StartInstall
  <2> QED
    BY <1>0, <1>2, <1>3, <2>1 DEF StartDownload, StartInstall
<1>4. CASE ResolveAsset \/ CreateTempFile \/ DownloadFails \/ DownloadCompletes
  BY <1>0, <1>2, <1>4 DEF ResolveAsset, CreateTempFile, DownloadFails, DownloadCompletes
<1>5. CASE OpenSource \/ FindBundles \/ CopyBegins \/ CopyBundle \/ ScheduleCleanup
  BY <1>0, <1>2, <1>5 DEF OpenSource, FindBundles, CopyBegins, CopyBundle, ScheduleCleanup, InstallTo
<1>6. CASE OpenFails \/ FindFails \/ BackUpFails \/ RestartFails \/ Restart
  BY <1>0, <1>2, <1>6 DEF OpenFails, FindFails, BackUpFails, RestartFails, Restart, InstallFails
<1>7. CASE BackUp
  <2>1. backups' \in [Stamps -> Copies]
    BY <1>7 DEF BackUp
  <2> QED
    BY <1>0, <1>2, <1>7, <2>1 DEF BackUp, InstallTo
<1>8. CASE CopyFails
  <2>a. stamp \in Stamps /\ backups[stamp] \in Copies
    OBVIOUS
  <2>b. \/ bundle' = backups[stamp] /\ backups' = [backups EXCEPT ![stamp] = Nothing] /\ spoiled' = spoiled
        \/ bundle' = Nothing /\ spoiled' = TRUE /\ backups' = backups
    BY <1>8 DEF CopyFails
  <2>1. backups' \in [Stamps -> Copies] /\ bundle' \in Copies /\ spoiled' \in BOOLEAN
    BY <1>0, <2>a, <2>b
  <2> QED
    BY <1>0, <1>2, <1>8, <2>1 DEF CopyFails, InstallFails
<1>9. ASSUME NEW s \in Stamps, CleanBackup(s) PROVE UpdateTyped'
  <2>1. backups' \in [Stamps -> Copies]
    BY <1>0, <1>9 DEF CleanBackup
  <2> QED
    BY <1>2, <1>9, <2>1 DEF CleanBackup
<1>10. CASE ApplicationDies \/ ApplicationStarts \/ SecondPasses
  BY <1>2, <1>10 DEF ApplicationDies, ApplicationStarts, SecondPasses
<1> QED
  BY <1>1, <1>3, <1>4, <1>5, <1>6, <1>7, <1>8, <1>9, <1>10 DEF SUNext

\* One download and one installation run.
LEMMA OneOfEachKept == UpdateTyped /\ OneOfEach /\ [SUNext]_suVars => OneOfEach'
<1> SUFFICES ASSUME UpdateTyped, OneOfEach, [SUNext]_suVars PROVE OneOfEach'
  OBVIOUS
<1> USE DEF OneOfEach, downloadVars, installVars, diskVars
<1>0. {dlInFlight, inInFlight, alive} \subseteq BOOLEAN
  BY DEF UpdateTyped, SUTypeOK
<1>1. CASE UNCHANGED suVars
  BY <1>1 DEF suVars
<1>2. CASE StartDownload \/ ResolveAsset \/ CreateTempFile \/ DownloadFails \/ DownloadCompletes
  BY <1>2 DEF StartDownload, ResolveAsset, CreateTempFile, DownloadFails, DownloadCompletes
<1>3. CASE StartInstall \/ OpenSource \/ FindBundles \/ BackUp \/ CopyBegins
  BY <1>3 DEF StartInstall, OpenSource, FindBundles, BackUp, CopyBegins, InstallTo
<1>4. CASE CopyBundle \/ ScheduleCleanup
  BY <1>4 DEF CopyBundle, ScheduleCleanup, InstallTo
<1>5. CASE OpenFails \/ FindFails \/ BackUpFails \/ CopyFails \/ RestartFails
  BY <1>5 DEF OpenFails, FindFails, BackUpFails, CopyFails, RestartFails, InstallFails
<1>6. CASE Restart \/ ApplicationDies \/ ApplicationStarts \/ SecondPasses \/ \E s \in Stamps : CleanBackup(s)
  BY <1>6 DEF Restart, ApplicationDies, ApplicationStarts, SecondPasses, CleanBackup
<1> QED
  BY <1>1, <1>2, <1>3, <1>4, <1>5, <1>6 DEF SUNext

\* The disk keeps a whole copy.
LEMMA DiskKept == UpdateTyped /\ OneOfEach /\ DiskAtSteps /\ [SUNext]_suVars => DiskAtSteps'
<1> SUFFICES ASSUME UpdateTyped, OneOfEach, DiskAtSteps, [SUNext]_suVars PROVE DiskAtSteps'
  OBVIOUS
<1> USE DEF downloadVars, installVars, diskVars
<1>0. /\ bundle \in Copies /\ backups \in [Stamps -> Copies] /\ cleaners \subseteq Stamps
      /\ stamp \in Stamps /\ clock \in Stamps /\ "new" \in Versions
      /\ Nothing \notin Versions /\ CutShort \notin Versions /\ Nothing # CutShort
  BY SelfUpdateAssumption DEF UpdateTyped, SUTypeOK, Copies, Versions
<1>1. CASE UNCHANGED <<bundle, backups, cleaners, stamp, install, alive>>
  BY <1>1 DEF DiskAtSteps
<1>2. CASE UNCHANGED <<bundle, backups, cleaners, stamp, alive>> /\ install' \in {"idle", "open", "validate"}
           /\ install # "copying"
  BY <1>2 DEF DiskAtSteps
<1>3. CASE \/ UNCHANGED suVars \/ StartDownload \/ ResolveAsset \/ CreateTempFile \/ DownloadFails
           \/ DownloadCompletes \/ SecondPasses
  BY <1>1, <1>3 DEF suVars, StartDownload, ResolveAsset, CreateTempFile, DownloadFails,
     DownloadCompletes, SecondPasses
<1>4. CASE StartInstall
  BY <1>0, <1>2, <1>4 DEF StartInstall, OneOfEach
<1>5. CASE OpenSource \/ OpenFails \/ FindFails \/ BackUpFails \/ RestartFails \/ Restart
  BY <1>2, <1>5 DEF OpenSource, OpenFails, FindFails, BackUpFails, RestartFails, Restart, InstallTo,
     InstallFails
<1>6. CASE FindBundles
  <2>1. bundle \in Versions
    BY <1>0, <1>6 DEF FindBundles, DiskAtSteps, OneOfEach, Copies
  <2> QED
    BY <1>6, <2>1 DEF FindBundles, DiskAtSteps, InstallTo
<1>7. CASE BackUp
  <2>1. bundle \in Versions /\ clock \notin cleaners
    BY <1>7 DEF BackUp, DiskAtSteps
  <2>2. /\ stamp' = clock /\ bundle' = Nothing /\ install' = "copy" /\ cleaners' = cleaners
        /\ backups'[clock] = bundle /\ \A s \in Stamps : s # clock => backups'[s] = backups[s]
    BY <1>0, <1>7 DEF BackUp, InstallTo
  <2> QED
    BY <1>0, <2>1, <2>2 DEF DiskAtSteps
<1>8. CASE CopyBegins
  <2>1. /\ install = "copy" /\ install' = "copying" /\ bundle' = CutShort
        /\ UNCHANGED <<stamp, backups, cleaners>>
    BY <1>8 DEF CopyBegins, InstallTo
  <2> QED
    BY <2>1 DEF DiskAtSteps
<1>9. CASE CopyBundle
  <2>1. /\ install = "copying" /\ install' = "cleaning" /\ bundle' = "new"
        /\ UNCHANGED <<stamp, backups, cleaners>>
    BY <1>9 DEF CopyBundle, InstallTo, OneOfEach
  <2> QED
    BY <1>0, <2>1 DEF DiskAtSteps
<1>10. CASE CopyFails
  <2>1. /\ backups[stamp] \in Versions /\ stamp \notin cleaners /\ install' = "idle"
        /\ UNCHANGED <<stamp, cleaners>>
    BY <1>10 DEF CopyFails, InstallFails, DiskAtSteps
  <2>2. CASE bundle' = backups[stamp] /\ backups' = [backups EXCEPT ![stamp] = Nothing]
    BY <1>0, <2>1, <2>2 DEF DiskAtSteps
  <2>3. CASE bundle' = Nothing /\ backups' = backups
    BY <1>0, <2>1, <2>3 DEF DiskAtSteps
  <2> QED
    BY <1>10, <2>2, <2>3 DEF CopyFails
<1>11. CASE ScheduleCleanup
  <2>1. /\ install = "cleaning" /\ install' = "restart" /\ cleaners' \subseteq cleaners \cup {stamp}
        /\ UNCHANGED <<stamp, bundle, backups, alive>>
    BY <1>11 DEF ScheduleCleanup, InstallTo
  <2> QED
    BY <1>0, <2>1 DEF DiskAtSteps
<1>12. ASSUME NEW s \in Stamps, CleanBackup(s) PROVE DiskAtSteps'
  <2>1. /\ s \in cleaners /\ cleaners' = cleaners \ {s} /\ UNCHANGED <<stamp, bundle, install, alive>>
        /\ \A x \in Stamps : x # s => backups'[x] = backups[x]
    BY <1>0, <1>12 DEF CleanBackup
  <2> QED
    BY <1>0, <2>1 DEF DiskAtSteps
<1>13. CASE ApplicationDies
  <2>1. ~alive' /\ install' = "idle" /\ UNCHANGED <<stamp, bundle, backups, cleaners>>
    BY <1>13 DEF ApplicationDies
  <2> QED
    BY <2>1 DEF DiskAtSteps
<1>14. CASE ApplicationStarts
  <2>1. bundle \in Versions /\ UNCHANGED <<stamp, bundle, backups, cleaners, install>>
    BY <1>14 DEF ApplicationStarts
  <2> QED
    BY <1>0, <2>1 DEF DiskAtSteps
<1> QED
  BY <1>3, <1>4, <1>5, <1>6, <1>7, <1>8, <1>9, <1>10, <1>11, <1>12, <1>13, <1>14 DEF SUNext

\* What failed leaves no trace.
LEMMA NoTraceKept ==
  UpdateTyped /\ OneOfEach /\ DiskAtSteps /\ (~spoiled => NoTraceAtSteps) /\ [SUNext]_suVars
    => (~spoiled => NoTraceAtSteps)'
<1> SUFFICES ASSUME UpdateTyped, OneOfEach, DiskAtSteps, ~spoiled => NoTraceAtSteps,
      [SUNext]_suVars, ~spoiled'
             PROVE NoTraceAtSteps'
  OBVIOUS
<1> USE DEF downloadVars, installVars, diskVars
<1>0. /\ spoiled \in BOOLEAN /\ "new" \in Versions /\ Nothing # CutShort /\ "new" # CutShort
  BY SelfUpdateAssumption DEF UpdateTyped, SUTypeOK, Versions
<1>1. CASE UNCHANGED suVars \/ SecondPasses \/ ApplicationStarts \/ \E s \in Stamps : CleanBackup(s)
  BY <1>1 DEF suVars, SecondPasses, ApplicationStarts, CleanBackup, NoTraceAtSteps
<1>2. CASE StartDownload \/ ResolveAsset \/ CreateTempFile \/ DownloadFails \/ DownloadCompletes
  BY <1>0, <1>2 DEF StartDownload, ResolveAsset, CreateTempFile, DownloadFails, DownloadCompletes,
     NoTraceAtSteps, OneOfEach
<1>3. CASE StartInstall \/ OpenSource \/ FindBundles \/ ScheduleCleanup
  BY <1>3 DEF StartInstall, OpenSource, FindBundles, ScheduleCleanup, InstallTo, NoTraceAtSteps, OneOfEach
<1>4. CASE BackUp \/ CopyBegins
  BY <1>4 DEF BackUp, CopyBegins, InstallTo, NoTraceAtSteps
<1>5. CASE CopyBundle
  BY <1>0, <1>5 DEF CopyBundle, InstallTo, NoTraceAtSteps, OneOfEach
<1>6. CASE CopyFails
  BY <1>6 DEF CopyFails, InstallFails, NoTraceAtSteps, DiskAtSteps
<1>7. CASE OpenFails \/ FindFails \/ BackUpFails \/ RestartFails
  BY <1>7 DEF OpenFails, FindFails, BackUpFails, RestartFails, InstallFails, NoTraceAtSteps
<1>8. CASE Restart \/ ApplicationDies
  BY <1>0, <1>8 DEF Restart, ApplicationDies, NoTraceAtSteps
<1> QED
  BY <1>1, <1>2, <1>3, <1>4, <1>5, <1>6, <1>7, <1>8 DEF SUNext

\* Every step preserves the invariant.
LEMMA UpdateStep == UpdateStrong /\ [SUNext]_suVars => UpdateStrong'
BY UpdateTypes, OneOfEachKept, DiskKept, NoTraceKept DEF UpdateStrong

--------------------------------------------------------------------------------
(* The gateway, and the application.                                       *)

GatewayStrong == RuntimeStrong /\ PoolStrong /\ ChildStrong
ApplicationStrong == DeskStrong /\ CheckerStrong /\ UpdateStrong

\* A step is one component's, and the others rest.
LEMMA OneComponentSteps ==
  [Next]_vars =>
    /\ [GSNext]_gsVars /\ [GPNext]_gpVars /\ [GPSNext]_gpsVars
    /\ [DMNext]_dmVars /\ [UCNext]_ucVars /\ [SUNext]_suVars
BY DEF Next, vars

\* A goroutine of a runtime waits for its connection only while another one dials, the
\* pool forgets no runtime that may run, and no child process outlives its core or serves
\* settings that are no longer in force: GatewayInv.
THEOREM GatewayHolds == Spec => []GatewayInv
<1>1. Init => GatewayStrong
  BY RuntimeBegins, PoolBegins, ChildBegins DEF Init, GatewayStrong
<1>2. GatewayStrong /\ [Next]_vars => GatewayStrong'
  BY OneComponentSteps, RuntimeStep, PoolStep, ChildStep DEF GatewayStrong
<1>3. GatewayStrong => GatewayInv
  BY RuntimeHolds, PoolHolds, ChildHolds DEF GatewayStrong, GatewayInv
<1> QED
  BY <1>1, <1>2, <1>3, PTL DEF Spec

\* One core is served at a time and the window shows it, the checker caches what its etag
\* stands for and has one loop, and an update that fails or is cut short leaves a whole copy
\* of the application; each but for the orders of steps that its ghosts mark: ApplicationInv.
THEOREM ApplicationHolds == Spec => []ApplicationInv
<1>1. Init => ApplicationStrong
  BY DeskBegins, CheckerBegins, UpdateBegins DEF Init, ApplicationStrong
<1>2. ApplicationStrong /\ [Next]_vars => ApplicationStrong'
  BY OneComponentSteps, DeskStep, CheckerStep, UpdateStep DEF ApplicationStrong
<1>3. ApplicationStrong => ApplicationInv
  BY DeskHolds, CheckerHolds, UpdateHolds DEF ApplicationStrong, ApplicationInv
<1> QED
  BY <1>1, <1>2, <1>3, PTL DEF Spec

================================================================================
