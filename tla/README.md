# Verification of mcpv

TLA+ models of the concurrent core of mcpv, of the gateway and of the desktop application beside it,
model-checked with TLC and proved with TLAPS. The code is the reference: every definition that
stands for code is listed in `PROJECT.json` ("map") with the lines it models, and the models describe
what the code does, its faults included. Where the code disagrees with its own documentation a run
shows it (*Findings*); where it has a weakness that no document denies, a history variable of
the model marks the states concerned and the property says "unless".

Contents: the system; the modules; the runs; the findings; the proofs; what is only model-checked;
what is left out; the plan.

## 1. The system

mcpv keeps MCP servers (external processes or HTTP endpoints) behind one control plane. A *catalog*
(the config file) lists servers and plugins; equal server definitions share one *spec key*. *Clients*
(editors, agents) register with the control plane, which makes visible to them the servers their
tags select; the scheduler starts, leases and stops *instances*. A *gateway* offers the same lists to
MCP clients of its own, over RPC; the desktop application runs a core and a gateway process.

| Component | State | Operations | Talks to | Module |
|---|---|---|---|---|
| Scheduler pool (`infra/scheduler`) | per spec key: instances, draining ones, sticky bindings, minReady, starting, generation, start gate, waiters | Acquire, AcquireReady, Release, SetDesiredMinReady, StopSpec, reaping, pings, drains | lifecycle manager | `SchedulerPool`, `InstanceLease` |
| Table of pools | the map of pools, the spec registry | ApplyCatalogDiff, getPool, tryRemovePool, StopAll | pools | `PoolTable` |
| Client registry (`controlplane/registry`) | clients, selectors, visible specs, a count per spec | Register, Unregister, reaping, ApplyCatalogUpdate | init manager, scheduler | `ClientRegistry` |
| Change notices, discovery watches, RPC streams, gateway mirrors | channels of one, etags | broadcast, Watch, filter, relay, sync | each other | `SnapshotWatch` |
| Server init manager (`bootstrap/serverinit`) | target and status per spec, workers | Start, Stop, SetMinReady, RetrySpec, ApplyCatalogState, the workers | scheduler | `ServerInit` |
| Catalog provider and reload manager | snapshot, revision, the transaction | Reload, Watch, the run loop with rollback | all that hold a part of the catalog | `CatalogReload` |
| Catalog editor | the config file | toggles, updates, deletions, imports | provider | `CatalogEditor` |
| Pipeline, governance, plugins | plugin processes, the engine's list | Handle, Apply, Stop | plugin processes | `PluginPipeline` |
| Tasks | tasks, their order, expiry | Create, Get, List, Result, Cancel, purge | the runner of a call | `TaskManager` |
| Transports | pending calls of a connection | Call, the read loop, Close | servers | `ServerConnection` |
| Lifecycle manager | processes, contexts | StartInstance, StopInstance | transports, launcher | `InstanceProcess` |
| Metadata bootstrap | progress, errors, cache | Bootstrap, BootstrapSpecKeys | scheduler | `MetadataBootstrap` |
| Aggregator indexes | a list per server, snapshot, failures, loops | Refresh, UpdateSpecs, Start, Stop | router | `IndexRefresh`, `IndexLifecycle` |
| Statuses, logs, diagnostics | snapshots, subscribers, rings | Watch, broadcast, sessions | window, RPC | `StatusWatch`, `LogStream` |
| Observability endpoint, RPC server | a listener each | Apply, Run, Stop | clients | `ObservabilityServer`, `RpcServer` |
| Application | what runs, in which order | Run, shutdown | everything | `AppLifecycle` |
| Gateway (`infra/gateway`) | runtimes by selector, one connection, mirrors | Get, evictIdle, Close; syncers, heartbeat | RPC | `GatewayPool`, `GatewaySync` |
| Desktop application (`ui`) | core, gateway process, checker, updates | Start, Stop, Restart, settings, download, install | core, gateway, GitHub | `DesktopManager`, `GatewayProcess`, `UpdateChecker`, `SelfUpdate` |
| Router, caches, catalog loading, sampling, elicitation, subagent, commands | – | conversions, tables, single critical sections | – | not modelled |

**Hard behaviours.** The scheduler drops its lock while a server starts, stops or answers a ping, so
everything it decided may be stale when it takes the lock again. The registry and the init manager decide
under a lock and act outside it. Reloads travel through a channel that drops what does not fit, are
applied step by step and rolled back when a step fails, while further reloads are published. Snapshots
pass four goroutines whose channels hold one. Timers (drain, idle, retry, debounce, expiry) race the calls
they wait for. The config file is the only thing the core persists; the desktop application also
replaces its own bundle on the disk, where a crash between two steps is part of the model.

**What makes each component correct** is said by its invariants, next to the code they are about; the hazards,
each at its line and with the properties that would catch it, are in `PROJECT.json` ("hazards").

## 2. The modules

An action is a critical section, or a call made without a lock; whatever may step between two
sections in the code may step between two actions. Goroutines are sets of processes (`Callers`,
`Setters`, `Loops`, ...). Durations are abstracted: a timer may fire whenever it is set. Bounds on counters
are constants named `Max...` and stand in the guards.

### SchedulerPool — one pool

* `Acquire` is `AcquireHit`, `AcquireStickyBusy`, `AcquireWait`, `AcquireStart`; then `StartSucceeds`,
  `StartFails` (followed by `StartFailureSignalled`, the second clear of the gate) or `StartPanics`; then
  `AcquirePublish`, `AcquireReject` with `StopSuperseded`, or `StopDuplicate`.
* `SetDesiredMinReady` reserves all its starts in `SetMinReady` and runs its loop in the `Setter...` actions.
* `StopSpec` is `StopSpec`, `StopImmediate`, then per busy instance `OpenDrain` and `CheckDrain` (the channel
  is made after the lock was released), `StopSpecReturns`; `DrainWakes` and `DrainStops` are the drain
  goroutine, `CloseDrain` the `Release` that closes its channel.
* `ReapIdle`, `ReapStop`, `RemoveStopped`, `ExpireBindings` and `ProbeInstances`, `Ping`, `MarkFailed`,
  `StopFailed` are the two maintenance loops.

`busy` and `istate` are `Instance.busyCount` and `.state`; `live` is what the lifecycle manager holds a
connection of. `sync.Cond.Signal` wakes one waiter, any. The double unlock of `acquire.go:169` sets `crashed`,
after which nothing steps. History variables: `overtaken` (starts that a StopSpec overtook) and `leaked`
(reservations that a panic in `SetDesiredMinReady` never gave back: the deferred clean-up of
`lifecycle.go:42-77` returns one although the loop may still owe more, which
`basic_min_ready_test.go:26` does not see because it asks for one).

`InstanceLease` is the abstract promise: instances are launched, opened to clients, leased up to their
capacity, closed for good, and stopped. `ImplementsLease` is that specification under a refinement
mapping (`PhaseOf`; a lease is a caller that holds an instance).

### Around the clients: ClientRegistry, SnapshotWatch, PluginPipeline, TaskManager

* `ClientRegistry`: a registration reads the visible specs, `RegisterLocked` changes client and counts,
  `FilterStarts` reads the counts again in a second section and `StartSpec` calls the init manager spec by spec;
  `FilterStops` and `StopOne` likewise. `leftBehind` marks the specs that two new users counted to 2 at once, so
  that nobody started the server (`client_registry_activation.go:34` decides by `count == 1`).
* `SnapshotWatch` follows one snapshot from the index's broadcast through the client's filter, the RPC stream and
  the gateway's registry; every channel holds one. Ghosts name what may be lost: a sender that found the channel
  full, an etag taken for sent.
* `PluginPipeline`: `Apply` starts, replaces and stops plugin processes one by one, may fail anywhere and be undone;
  requests walk the list of the engine meanwhile; processes crash.
* `TaskManager`: the order of creation is kept as the set of earlier tasks of each, of which a position (`Place`)
  is the cardinality, and a page cursor such a position.

### ServerInit, CatalogReload, PoolTable, CatalogEditor

* `ServerInit`: a worker reads the target (`ReadTarget`), marks itself starting, calls the scheduler, looks at the
  pool, writes the outcome and decides (`Succeed`, `Suspend`, `WaitToRetry`). `missed` marks specs asked for while
  their worker had decided to end but was still registered (`manager.go:377`).
* `CatalogReload`: `EditFile` writes the file; `WatcherReloads` and `CallerLoads` enter `reloadMu`; `Publish` is
  snapshot, revision and the non-blocking send. The run loop takes an update, applies the steps its diff calls for
  and commits, or rolls back. `given` says which catalog each component was given last. `skewed` marks that an
  update's diff was taken against another catalog than the one the control plane ran, as after a rollback.
* `PoolTable`: the table of pools under catalog updates, calls, drains and `StopAll`, for one key.
* `CatalogEditor`: every operation as read, change, truncate, write; operations overlap and the process may end in
  between. Absent optional fields are what editor and loader read differently.

### Around the server processes: ServerConnection, InstanceProcess, MetadataBootstrap

* `ServerConnection`: calls with ids, of which some are constant ("bootstrap"), a read loop, calls of the server.
* `InstanceProcess`: `StartInstance` step by step with the caller's context, the application's and its own, and the
  callback between them; `late` marks the callback that read `detached` before it was set.
* `MetadataBootstrap`: goroutines with few slots borrow instances; reloads run incremental ones; spec keys may change
  under them.

### The services of a core

* `IndexRefresh`: one gate, fetches per server, the breaker (`failures`), updates of the specs that take no gate,
  rebuilds that copy and store in separate sections (`raced` marks that an older one came last).
* `IndexLifecycle`: tickers, stop channels and loops of `Start`, `Stop`, `Restart`.
* `StatusWatch` (twice in the code: `runtime_status_index.go`, `server_init_index.go`), `LogStream` with its relay,
  session and ring, `ObservabilityServer`, `RpcServer` on a port or a socket path shared by cores, `AppLifecycle` from
  the hand-out of the control plane to the return of `Run`.

### The gateway and the desktop application

* `GatewaySync`: one runtime whose syncers, log bridge and heartbeat share a connection that each of them closes when
  a call of its own fails; the core crashes and comes back. `GatewayPool`: runtimes are started outside the lock.
* `DesktopManager`: `Start`, `Stop`, `Restart`, `Shutdown` and the goroutine of a core, whose ends clear fields whoever
  they belong to by then. `GatewayProcess`: the child process and its reaper. `UpdateChecker`: loops, tickers, options
  and etags. `SelfUpdate`: download and installation, with the application ending at any point.

`MC...` modules put components side by side for TLC: `MCClientRegistry`, `MCCatalogReload`, `MCServers`, `MCServices`,
`MCDesktop`. The parts of such a group call only each other's finished operations, so a behaviour follows one part
(variable `part`, or a disjoint start) while the others rest in a state where no fair action is enabled: interleaving them
would multiply the states and add no behaviour of either.

## 3. The runs

Every property of a passing run has a mutant in `PROJECT.json`: a plausible bug of a mapped definition under
which TLC finds the property violated, so that none holds by construction.

| Run | Instance | Shows |
|---|---|---|
| `pool_stop` (657 308 states) | stateless, 2 callers, 1 setter that wants 2, StopSpec up to twice, 2 instances; failing and panicking starts, cancelled contexts | the inductive invariant `IInv`; `Accounting`; `Custody`: no process leaks, no drain is lost; `NoLateWriteback`; the pool implements `InstanceLease` |
| `pool_maintain` (1 691 022) | stateful, 2 callers, 2 slots, 1 routing key, reaper, prober, StopSpec, failing stops | `Routing`: what may be handed out runs, bindings end with their instance; `NoStopWhileLeased` |
| `pool_live` | singleton with 2 slots, 2 callers, setter, StopSpec, fair | `SingleFlight`, `MinReadyEnsured`, `WaitersWake`, `DrainsEnd` |
| `registry` (2 411 328) | 2 goroutines, 2 clients, 2 servers, a reload; 2 versions of a list; 3 plugins, 1 reload; 2 tasks, 2 owners | `CountsMatch`, `ActiveIffUsed`, `StreamInv`, `PluginInv`, `TaskInv`, `OutcomeIsFinal` |
| `server_init` | 1 spec, 2 callers, 2 retries, fair | `PendingIsDriven`, `StopEndsWorkers`, `UnwantedWorkerEnds` |
| `reload` (379 147) | 1 caller, the watcher, 3 edits, 4 catalogs, faults in each step and in the undo; 2 pools, 2 diffs; 2 editors | `AgreeUnlessSkewed`, `RevisionsAgree`, `ReloadEnds`, `PoolTableInv`, `RemovedSpecEnds`, `EditorInv` |
| `servers` (234 787) | 3 calls, 2 of one id; 1 instance, 2 stops, 2 attempts; 2 specs, 1 slot, 1 reload | `ConnectionInv`, `ProcessInv`, `BootstrapInv`, `DetachedFromCaller`, `ServersSettle` |
| `services` (270 637) | 1 server, 2 refreshers, 3 loops; 1 key; 3 entries, 2 sessions; 2 addresses; 2 cores | `IndexInv`, `WatchInv`, `CoreInv`, `ServicesSettle` |
| `desktop` (413 536) | 1 paged syncer, 1 crash; 2 selectors, 3 runtimes; 2 processes; 2 cores; 2 loops; 4 updates | `GatewayInv`, `ApplicationInv`, `DesktopSettles` |
| `pool_waiter`, `pool_duplicate`, `edit_required` | small | one finding each (violations) |

**Bounds and why they are enough.** A critical section involves one goroutine and the objects it shares with one
other, so two processes of a kind meet every race of two; a third is there where one waits, one starts and one takes
the gate in between. Two instances give a drained and a fresh one, `MaxGeneration` 2 lets a start be overtaken twice.
`pool_maintain` has the constraint `SettersFirst` (a setter works only before any StopSpec or probe; `pool_stop` has
setters against stops in full). Two clients make counts above one, two servers a selection that changes. `MaxRetries` 2 lets a worker
both retry and give up. Three edits fill the channel behind an update that is being applied, so that one is
dropped; the four catalogs make an update of servers and plugins, one of the mode only, one of all, and one that
needs a restart. Channels and rings have capacity 1 or 2, so that they overflow. Symmetry is used only where no
liveness is checked, over sets that nothing orders. What the bounds leave open the theorems close: they hold for every value of the
constants.

**Fairness.** A goroutine inside a call goes on (weak fairness per goroutine, Go's scheduler), and starts, stops,
pings and RPC calls return, which their timeouts ensure; a caller that waits on a condition variable is *not*
scheduled until it is signalled. Nothing makes a holder wait, call again, edit the file or press a button. A goroutine
whose `select` has two ready cases again and again takes each sometimes (strong fairness of `Cancelled` in
ServerInit, of `Wake` in GatewaySync). Liveness of a group is one formula over its parts, since a behaviour follows one.

`CHECK_DEADLOCK FALSE` stands where the system really stops: the double unlock, the strict mode that ends the
process, a part that has reached its bounds and is at rest.

## 4. Findings

* `pool_waiter` — a caller of `Acquire` waits for the busy singleton; StopSpec takes it away and the `Release` that ends
  its lease signals nobody (`acquire.go:319`). The caller sleeps on though the pool is empty.
* `pool_duplicate` — the duplicate branch of a singleton unlocks a mutex that was unlocked six lines above
  (`acquire.go:169`, `:175`); the Go runtime ends the process.
* `edit_required` — toggling one plugin writes `required: false` to every plugin that left the field out
  (`profile_editor.go:58`), which the loader had taken for required.

`PROJECT.json` quotes the lines each of them contradicts. Weaknesses met while modelling, in the models as
history variables or plain behaviour and without a document that denies them:

* Pool: `startInFlight` is cleared twice on the path of a failed start, so another caller's gate may be cleared
  (`acquire.go:142`); a panic in `SetDesiredMinReady` with several starts reserved leaks all but one (`lifecycle.go:42-77`);
  `SetDesiredMinReady` counts instances that the reaper has marked and is about to stop (`lifecycle.go:37`), so a minimum
  that is raised while the reaper stops the last instance stays unmet, which is why `MinimumIsReached` assumes no reaping.
* Registry: two new users of a spec at once both count 2 and nobody starts the server
  (`client_registry_activation.go:34`); a broadcast sends without the lock (`client_registry_snapshot.go:76`) on a channel
  that the end of its watch may have closed meanwhile (`client_registry.go:283`), which panics.
* Init manager: an activation that meets a worker about to end starts no other (`manager.go:377`); retry settings
  are written by a reload under a lock (`:87`) and read without one (`:399`, `:577`).
* Reload: the provider's diff is against its own last snapshot, also when that was rolled back
  (`catalog_provider_dynamic.go:128`), so an edit of a runtime setting after a failed reload is applied as
  runtime-only, which leaves a mixed state (`transactional_hot_reload_execplan.md:55` forbids one); `Reload` may return success while its update is queued
  (`reload.go:134`, `:107`); between `Start`'s watch and its snapshot a revision may pass twice (`:92`).
* Indexes: a refresh may store the cache of a server removed meanwhile (`index_core.go:419`); the etag of a merged
  list ignores the server that owns an entry (`:415`); of servers that share a spec key an arbitrary one names it
  (`catalog_summary.go:24`), and filters by server name show or hide the wrong twin (`discovery_support.go:25`).
* Bootstrap: its calls share one id (`metadata/manager.go:780`), so a late reply may answer the next call;
  setters of the cache renew one common expiry.
* Lifecycle: the callback may read `detached` before it is set and end a server that was handed out.
* Plugins: `Stop` during `Apply` leaves a plugin started; a crashed plugin stays in the table; an optional plugin
  whose restart fails keeps its old spec.
* Tasks: callers of `Result` on an expired task wait for nothing (`manager.go:301`).
* Statuses: the state is loaded before the lock, so a watch may go backward (`runtime_status_index.go:60`); a send
  that finds the channel full is lost until the next change; a bootstrap error keeps a server "failed".
* Logs: the new entry is dropped where the comment says the oldest (`log_service.go:215`).
* Observability: a restart on the same address may meet the old listener; a reload binds the server to the
  context of its call (`reload.go:404`).
* RPC: overlapping cores unlink each other's socket; errors after `Listen` leave the listener open (`server.go:82-132`);
  open watches make the grace period time out.
* Application: `Run` hands the control plane out before anything runs (`application.go:99`, against `app.go:33`); when
  the RPC server fails the reload watcher stays; the last progress is dropped if the channel is full.
* Gateway: the heartbeat's re-registration may follow the unregistration; `unregisterCaller` dials with a context of its own;
  a stream that ends with Canceled ends its goroutine for good.
* Desktop: Start while stopping overlaps two cores, the older of which clears the fields of the newer
  (`manager.go:107`, `:247`); the core's context is read without the lock (`:224`); Stop during the gateway's start
  forgets its process (`gateway_process.go:169`), whose reaper clears another's (`:219`); `restartTicker` writes old
  options back (`update_checker.go:217`) and leaves two loops when it meets a check; `os.Exit` skips the deferred detach, and `.pkg`
  files are downloaded that the installer refuses.

## 5. The proofs

TLAPS proves the following for every value of the constants that the named assumptions allow; TLC checks the same
definitions, and the assumptions, in the runs above. Assumptions only say what the constants are (finite sets,
distinct names, positive capacities), except where the text says more.

| Module | Theorem (property) | From |
|---|---|---|
| `SchedulerPoolProofs` | `TypeCorrect`; `RoutingIsSafe` (`Routing`); `LateWritebackNever` (`NoLateWriteback`); `StartsAreSingle` (`SingleFlight`); `MinimumIsReached` (`MinReadyEnsured`) | `ConstantsAssumption`, `ProcsAreDistinct`; the last two also `NoStartFails`, the last `NoMaintenance` |
| `SchedulerLeaseProofs` | `LeaseInvariance` (`IInv`); `AccountsBalance` (`Accounting`); `ProcessesAreOwned` (`Custody`); `LeasesAreNotCut` (`NoStopWhileLeased`); `PoolImplementsLease` (`ImplementsLease`) | the same |
| `ClientProofs` | `RegistryTypeCorrect`; `CountsAreExact` (`CountsMatch`); `ServersFollowClients` (`ActiveIffUsed`); `TasksAreSound` (`TaskInv`); `OutcomesAreFinal` (`OutcomeIsFinal`); `StreamsAgree` (`StreamInv`); `GovernanceHolds` (`PluginInv`) | `RegistryAssumption`, `TaskManagerAssumption`, `SnapshotWatchAssumption`, `PluginPipelineAssumption` |
| `ServerInitProofs` | `InitTypeCorrect`; `PendingSpecsAreDriven` (`PendingIsDriven`) | `InitAssumption`, `NoStatusAssumption` |
| `CatalogReloadProofs` | `ReloadTypeCorrect`; `RevisionsAreSound` (`RevisionsAgree`); `TransactionsAgree` (`AgreeUnlessSkewed`); `ServersCanBeFound` (`PoolTableInv`); `EditsAreKept` (`EditorInv`) | `ReloadAssumption`, `PoolTableAssumption`, `EditorAssumption` |
| `ServersProofs` | `CallsAreAnswered` (`ConnectionInv`); `ServersAreHeld` (`ProcessInv`); `CallerLetsGo` (`DetachedFromCaller`); `CompletionIsTrue` (`BootstrapInv`) | the assumptions of the three modules |
| `ServicesProofs` | `IndexesHold` (`IndexInv`); `WatchesHold` (`WatchInv`); `CoreHolds` (`CoreInv`) | the assumptions of the seven modules |
| `DesktopProofs` | `GatewayHolds` (`GatewayInv`); `ApplicationHolds` (`ApplicationInv`) | the assumptions of the six modules |

Each proof has the same shape: an inductive invariant, a lemma that the first state has it, a lemma per action (or per
conjunct) that the step keeps it, one that it implies the property, and a temporal theorem. What the
invariants add to the properties:

**Pool, routing.** `Routing` is not inductive: a stop takes an instance's connection away without the lock, so
whoever is about to stop an instance must have closed it before (`NoneReopened`), and an instance in a starter's hands
must be known to nobody else (`Unshared`, `Private`), so that no stop, probe or reap can name it. That needs bindings that end with
their instance, or a routing key would refer to it. `NoLateWriteback` needs that the generation read at the start
of an overtaken start is older (`OvertakenIsOlder`). `BaseInv` is their conjunction.

**Pool, starts.** `SingleFlight` and `MinReadyEnsured` are false of a pool whose starts fail: a start that fails clears another
caller's gate (see *Findings*), and nobody makes up for a failed reservation. The two theorems therefore assume what `pool_live` has:
no start fails or panics, and for the minimum that nothing is reaped or probed. `GateHolds`: the caller at the gate is alone, has
it shut and nobody cancelled it. `SupplyHolds`: instances, reservations and instances that arrive never sum up to less than the
minimum, unless a duplicate singleton was brought, upon which the process ends.

**Pool, leases.** `LeaseInv` adds who holds what: `busy` is the number of holders, `starting` the number of callers and
the sum over the setters of what they still owe, plus what leaked; a drain that was not opened has somebody
about to check it; a launched instance is in the pool, draining, or in a starter's or stopper's hands. Sums over setters need an
induction over the number of setters. The library's induction rules take an operator, which the installed provers cannot
instantiate; `SetInduction` is the one used here: it takes a set, and rests on the fact that an injection of
a finite set into itself is onto.

**Refinement.** Under the mapping each action is one of the lessor's or a stutter: one lemma per abstract action says what
must change (`AbstractGrant`, ...), one per concrete step that it does.

**Registry.** `CountsMatch` needs that a client that is not registered uses nothing, or a second registration
would count a use twice. `ActiveIffUsed` needs `SettledInv`: for each spec, what the operations under way are
still going to ask of the init manager brings its warm state to its count, or the spec is marked.

**Streams, plugins, tasks.** `StreamStrong` says of every channel on the way what its content means for the next one
(`IndexFollowed`, `ViewFollowed`) in each phase of a watch. `PipelineStrong` says how far an `Apply` or its undoing has come
(`ApplyHolds`, `ApplyDone`) and what a request that is past a plugin has been told (`RequestsJudged`). `TaskStrong` says that the sets of
earlier tasks form an order (`OrderIsSound`), so that positions are cardinalities, that a lister will still meet what it has not seen
(`PagesToCome`), and that whoever waits knows a run that will close the channel (`WaitersKnow`).

**Init manager.** `PendingIsDriven` is not inductive, since the worker it relies on may be about to end. `Driven` says that a
pending spec has a worker that will look at its target again, a caller about to start one, or the mark; `Settled`
that before Start there is no worker.

**Reload, pools, editor.** `Transacting` says that with `k` steps applied each component holds the new catalog's part exactly if its
step is among the first `k`, or the part is the same in both; agreement at commit and after a rollback are its two ends. `TableStrong` adds
that what somebody holds of a pool was once in the table (`UsersHaveTable`, `HandsInv`). `EditorStrong` says, as long as no two calls overlapped,
that one call is at work, and what the file and the call's copy say.

**Servers.** `ConnectionStrong` says where the one reply of a call is: in its inbox, in the table, or on its way. For the processes the
invariant says at each step of a start what it holds and which context would end it; for the bootstrap, that slots, instances and
results add up to the specs that were taken up.

**Services.** `RefreshStrong`: who is in the gate (`GateHeld`), what a copy taken before a store can still be
(`CopiesTyped`, `SnapshotFollows`). `LifecycleStrong`: the stop channel of the present epoch is open (`OpenStop`), a loop that waits on it is the
ticker's (`LiveTicks`). `StatusStrong`: what is stored was read in order, and what is listed is open (`InOrder`, `EachIsNews`). `LogStrong`: per
session, the places in all buffers on the way are increasing, of its level, and together all that was wanted (`PlacesInOrder`,
`OnlyWanted`, `AllWanted`). `RingHolds`: the slots before and after `next` are the last entries. `ObsStrong`: which run may be bound where,
and why it ended (`RunsFollow`, `EndsForReason`). `RpcStrong`: what each phase of a server's life has (`PhaseHas`). `AppStrong`: at each
place of `Run` what was started and not yet stopped (`SwitchesTyped`, `StoppedInOrder`), and whether the last progress was sent (`EndIsSent`).

**Gateway.** `RuntimeStrong`: the mutex of a runtime's connection is held by whoever dials (`MutexIsDialers`), a fresh client is one the
runtime manages. `PoolStrong`: a runtime that is starting is in one request's hands (`StartsAreOwned`, `OwnsInGet`), numbers are used once
(`MadeInOrder`), so that no runtime which may run drops out of the map unseen. `ChildStrong`: one start at a time and none beside a process of
this application (`OneStart`); a process with old settings, or without its core, has somebody who is about to stop it (`ConfigCovered`,
`CoreCovered`), as long as no process was lost to a Stop during a start.

**Application.** `DeskStrong`: cores are started in order, and without an overlap how far the core got determines the state
and the fields (`ServedAlone`), the subscription being to a core that nobody cancelled (`SubscribedToLive`). `CheckerStrong`: who asked
asks for the channel that is set (`AsksForChannel`), and a loop waits on the present stop channel or a closed one (`TickersNumbered`,
`LoopsTakeTurns`). `UpdateStrong`: what is on the disk at each step of the installation (`DiskAtSteps`), which is the property at every
point where the application may end. `SelectReleaseAsset` takes the least extension and the least index; that the least of a set of numbers
exists is `LeastIs`, from the library's theorem that the order of the naturals is well-founded.

## 6. What is only model-checked, and why

* Liveness (`WaitersWake`, `DrainsEnd`, `StopEndsWorkers`, `UnwantedWorkerEnds`, `ReloadEnds`, `RemovedSpecEnds`, `ServersSettle`,
  `ServicesSettle`, `DesktopSettles`): fairness and `ENABLED` are out of the prover's reach.
* What `SingleFlight` and `MinReadyEnsured` say of pools whose starts fail, or after a StopSpec, is nothing: there they do not hold. The
  minimum is not kept where it is raised during a reaping.
* The three runs that expect a violation.

## 7. What the models leave out

`PROJECT.json` ("components") says per component what is left out and why: I/O and conversions (framing, HTTP, process groups, the
content of lists, metrics, log text), views, the parsing and validation of the configuration, tray and window; the router, whose
acquire, send, release the pool's callers do; the session and metadata caches, whose operations are single critical sections; sampling,
elicitation and the subagent, which share no state; the commands. Generated code (protobuf, wire) is no subject.

In the modules: which of equally loaded instances is chosen is any; a client selects a set of specs, not tags; any client may be
found dead; `Statuses`, start causes and diagnostics of the init manager; the file's text is a document, a file cut short or one that
does not load; a list is its version.

## 8. Plan

1. `ServersFollowClients` and `PendingIsDriven` composed: the registry's calls as the init manager's inputs.
2. The lists of the discovery service over twin servers, and the retry of a call through the router.
