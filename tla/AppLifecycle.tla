------------------------------- MODULE AppLifecycle -------------------------------
(***************************************************************************)
(* One core, from the moment it is wired to the return of Run              *)
(* (app/application.go, app/runtime/state.go, app/bootstrap): the order in *)
(* which its parts are started, what they do meanwhile, and the order in   *)
(* which they are stopped; and the watch of the progress of the bootstrap  *)
(* (controlplane/controlplane.go).  Run does not look at its context       *)
(* before it serves.                                                       *)
(*                                                                         *)
(* An instance stands for those its cause has started.                     *)
(***************************************************************************)
EXTENDS Integers, Sequences

CONSTANTS
  MaxReloads, MaxWindowCalls,   \* bounds: updates the reload manager applies, calls of the window
  HasBootstrap            \* the metadata bootstrap is configured

ASSUME AppAssumption == {MaxReloads, MaxWindowCalls} \subseteq Nat /\ HasBootstrap \in BOOLEAN

VARIABLES
  main, appDone,                      \* where Run is; its context
  handedOut,                          \* OnReady has given the control plane to the window
  plugins, indexes, boot, initManager, idleLoop, \* what runs
  reloadAt, reloads, calling, windowCalls,  \* the goroutine of the reload manager; calls of the window
  instances,                          \* causes of the instances that run
  poolsGone, tooLate,                    \* StopAll is over; ghost: what came after it was passed
  progressAt, progressCh, seen, finalLost \* the watch of the progress; ghost

partVars == <<plugins, indexes, boot, initManager, idleLoop>>
otherVars == <<reloadAt, reloads, calling, windowCalls>>
progressVars == <<progressAt, progressCh, seen, finalLost>>
appVars == <<main, appDone, handedOut, partVars, otherVars, instances, poolsGone, tooLate, progressVars>>

Order == <<"ready", "bootstrap", "activate", "init", "reload", "idle", "serve",
           "plugins", "deactivate", "wait", "stopInit", "stopIdle", "stopAll", "returned">>

\* Run is about to do the step of this number.
AppAt(step) ==
  /\ main = step /\ appDone = FALSE /\ handedOut = FALSE
  /\ plugins = TRUE /\ indexes = FALSE /\ boot = "none" /\ initManager = "off" /\ idleLoop = FALSE
  /\ reloadAt = "off" /\ reloads = 0 /\ calling = FALSE /\ windowCalls = 0
  /\ instances = {} /\ poolsGone = FALSE /\ tooLate = FALSE
  /\ progressAt = "none" /\ progressCh = << >> /\ seen = "none" /\ finalLost = FALSE

APInit == AppAt(1)

At(step) == Order[main] = step /\ main' = main + 1
Past(step) == \E i \in 1..main - 1 : Order[i] = step

(***************************************************************************)
(* Run.                                                                    *)
(***************************************************************************)

runRest == <<appDone, otherVars, tooLate, progressVars>>

\* The window gets the control plane before anything is started.
HandOut ==
  /\ At("ready") /\ handedOut' = TRUE
  /\ UNCHANGED <<partVars, instances, poolsGone, runRest>>

Bootstrap ==
  /\ At("bootstrap") /\ boot' = IF HasBootstrap THEN "running" ELSE "none"
  /\ UNCHANGED <<handedOut, plugins, indexes, initManager, idleLoop, instances, poolsGone, runRest>>

Activate ==
  /\ At("activate") /\ indexes' = TRUE
  /\ UNCHANGED <<handedOut, plugins, boot, initManager, idleLoop, instances, poolsGone, runRest>>

StartInit ==
  /\ At("init") /\ initManager' = "on"
  /\ UNCHANGED <<handedOut, plugins, indexes, boot, idleLoop, instances, poolsGone, runRest>>

StartReload ==
  /\ At("reload") /\ reloadAt' = IF appDone THEN "off" ELSE "wait"
  /\ UNCHANGED <<appDone, handedOut, partVars, reloads, calling, windowCalls, instances, poolsGone, tooLate, progressVars>>

StartIdleManager ==
  /\ At("idle") /\ idleLoop' = TRUE
  /\ UNCHANGED <<handedOut, plugins, indexes, boot, initManager, instances, poolsGone, runRest>>

\* The server returns when the context is done, or when it fails.
ServerReturns ==
  /\ At("serve")
  /\ tooLate' = (tooLate \/ ~appDone)
  /\ UNCHANGED <<appDone, handedOut, partVars, otherVars, instances, poolsGone, progressVars>>

StopPlugins ==
  /\ At("plugins") /\ plugins' = FALSE
  /\ tooLate' = (tooLate \/ reloadAt = "apply")
  /\ UNCHANGED <<appDone, handedOut, indexes, boot, initManager, idleLoop, otherVars, instances, poolsGone, progressVars>>

Deactivate ==
  /\ At("deactivate") /\ indexes' = FALSE
  /\ UNCHANGED <<handedOut, plugins, boot, initManager, idleLoop, instances, poolsGone, runRest>>

\* Mutant: nobody waits for the bootstrap.
WaitsNot ==
  /\ At("wait")
  /\ UNCHANGED <<handedOut, partVars, instances, poolsGone, runRest>>

\* Ten seconds at most.
WaitForBootstrap ==
  /\ At("wait")
  /\ tooLate' = (tooLate \/ boot = "running")
  /\ UNCHANGED <<appDone, handedOut, partVars, otherVars, instances, poolsGone, progressVars>>

BootstrapAwaited ==
  /\ boot # "running" /\ At("wait")
  /\ UNCHANGED <<handedOut, partVars, instances, poolsGone, runRest>>

\* The workers are cancelled and waited for.
StopInit ==
  /\ At("stopInit") /\ initManager' = "stopped"
  /\ UNCHANGED <<handedOut, plugins, indexes, boot, idleLoop, instances, poolsGone, runRest>>

StopIdleManager ==
  /\ At("stopIdle") /\ idleLoop' = FALSE
  /\ UNCHANGED <<handedOut, plugins, indexes, boot, initManager, instances, poolsGone, runRest>>

StopAll ==
  /\ At("stopAll") /\ instances' = {} /\ poolsGone' = TRUE
  /\ tooLate' = (tooLate \/ calling \/ reloadAt = "apply")
  /\ UNCHANGED <<appDone, handedOut, partVars, otherVars, progressVars>>

RunStep ==
  \/ HandOut \/ Bootstrap \/ Activate \/ StartInit \/ StartReload \/ StartIdleManager \/ StopPlugins \/ Deactivate
  \/ BootstrapAwaited \/ StopInit \/ StopIdleManager \/ StopAll

(***************************************************************************)
(* What goes on meanwhile.                                                 *)
(***************************************************************************)

restOf == <<main, handedOut, plugins, indexes, initManager, idleLoop, poolsGone, tooLate>>

ContextDone ==
  /\ ~appDone /\ appDone' = TRUE
  /\ UNCHANGED <<main, handedOut, partVars, otherVars, instances, poolsGone, tooLate, progressVars>>

\* A server is started to be asked, and stopped when it has answered.
BootstrapAsks ==
  /\ boot = "running"
  /\ \/ instances' = instances \cup {"bootstrap"} /\ UNCHANGED boot
     \/ instances' = instances \ {"bootstrap"} /\ boot' \in {"completed", "failed"}
  /\ UNCHANGED <<restOf, appDone, otherVars, progressVars>>

InitStarts ==
  /\ initManager = "on" /\ ~appDone
  /\ instances' = instances \cup {"init"}
  /\ UNCHANGED <<restOf, appDone, boot, otherVars, progressVars>>

\* An update that is waiting may be taken though the context is done.
ReloadBegins ==
  /\ reloadAt = "wait" /\ reloads < MaxReloads
  /\ reloadAt' = "apply" /\ reloads' = reloads + 1
  /\ tooLate' = (tooLate \/ Past("serve"))
  /\ UNCHANGED <<main, appDone, handedOut, partVars, calling, windowCalls, instances, poolsGone, progressVars>>

\* An update starts plugins and, by the init manager or for clients, instances.
ReloadStarts ==
  /\ reloadAt = "apply" /\ reloadAt' = "wait"
  /\ plugins' = TRUE /\ instances' = instances \cup {"reload"}
  /\ UNCHANGED <<main, appDone, handedOut, indexes, boot, initManager, idleLoop, poolsGone, tooLate, reloads, calling, windowCalls, progressVars>>

ReloadLoopEnds ==
  /\ reloadAt = "wait" /\ appDone /\ reloadAt' = "off"
  /\ UNCHANGED <<restOf, appDone, boot, reloads, calling, windowCalls, instances, progressVars>>

\* A call of the window goes past the server; a pool that is gone is made anew.
WindowCalls ==
  /\ handedOut /\ ~calling /\ windowCalls < MaxWindowCalls
  /\ calling' = TRUE /\ windowCalls' = windowCalls + 1
  /\ tooLate' = (tooLate \/ poolsGone)
  /\ UNCHANGED <<main, appDone, handedOut, partVars, reloadAt, reloads, instances, poolsGone, progressVars>>

WindowCallStarts ==
  /\ calling /\ calling' = FALSE
  /\ instances' = instances \cup {"call"}
  /\ UNCHANGED <<restOf, appDone, boot, reloadAt, reloads, windowCalls, progressVars>>

(***************************************************************************)
(* WatchBootstrapProgress: the channel holds one state.                    *)
(***************************************************************************)

Progress == IF boot \in {"completed", "failed"} THEN boot ELSE "running"
progressRest == <<main, appDone, handedOut, partVars, otherVars, instances, poolsGone, tooLate>>

ProgressWatched ==
  /\ handedOut /\ HasBootstrap /\ progressAt = "none" /\ progressAt' = "tick"
  /\ progressCh' = <<Progress>>
  /\ UNCHANGED <<seen, finalLost, progressRest>>

\* Mutant: the watch is over at the state it began with.
ProgressClosesEarly ==
  /\ progressAt = "tick" /\ progressAt' = "closed"
  /\ UNCHANGED <<progressCh, seen, finalLost, progressRest>>

\* The last state is dropped, as any other, if the one before it was not received.
ProgressTicks ==
  /\ progressAt = "tick"
  /\ progressCh' = IF progressCh = << >> THEN <<Progress>> ELSE progressCh
  /\ progressAt' = IF Progress # "running" THEN "closed" ELSE "tick"
  /\ finalLost' = (Progress # "running" /\ progressCh # << >> /\ progressCh[1] # Progress)
  /\ UNCHANGED <<seen, progressRest>>

ProgressCancelled ==
  /\ progressAt = "tick" /\ appDone /\ progressAt' = "closed" /\ finalLost' = TRUE
  /\ UNCHANGED <<progressCh, seen, progressRest>>

ProgressReceived ==
  /\ progressCh # << >> /\ seen' = Head(progressCh) /\ progressCh' = << >>
  /\ UNCHANGED <<progressAt, finalLost, progressRest>>

(***************************************************************************)
(* The specification.                                                      *)
(***************************************************************************)

APNext ==
  \/ RunStep \/ ServerReturns \/ WaitForBootstrap
  \/ ContextDone \/ BootstrapAsks \/ InitStarts \/ ReloadBegins \/ ReloadStarts \/ ReloadLoopEnds
  \/ WindowCalls \/ WindowCallStarts
  \/ ProgressWatched \/ ProgressTicks \/ ProgressCancelled \/ ProgressReceived

\* Run goes on, the wait for the bootstrap ends, and the server returns when the context is
\* done; the ticker of a watch goes on.
APFairness ==
  /\ WF_appVars(RunStep \/ WaitForBootstrap) /\ WF_appVars(ServerReturns /\ appDone) /\ WF_appVars(ReloadLoopEnds)
  /\ WF_appVars(ProgressTicks) /\ WF_appVars(ProgressReceived)

APSpec == APInit /\ [][APNext]_appVars /\ APFairness

(***************************************************************************)
(* Properties.                                                             *)
(***************************************************************************)

\* The type invariant.
APTypeOK ==
  /\ main \in DOMAIN Order /\ {appDone, handedOut, plugins, indexes, idleLoop, calling, poolsGone, tooLate, finalLost} \subseteq BOOLEAN
  /\ boot \in {"none", "running", "completed", "failed"} /\ initManager \in {"off", "on", "stopped"}
  /\ reloadAt \in {"off", "wait", "apply"} /\ instances \subseteq {"bootstrap", "init", "reload", "call"}
  /\ progressAt \in {"none", "tick", "closed"} /\ Len(progressCh) <= 1

\* When Run has returned after its context was done nothing it has started is left, unless a
\* bootstrap outlived the wait for it, or an update or a call of the window was under way
\* where it was already too late for it.
NothingRemains ==
  (Order[main] = "returned" /\ ~tooLate) =>
    ~plugins /\ ~indexes /\ ~idleLoop /\ instances = {} /\ initManager = "stopped" /\ boot # "running"

\* Nothing can start an instance once the pools are gone, but a call of the window.
NoLateStart ==
  (poolsGone /\ ~tooLate) => reloadAt # "apply" /\ initManager = "stopped" /\ boot # "running"

\* Who watches the progress to the end learns how the bootstrap ended, unless the last state
\* found the one before it in the channel, or the application was shut down.
EndIsSeen ==
  (progressAt = "closed" /\ progressCh = << >> /\ ~finalLost) => seen = boot

\* The three, and the type invariant.
AppInv == APTypeOK /\ NothingRemains /\ NoLateStart /\ EndIsSeen

\* A core whose context is done comes to its end, and a bootstrap that ends ends its watch.
AppOver ==
  /\ appDone => Order[main] = "returned"
  /\ boot \in {"completed", "failed"} => progressAt # "tick"
AppEnds == <>[]AppOver
================================================================================
