---------------------------- MODULE DesktopManager ----------------------------
(***************************************************************************)
(* The desktop application around the core (ui/manager.go): Start, Stop,   *)
(* Restart and Shutdown, and the goroutine that serves a core.  The calls  *)
(* of the gateway are steps that take their time; GatewayProcess says what *)
(* they do.                                                                *)
(*                                                                         *)
(* A core is numbered by the Start that began it, and so are its context   *)
(* and its control plane; 0 is nil.                                        *)
(***************************************************************************)
EXTENDS Integers, FiniteSets

CONSTANTS
  MaxCores,   \* bound: Starts
  MaxCalls    \* bound: Start, Stop, Restart and Shutdown together

Cores == 1..MaxCores

ASSUME DesktopAssumption == MaxCores \in Nat \ {0} /\ MaxCalls \in Nat

VARIABLES
  coreState, coreCtx, controlPlane, watchersCancel, application, \* fields of Manager and App
  stage, ctxOf, failed,      \* per core: its goroutine, its context, whether Serve failed
  cancelled,                 \* contexts
  stopping, restarting, shut, calls, \* a Stop that will cancel a context, Restart, Shutdown
  windowState,                     \* the state the window was last told
  overlapped, crossed        \* ghosts, see the properties

fieldVars == <<coreState, coreCtx, controlPlane, watchersCancel, application>>
coreRunVars == <<stage, ctxOf, failed, cancelled>>
callVars == <<stopping, restarting, shut, calls>>
dmVars == <<fieldVars, coreRunVars, callVars, windowState, overlapped, crossed>>

DMInit ==
  /\ coreState = "stopped" /\ coreCtx = 0 /\ controlPlane = 0 /\ watchersCancel = 0 /\ application = 0
  /\ stage = [r \in Cores |-> "none"] /\ ctxOf = [r \in Cores |-> 0] /\ failed = [r \in Cores |-> FALSE]
  /\ cancelled = {}
  /\ stopping = << >> /\ restarting = FALSE /\ shut = FALSE /\ calls = 0 /\ windowState = "stopped"
  /\ overlapped = FALSE /\ crossed = FALSE

Serving == {"begin", "init", "ready", "watch", "gateway", "up", "served"}

(***************************************************************************)
(* Start, Stop, Restart and Shutdown.                                      *)
(***************************************************************************)

\* A call of the window, as long as it is there.
Called == ~shut /\ calls < MaxCalls /\ calls' = calls + 1

\* A core may be started while the one before it is still stopping.
Starts ==
  /\ coreState \notin {"running", "starting"}
  /\ \E r \in Cores :
       /\ stage[r] = "none" /\ \A q \in Cores : q < r => stage[q] # "none"
       /\ coreCtx' = r /\ stage' = [stage EXCEPT ![r] = "begin"]
  /\ coreState' = "starting" /\ windowState' = "starting"
  /\ overlapped' = (overlapped \/ \E q \in Cores : stage[q] \in Serving)
  /\ UNCHANGED <<controlPlane, watchersCancel, application, ctxOf, failed, cancelled,
                 stopping, shut, crossed>>

StartCore == Called /\ Starts /\ UNCHANGED restarting

\* Mutant: the subscription of the window stays.
StopKeepsWatchers ==
  /\ coreState = "running" /\ stopping = << >>
  /\ coreState' = "stopping"
  /\ stopping' = <<coreCtx>>
  /\ crossed' = (crossed \/ \E r \in Cores : stage[r] = "watch")
  /\ UNCHANGED <<coreCtx, controlPlane, watchersCancel, application, coreRunVars, shut, windowState, overlapped>>

\* Stop gives the gateway up before it tells the window and cancels anything.
StopBegins ==
  /\ coreState = "running" /\ stopping = << >>
  /\ coreState' = "stopping"
  /\ stopping' = <<coreCtx>> /\ watchersCancel' = 0
  /\ crossed' = (crossed \/ \E r \in Cores : stage[r] = "watch")
  /\ UNCHANGED <<coreCtx, controlPlane, application, coreRunVars, shut, windowState, overlapped>>

StopCore == Called /\ StopBegins /\ UNCHANGED restarting

\* Mutant: Stop cancels the watchers only.
StopsWatchersOnly ==
  /\ stopping # << >>
  /\ stopping' = << >> /\ windowState' = "stopping"
  /\ crossed' = (crossed \/ coreState # "stopping")
  /\ UNCHANGED <<fieldVars, stage, ctxOf, failed, cancelled, restarting, shut, calls, overlapped>>

StopCancels ==
  /\ stopping # << >>
  /\ stopping' = << >> /\ windowState' = "stopping"
  /\ cancelled' = cancelled \cup ({stopping[1]} \ {0})
  /\ crossed' = (crossed \/ coreState # "stopping")
  /\ UNCHANGED <<fieldVars, stage, ctxOf, failed, restarting, shut, calls, overlapped>>

\* Restart swallows that nothing was running, then looks every 100 ms for ten seconds.
RestartBegins ==
  /\ Called /\ ~restarting /\ restarting' = TRUE
  /\ \/ StopBegins
     \/ coreState # "running"
        /\ UNCHANGED <<fieldVars, coreRunVars, stopping, shut, windowState, overlapped, crossed>>

RestartStarts ==
  /\ restarting /\ stopping = << >> /\ coreState \in {"stopped", "error"}
  /\ restarting' = FALSE
  /\ Starts /\ UNCHANGED calls

RestartGivesUp ==
  /\ restarting /\ stopping = << >>
  /\ restarting' = FALSE
  /\ UNCHANGED <<fieldVars, coreRunVars, stopping, shut, calls, windowState, overlapped, crossed>>

\* The window is closing: a core that is only starting is not cancelled.
Shutdown ==
  /\ Called /\ shut' = TRUE
  /\ watchersCancel' = 0
  /\ cancelled' = IF coreState = "running" THEN cancelled \cup ({coreCtx} \ {0}) ELSE cancelled
  /\ UNCHANGED <<coreState, coreCtx, controlPlane, application, stage, ctxOf, failed, stopping,
                 restarting, windowState, overlapped, crossed>>

(***************************************************************************)
(* The goroutine of a core.                                                *)
(***************************************************************************)

CoreTo(r, from, to) == stage[r] = from /\ stage' = [stage EXCEPT ![r] = to]

\* The field is read without the lock; it may be nil or of another core by now.
CoreBegins(r) ==
  /\ CoreTo(r, "begin", "init")
  /\ ctxOf' = [ctxOf EXCEPT ![r] = coreCtx]
  /\ UNCHANGED <<fieldVars, failed, cancelled, callVars, windowState, overlapped, crossed>>

\* Everything is wired, and OnReady hands out the control plane.
CoreReady(r) ==
  /\ CoreTo(r, "init", "ready")
  /\ application' = r /\ controlPlane' = r
  /\ UNCHANGED <<coreState, coreCtx, watchersCancel, ctxOf, failed, cancelled, callVars,
                 windowState, overlapped, crossed>>

OnCoreReady(r) ==
  /\ IF coreState = "running"
     THEN CoreTo(r, "ready", "up") /\ UNCHANGED <<coreState, windowState>>
     ELSE CoreTo(r, "ready", "watch") /\ coreState' = "running" /\ windowState' = "running"
  /\ UNCHANGED <<coreCtx, controlPlane, watchersCancel, application, ctxOf, failed, cancelled,
                 callVars, overlapped, crossed>>

\* Nothing is subscribed when the function that cancels the last subscription is still there.
StartWatchers(r) ==
  /\ CoreTo(r, "watch", "gateway")
  /\ IF watchersCancel = 0 /\ controlPlane # 0
     THEN watchersCancel' = controlPlane
     ELSE UNCHANGED watchersCancel
  /\ UNCHANGED <<coreState, coreCtx, controlPlane, application, ctxOf, failed, cancelled, callVars,
                 windowState, overlapped, crossed>>

CoreUp(r) ==
  /\ CoreTo(r, "gateway", "up")
  /\ UNCHANGED <<fieldVars, ctxOf, failed, cancelled, callVars, windowState, overlapped, crossed>>

\* Serve returns: it fails when it likes, and ends when its context is cancelled.
ServeReturns(r) ==
  /\ stage[r] \in {"init", "up"}
  /\ stage' = [stage EXCEPT ![r] = "served"]
  /\ failed' = [failed EXCEPT ![r] = ctxOf[r] \notin cancelled]
  /\ application' = IF stage[r] = "up" THEN 0 ELSE application
  /\ UNCHANGED <<coreState, coreCtx, controlPlane, watchersCancel, ctxOf, cancelled, callVars,
                 windowState, overlapped, crossed>>

\* A context that is nil makes Serve panic, or counts as one that is never cancelled; the
\* handler of the panic does not stop the gateway.
CorePanics(r) ==
  /\ ctxOf[r] = 0 /\ CoreTo(r, "init", "done")
  /\ coreState' = "error" /\ windowState' = "error"
  /\ coreCtx' = 0 /\ controlPlane' = 0
  /\ UNCHANGED <<watchersCancel, application, ctxOf, failed, cancelled, callVars, overlapped, crossed>>

\* What is cleared is the present core's, whoever it is.
CoreEnds(r) ==
  /\ CoreTo(r, "served", "tell")
  /\ coreState' = IF failed[r] /\ coreCtx # 0 /\ coreCtx \notin cancelled THEN "error" ELSE "stopped"
  /\ failed' = [failed EXCEPT ![r] = coreState' = "error"]
  /\ coreCtx' = 0 /\ controlPlane' = 0
  /\ UNCHANGED <<watchersCancel, application, ctxOf, cancelled, callVars,
                 windowState, overlapped, crossed>>

\* The window is told after the lock is given back; then the gateway is stopped.
TellWindow(r) ==
  /\ CoreTo(r, "tell", "stopgw")
  /\ windowState' = IF failed[r] THEN "error" ELSE "stopped"
  /\ crossed' = (crossed \/ coreState # windowState')
  /\ UNCHANGED <<fieldVars, ctxOf, failed, cancelled, callVars, overlapped>>

CoreDone(r) ==
  /\ CoreTo(r, "stopgw", "done")
  /\ ctxOf' = [ctxOf EXCEPT ![r] = 0] /\ failed' = [failed EXCEPT ![r] = FALSE]
  /\ UNCHANGED <<fieldVars, cancelled, callVars, windowState, overlapped, crossed>>

(***************************************************************************)
(* The specification.                                                      *)
(***************************************************************************)

CoreStep(r) ==
  \/ CoreBegins(r) \/ CoreReady(r) \/ OnCoreReady(r) \/ StartWatchers(r) \/ CoreUp(r) \/ ServeReturns(r)
  \/ CorePanics(r) \/ CoreEnds(r) \/ TellWindow(r) \/ CoreDone(r)

DMNext ==
  \/ StartCore \/ StopCore \/ StopCancels \/ RestartBegins \/ RestartStarts \/ RestartGivesUp \/ Shutdown
  \/ \E r \in Cores : CoreStep(r)

\* The goroutine of a core goes on, and Serve returns once its context is cancelled; a
\* call of the gateway comes back, its waits have timeouts.
DMFairness ==
  /\ \A r \in Cores :
       /\ WF_dmVars(CoreStep(r) /\ stage[r] # "up")
       /\ WF_dmVars(ServeReturns(r) /\ ctxOf[r] \in cancelled)
  /\ WF_dmVars(StopCancels)

DMSpec == DMInit /\ [][DMNext]_dmVars /\ DMFairness

(***************************************************************************)
(* Properties.                                                             *)
(***************************************************************************)

\* The type invariant.
DMTypeOK ==
  /\ {coreState, windowState} \subseteq {"stopped", "starting", "running", "stopping", "error"}
  /\ {coreCtx, controlPlane, watchersCancel, application} \subseteq 0..MaxCores
  /\ \A r \in Cores : stage[r] \in Serving \cup {"none", "tell", "stopgw", "done"} /\ ctxOf[r] \in 0..MaxCores
  /\ cancelled \subseteq Cores
  /\ {restarting, shut, overlapped, crossed} \subseteq BOOLEAN
  /\ stopping \in {<< >>} \cup {<<r>> : r \in 0..MaxCores} /\ calls \in 0..MaxCalls

\* One core is served at a time, and while the state is running the control plane handed
\* out is its own, unless a core was started before its predecessor had ended.
OneCore ==
  ~overlapped =>
    /\ Cardinality({r \in Cores : stage[r] \in Serving}) <= 1
    /\ coreState = "running" =>
         /\ controlPlane = coreCtx /\ coreCtx # 0
         /\ stage[coreCtx] \in {"watch", "gateway", "up", "served"}
         /\ stage[coreCtx] = "served" \/ application = coreCtx

\* The window is subscribed to the core that runs, unless one before it ended without being
\* stopped, or was stopped before it had subscribed: the subscription to that one is then
\* still in the way.
WatchersFollow ==
  (~overlapped /\ ~crossed /\ ~shut /\ coreState = "running" /\ stage[coreCtx] \in {"gateway", "up"}
   /\ \A q \in Cores : q < coreCtx => q \in cancelled) => watchersCancel = coreCtx

\* When nothing is under way the window shows the state the core is in, unless a core ended
\* on its own while Stop was still giving the gateway up: the word of Stop then comes last.
WindowIsTold ==
  (~overlapped /\ ~crossed /\ stopping = << >> /\ \A r \in Cores : stage[r] # "tell") =>
    windowState = coreState

\* The three, and the type invariant.
DesktopInv == DMTypeOK /\ OneCore /\ WatchersFollow /\ WindowIsTold

\* A core whose context is cancelled ends and gives its place up, and the application does
\* not stay in the state stopping, unless cores were overlapped.
CoresOver ==
  /\ \A r \in Cores : (ctxOf[r] # 0 /\ ctxOf[r] \in cancelled) => stage[r] = "done"
  /\ coreState = "stopping" => overlapped
CoresEnd == <>[]CoresOver
================================================================================
