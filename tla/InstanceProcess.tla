---------------------------- MODULE InstanceProcess ----------------------------
(***************************************************************************)
(* How a server instance comes to life and ends: StartInstance and         *)
(* StopInstance of infra/lifecycle/manager.go, with the launcher and the   *)
(* transports they call.  A start makes a context of its own under the     *)
(* application's; a callback bridges the caller's context to it until the  *)
(* instance is ready.  The end of that context kills the process.          *)
(***************************************************************************)
EXTENDS Integers, FiniteSets

CONSTANTS
  Instances,
  Stoppers,      \* callers of StopInstance
  MaxAttempts,   \* 1 + initializeRetryCount
  NoInstance

ASSUME InstanceProcessAssumption == MaxAttempts \in Nat \ {0} /\ NoInstance \notin Instances

VARIABLES
  kind,          \* stdio, or an external server reached over HTTP
  start,         \* where StartInstance stands
  attempt,
  startCtx,      \* FALSE once the context of the start has ended
  callerCtx, appCtx,
  bridge,        \* the AfterFunc
  detached,
  crossed,       \* ghost: the callback was about to cancel when the start detached
  proc, conn,    \* the process and the connection
  tables,        \* the instances in m.conns and m.stops
  stopper, stops \* where each StopInstance stands, and for which instance

startVars == <<kind, start, attempt>>
ctxVars == <<startCtx, callerCtx, appCtx, bridge, detached, crossed>>
stopVars == <<stopper, stops>>
ipVars == <<startVars, ctxVars, proc, conn, tables, stopVars>>

Starting == {"launch", "connect", "initialize", "close", "stop", "publish", "detach", "return"}
Ended(i) == ~startCtx[i] \/ ~appCtx

IPInit ==
  /\ kind \in [Instances -> {"stdio", "http"}]
  /\ start = [i \in Instances |-> "none"] /\ attempt = [i \in Instances |-> 0]
  /\ startCtx = [i \in Instances |-> TRUE] /\ callerCtx = [i \in Instances |-> TRUE] /\ appCtx = TRUE
  /\ bridge = [i \in Instances |-> "none"] /\ detached = {} /\ crossed = {}
  /\ proc = [i \in Instances |-> "none"] /\ conn = [i \in Instances |-> "none"] /\ tables = {}
  /\ stopper = [s \in Stoppers |-> "idle"] /\ stops = [s \in Stoppers |-> NoInstance]

(***************************************************************************)
(* StartInstance.                                                          *)
(***************************************************************************)

To(i, where) == start' = [start EXCEPT ![i] = where]
CancelStart(i) == startCtx' = [startCtx EXCEPT ![i] = FALSE]
RemoveBridge(i) == bridge' = [bridge EXCEPT ![i] = IF @ = "armed" THEN "removed" ELSE @]

\* A spec with an unsupported protocol version is refused with nothing done.
StartInstance(i) ==
  /\ start[i] = "none"
  /\ \/ To(i, "refused") /\ UNCHANGED bridge
     \/ To(i, IF kind[i] = "stdio" THEN "launch" ELSE "connect") /\ bridge' = [bridge EXCEPT ![i] = "armed"]
  /\ UNCHANGED <<kind, attempt, startCtx, callerCtx, appCtx, detached, crossed, proc, conn, tables, stopVars>>

\* Every failing return cancels the context and removes the callback.
Fail(i) == To(i, "failed") /\ CancelStart(i) /\ RemoveBridge(i)

Launch(i) ==
  /\ start[i] = "launch"
  /\ \/ ~Ended(i) /\ To(i, "connect") /\ proc' = [proc EXCEPT ![i] = "alive"]
        /\ UNCHANGED <<startCtx, bridge>>
     \/ Fail(i) /\ UNCHANGED proc
  /\ UNCHANGED <<kind, attempt, callerCtx, appCtx, detached, crossed, conn, tables, stopVars>>

Connect(i) ==
  /\ start[i] = "connect"
  /\ \/ To(i, "initialize") /\ conn' = [conn EXCEPT ![i] = "open"] /\ UNCHANGED startCtx
     \/ CancelStart(i) /\ To(i, "stop") /\ UNCHANGED conn
  /\ UNCHANGED <<kind, attempt, callerCtx, appCtx, bridge, detached, crossed, proc, tables, stopVars>>

Initialized(i) ==
  /\ start[i] = "initialize"
  /\ kind[i] = "stdio" => proc[i] = "alive"
  /\ To(i, "publish")
  /\ UNCHANGED <<kind, attempt, ctxVars, proc, conn, tables, stopVars>>

\* The retries go on over the same connection while the caller's context lasts.
InitializeFails(i) ==
  /\ start[i] = "initialize"
  /\ attempt' = [attempt EXCEPT ![i] = @ + 1]
  /\ IF attempt'[i] < MaxAttempts /\ callerCtx[i]
     THEN UNCHANGED <<start, startCtx>>
     ELSE To(i, "close") /\ CancelStart(i)
  /\ UNCHANGED <<kind, callerCtx, appCtx, bridge, detached, crossed, proc, conn, tables, stopVars>>

\* Mutant: an initialize that fails leaves its connection open.
CloseForgotten(i) ==
  /\ start[i] = "close"
  /\ To(i, "stop")
  /\ UNCHANGED <<kind, attempt, ctxVars, proc, conn, tables, stopVars>>

CloseAfterFailure(i) ==
  /\ start[i] = "close"
  /\ To(i, "stop")
  /\ conn' = [conn EXCEPT ![i] = "closed"]
  /\ UNCHANGED <<kind, attempt, ctxVars, proc, tables, stopVars>>

\* The launcher's StopFn closes the pipes and kills the process group.
Kill(i) == proc' = [proc EXCEPT ![i] = IF @ = "alive" THEN "dead" ELSE @]

StopAfterFailure(i) ==
  /\ start[i] = "stop"
  /\ Kill(i)
  /\ Fail(i)
  /\ UNCHANGED <<kind, attempt, callerCtx, appCtx, detached, crossed, conn, tables, stopVars>>

Publish(i) ==
  /\ start[i] = "publish"
  /\ To(i, "detach")
  /\ tables' = tables \cup {i}
  /\ UNCHANGED <<kind, attempt, ctxVars, proc, conn, stopVars>>

NoteCrossed(i) == crossed' = IF bridge[i] = "cancel" THEN crossed \cup {i} ELSE crossed

\* Mutant: the flag is never set; the callback is only removed.
DetachForgotten(i) ==
  /\ start[i] = "detach"
  /\ To(i, "return")
  /\ NoteCrossed(i)
  /\ UNCHANGED <<kind, attempt, startCtx, callerCtx, appCtx, bridge, detached, proc, conn, tables, stopVars>>

Detach(i) ==
  /\ start[i] = "detach"
  /\ To(i, "return")
  /\ detached' = detached \cup {i}
  /\ NoteCrossed(i)
  /\ UNCHANGED <<kind, attempt, startCtx, callerCtx, appCtx, bridge, proc, conn, tables, stopVars>>

ReturnReady(i) ==
  /\ start[i] = "return"
  /\ To(i, "ready")
  /\ RemoveBridge(i)
  /\ UNCHANGED <<kind, attempt, startCtx, callerCtx, appCtx, detached, crossed, proc, conn, tables, stopVars>>

(***************************************************************************)
(* The contexts, and the process on its own.                               *)
(***************************************************************************)

CallerCancels(i) ==
  /\ start[i] # "none" /\ callerCtx[i]
  /\ callerCtx' = [callerCtx EXCEPT ![i] = FALSE]
  /\ bridge' = [bridge EXCEPT ![i] = IF @ = "armed" THEN "check" ELSE @]
  /\ UNCHANGED <<startVars, startCtx, appCtx, detached, crossed, proc, conn, tables, stopVars>>

BridgeChecks(i) ==
  /\ bridge[i] = "check"
  /\ bridge' = [bridge EXCEPT ![i] = IF i \in detached THEN "done" ELSE "cancel"]
  /\ UNCHANGED <<startVars, startCtx, callerCtx, appCtx, detached, crossed, proc, conn, tables, stopVars>>

BridgeCancels(i) ==
  /\ bridge[i] = "cancel"
  /\ bridge' = [bridge EXCEPT ![i] = "done"]
  /\ CancelStart(i)
  /\ UNCHANGED <<startVars, callerCtx, appCtx, detached, crossed, proc, conn, tables, stopVars>>

ApplicationEnds ==
  /\ appCtx /\ appCtx' = FALSE
  /\ UNCHANGED <<startVars, startCtx, callerCtx, bridge, detached, crossed, proc, conn, tables, stopVars>>

\* exec.CommandContext.
ContextKills(i) ==
  /\ Ended(i) /\ proc[i] = "alive"
  /\ Kill(i)
  /\ UNCHANGED <<startVars, ctxVars, conn, tables, stopVars>>

ProcessExits(i) ==
  /\ proc[i] = "alive"
  /\ Kill(i)
  /\ UNCHANGED <<startVars, ctxVars, conn, tables, stopVars>>

(***************************************************************************)
(* StopInstance: the second caller finds nothing to stop.                  *)
(***************************************************************************)

StopInstance(s, i) ==
  /\ stopper[s] = "idle" /\ start[i] = "ready" /\ i \in tables
  /\ tables' = tables \ {i}
  /\ stopper' = [stopper EXCEPT ![s] = "close"] /\ stops' = [stops EXCEPT ![s] = i]
  /\ UNCHANGED <<startVars, ctxVars, proc, conn>>

CloseConnection(s) ==
  /\ stopper[s] = "close"
  /\ stopper' = [stopper EXCEPT ![s] = "stop"]
  /\ conn' = [conn EXCEPT ![stops[s]] = "closed"]
  /\ UNCHANGED <<startVars, ctxVars, proc, tables, stops>>

\* wrapStop cancels the context of the start last, whatever the StopFn returned.
StopProcess(s) ==
  /\ stopper[s] = "stop"
  /\ stopper' = [stopper EXCEPT ![s] = "idle"] /\ stops' = [stops EXCEPT ![s] = NoInstance]
  /\ Kill(stops[s]) /\ CancelStart(stops[s])
  /\ UNCHANGED <<startVars, callerCtx, appCtx, bridge, detached, crossed, conn, tables>>

StartStep(i) ==
  \/ Launch(i) \/ Connect(i) \/ Initialized(i) \/ InitializeFails(i) \/ CloseAfterFailure(i)
  \/ StopAfterFailure(i) \/ Publish(i) \/ Detach(i) \/ ReturnReady(i)
StopStep(s) == CloseConnection(s) \/ StopProcess(s)
BridgeStep(i) == BridgeChecks(i) \/ BridgeCancels(i)

IPNext ==
  \/ \E i \in Instances :
       \/ StartInstance(i) \/ StartStep(i) \/ CallerCancels(i) \/ BridgeStep(i)
       \/ ContextKills(i) \/ ProcessExits(i)
  \/ \E s \in Stoppers : StopStep(s) \/ \E i \in Instances : StopInstance(s, i)
  \/ ApplicationEnds

IPSpec == IPInit /\ [][IPNext]_ipVars

IPFairness ==
  /\ \A i \in Instances : WF_ipVars(StartStep(i)) /\ WF_ipVars(BridgeStep(i)) /\ WF_ipVars(ContextKills(i))
  /\ \A s \in Stoppers : WF_ipVars(StopStep(s))

(***************************************************************************)
(* Properties.                                                             *)
(***************************************************************************)

\* The type invariant.
IPTypeOK ==
  /\ kind \in [Instances -> {"stdio", "http"}] /\ attempt \in [Instances -> 0..MaxAttempts]
  /\ start \in [Instances -> Starting \cup {"none", "refused", "failed", "ready"}]
  /\ startCtx \in [Instances -> BOOLEAN] /\ callerCtx \in [Instances -> BOOLEAN] /\ appCtx \in BOOLEAN
  /\ bridge \in [Instances -> {"none", "armed", "removed", "check", "cancel", "done"}]
  /\ detached \in SUBSET Instances /\ crossed \in SUBSET Instances /\ tables \in SUBSET Instances
  /\ proc \in [Instances -> {"none", "alive", "dead"}] /\ conn \in [Instances -> {"none", "open", "closed"}]
  /\ stopper \in [Stoppers -> {"idle", "close", "stop"}] /\ stops \in [Stoppers -> Instances \cup {NoInstance}]

\* Nobody loses hold of a server: a live process or an open connection belongs to a start
\* under way, to an instance the tables can stop, or to a stop under way, at whatever
\* point a start fails or its caller gives up.
NoOrphanServer ==
  \A i \in Instances :
    proc[i] = "alive" \/ conn[i] = "open" =>
      \/ start[i] \in Starting \/ i \in tables
      \/ \E s \in Stoppers : stops[s] = i
      \/ conn[i] # "open" /\ Ended(i)

\* That, and the type invariant.
ProcessInv == IPTypeOK /\ NoOrphanServer

\* Once a start has returned its instance the caller's context no longer ends it
\* (TestManager_StartInstance_DetachesFromCallerContext): the context of the start is
\* cancelled only by a stop, or by a callback that had read the flag before it was set.
DetachedFromCaller ==
  [][\A i \in Instances :
       start[i] = "ready" /\ startCtx[i] /\ ~startCtx'[i] =>
         i \in crossed \/ \E s \in Stoppers : stops[s] = i]_ipVars

\* A start that fails and a stop leave neither process nor connection behind.
EndedIsReaped ==
  \A i \in Instances :
    (start[i] = "failed" \/ (start[i] = "ready" /\ i \notin tables)) => (proc[i] # "alive" /\ conn[i] # "open")
ProcessEnds == <>[]EndedIsReaped
================================================================================
