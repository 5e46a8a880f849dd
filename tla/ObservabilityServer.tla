--------------------------- MODULE ObservabilityServer ---------------------------
(***************************************************************************)
(* The server of metrics and health (telemetry/observability_controller.go *)
(* and server.go), which every reload may put elsewhere or turn off.       *)
(*                                                                         *)
(* A run of the server is its runID; 0 is nil.  The endpoints are one      *)
(* switch, of which a configuration may leave the choice to the defaults.  *)
(***************************************************************************)
EXTENDS Integers

CONSTANTS
  Addresses, DefaultAddress, Unset, \* listen addresses; a setting that is not given
  DefaultEnabled,                   \* what the command line says of the endpoints
  AppContext, CallContexts,         \* contexts: of the application, of calls that reload
  MaxApplies                        \* bound: configurations applied

ASSUME ObservabilityAssumption ==
  /\ DefaultAddress \in Addresses /\ DefaultEnabled \in BOOLEAN
  /\ MaxApplies \in Nat

Contexts == {AppContext} \cup CallContexts
Runs == 1..MaxApplies
Settings == [addr : Addresses, enabled : BOOLEAN]

VARIABLES
  current, cancel, runID, applies,  \* fields of the controller
  runAt, runCfg, runCtx, runCancelled, \* the goroutine of a run, its state and its context
  endedContexts, boundTo,                 \* contexts that are done; who listens at an address
  refused                           \* ghost: the last run applied found its address taken

controllerVars == <<current, cancel, runID, applies>>
runVars == <<runAt, runCfg, runCtx, runCancelled, endedContexts, boundTo>>
obsVars == <<controllerVars, runVars, refused>>

Off == [addr |-> DefaultAddress, enabled |-> FALSE]

ObsInit ==
  /\ current = Off /\ cancel = 0 /\ runID = 0 /\ applies = 0
  /\ runAt = [r \in Runs |-> "none"] /\ runCfg = [r \in Runs |-> Off] /\ runCtx = [r \in Runs |-> AppContext]
  /\ runCancelled = {} /\ endedContexts = {} /\ boundTo = [a \in Addresses |-> 0] /\ refused = FALSE

(***************************************************************************)
(* The controller.                                                         *)
(***************************************************************************)

ResolveObservabilityState(addr, enabled) ==
  [addr |-> IF addr = Unset THEN DefaultAddress ELSE addr,
   enabled |-> IF enabled = Unset THEN DefaultEnabled ELSE enabled = TRUE]

Cancelled(r) == r \in runCancelled \/ runCtx[r] \in endedContexts

TurnOff(state) ==
  /\ ~state.enabled
  /\ runCancelled' = runCancelled \cup ({cancel} \ {0}) /\ cancel' = 0 /\ current' = state /\ refused' = FALSE
  /\ UNCHANGED <<runID, runAt, runCfg, runCtx, endedContexts, boundTo>>

\* The server that runs is the one wanted, or the call came too late.
LeaveAsIs(state, ctx) ==
  /\ state.enabled /\ ((current = state /\ cancel # 0) \/ ctx \in endedContexts)
  /\ UNCHANGED <<current, cancel, runID, runVars, refused>>

\* Mutant: the server before is left running.
StartBeside(state, ctx) ==
  /\ state.enabled /\ ~(current = state /\ cancel # 0) /\ ctx \notin endedContexts
  /\ runID' = runID + 1 /\ cancel' = runID' /\ current' = state /\ refused' = FALSE
  /\ runAt' = [runAt EXCEPT ![runID'] = "listen"]
  /\ runCfg' = [runCfg EXCEPT ![runID'] = state] /\ runCtx' = [runCtx EXCEPT ![runID'] = ctx]
  /\ UNCHANGED <<endedContexts, boundTo, runCancelled>>

\* The run before is cancelled, and nobody waits for it to give its address up.
StartAnew(state, ctx) ==
  /\ state.enabled /\ ~(current = state /\ cancel # 0) /\ ctx \notin endedContexts
  /\ runCancelled' = runCancelled \cup ({cancel} \ {0})
  /\ runID' = runID + 1 /\ cancel' = runID' /\ current' = state /\ refused' = FALSE
  /\ runAt' = [runAt EXCEPT ![runID'] = "listen"]
  /\ runCfg' = [runCfg EXCEPT ![runID'] = state] /\ runCtx' = [runCtx EXCEPT ![runID'] = ctx]
  /\ UNCHANGED <<endedContexts, boundTo>>

Apply ==
  /\ applies < MaxApplies /\ applies' = applies + 1
  /\ \E addr \in Addresses \cup {Unset}, enabled \in BOOLEAN \cup {Unset}, ctx \in Contexts :
       LET state == ResolveObservabilityState(addr, enabled) IN
       TurnOff(state) \/ LeaveAsIs(state, ctx) \/ StartAnew(state, ctx)

ContextEnds ==
  /\ \E c \in Contexts \ endedContexts : endedContexts' = endedContexts \cup {c}
  /\ UNCHANGED <<controllerVars, runAt, runCfg, runCtx, runCancelled, boundTo, refused>>

(***************************************************************************)
(* A run.                                                                  *)
(***************************************************************************)

\* The address is free, or taken by a run that is about to end, or by somebody else.
Listens(r) ==
  /\ runAt[r] = "listen"
  /\ \/ /\ boundTo[runCfg[r].addr] = 0
        /\ boundTo' = [boundTo EXCEPT ![runCfg[r].addr] = r] /\ runAt' = [runAt EXCEPT ![r] = "serve"]
        /\ UNCHANGED refused
     \/ runAt' = [runAt EXCEPT ![r] = "ending"] /\ refused' = (refused \/ r = runID) /\ UNCHANGED boundTo
  /\ UNCHANGED <<controllerVars, runCfg, runCtx, runCancelled, endedContexts>>

\* Shutdown closes the listener, and then waits for the requests under way.
ShutsDown(r) ==
  /\ runAt[r] \in {"listen", "serve"} /\ Cancelled(r)
  /\ runAt' = [runAt EXCEPT ![r] = "ending"]
  /\ boundTo' = [a \in Addresses |-> IF boundTo[a] = r THEN 0 ELSE boundTo[a]]
  /\ UNCHANGED <<controllerVars, runCfg, runCtx, runCancelled, endedContexts, refused>>

\* Mutant: whoever runs by now is given up.
ClearsAny(r) ==
  /\ runAt[r] = "ending" /\ runAt' = [runAt EXCEPT ![r] = "done"]
  /\ cancel' = 0
  /\ UNCHANGED <<current, runID, applies, runCfg, runCtx, runCancelled, endedContexts, boundTo, refused>>

RunEnds(r) ==
  /\ runAt[r] = "ending" /\ runAt' = [runAt EXCEPT ![r] = "done"]
  /\ cancel' = IF runID = r THEN 0 ELSE cancel
  /\ UNCHANGED <<current, runID, applies, runCfg, runCtx, runCancelled, endedContexts, boundTo, refused>>

ObsNext == Apply \/ ContextEnds \/ \E r \in Runs : Listens(r) \/ ShutsDown(r) \/ RunEnds(r)

\* The goroutines of a run go on: Shutdown has a timeout.
ObsFairness == \A r \in Runs : WF_obsVars(ShutsDown(r) \/ RunEnds(r)) /\ WF_obsVars(Listens(r))

ObsSpec == ObsInit /\ [][ObsNext]_obsVars /\ ObsFairness

(***************************************************************************)
(* Properties.                                                             *)
(***************************************************************************)

\* The type invariant.
ObsTypeOK ==
  /\ current \in Settings /\ {cancel, runID} \subseteq 0..MaxApplies /\ applies \in 0..MaxApplies
  /\ \A r \in Runs : runAt[r] \in {"none", "listen", "serve", "ending", "done"} /\ runCfg[r] \in Settings
  /\ runCancelled \subseteq Runs /\ endedContexts \subseteq Contexts /\ refused \in BOOLEAN
  /\ \A a \in Addresses : boundTo[a] # 0 => runCfg[boundTo[a]].addr = a /\ runAt[boundTo[a]] = "serve"

\* Two servers never run unless one of them is about to go, and the one the controller would
\* cancel is the last one it started, with the configuration it applied last.
OneServer ==
  /\ \A r \in Runs : runAt[r] \in {"listen", "serve"} => r = cancel \/ r \in runCancelled
  /\ cancel # 0 => cancel = runID /\ runCfg[cancel] = current /\ current.enabled

\* An enabled server that is not running was refused its address, or the context of the call
\* that applied it is done: that may be a reload's, while the application goes on.
OnlyRefused ==
  (current.enabled /\ cancel = 0) => refused \/ runCtx[runID] \in endedContexts

\* Both, and the type invariant.
ObservabilityInv == ObsTypeOK /\ OneServer /\ OnlyRefused

\* A run that is replaced or turned off ends, and gives its address up.
RunsOver == \A r \in runCancelled : runAt[r] = "done" /\ \A a \in Addresses : boundTo[a] # r
RunsEnd == <>[]RunsOver
================================================================================
