---------------------------- MODULE PluginPipeline ----------------------------
(***************************************************************************)
(* Governance: the plugin processes (infra/plugin/manager), the pipeline   *)
(* that asks them (infra/pipeline/engine.go, infra/governance) and the     *)
(* reload step that changes both (buildReloadSteps of controlplane/        *)
(* reload.go).  A spec is a number: 0 for a plugin that is not configured  *)
(* or disabled, others for different specs of the same plugin.             *)
(***************************************************************************)
EXTENDS Integers, Sequences, SequencesExt, FiniteSets

CONSTANTS
  Plugins, Required,
  Observing,     \* the plugins of the observability category, asked first and in parallel
  Order,         \* the other plugins by category and name
  Content,       \* those among them that may rewrite what they see
  PluginSpecs,         \* the numbers of the specs a plugin may have
  Askers,       \* concurrent requests
  MaxReloads,    \* bound: reloads that change the plugins
  NoPlugin

ASSUME PluginPipelineAssumption ==
  /\ Required \subseteq Plugins /\ Observing \subseteq Plugins /\ ToSet(Order) = Plugins \ Observing
  /\ Content \subseteq ToSet(Order) /\ PluginSpecs \in [Plugins -> SUBSET (Nat \ {0})] /\ MaxReloads \in Nat
  /\ Order \in Seq(Plugins) /\ IsInjective(Order) /\ NoPlugin \notin Plugins

VARIABLES
  listed,        \* the engine's specs
  instances,     \* the manager's table of running plugins
  procs,         \* the processes: plugin and spec
  applying,      \* the step of Apply: idle, start, install, replace, stop
  wanted, prior, existing,  \* its specs, those before the reload, the table it copied
  todo, current, \* plugins Apply has still to look at, and the one it is at
  refused,       \* a required plugin did not start
  undoing,       \* the Apply is the one that undoes a failed one
  torn,          \* ghost: an undoing Apply failed as well
  reloads,
  halted, toStop,\* Stop was called, and what it has still to stop
  at, flow, seen, pos, payload, approved, rejected  \* the requests

managerVars == <<instances, procs, applying, wanted, prior, existing, todo, current, refused, undoing, torn, reloads>>
requestVars == <<at, flow, seen, pos, payload, approved, rejected>>
ppVars == <<listed, managerVars, halted, toStop, requestVars>>

Configs ==
  {f \in [Plugins -> (UNION {PluginSpecs[p] : p \in Plugins}) \cup {0}] :
     \A p \in Plugins : f[p] \in PluginSpecs[p] \cup {0}}
Processes == UNION {{p} \X PluginSpecs[p] : p \in Plugins}

Original == "original"

PPInit ==
  /\ listed \in Configs
  /\ instances = listed /\ procs = {<<p, listed[p]>> : p \in {q \in Plugins : listed[q] # 0}}
  /\ applying = "idle" /\ wanted = listed /\ prior = listed /\ existing = listed
  /\ todo = {} /\ current = NoPlugin /\ refused = FALSE /\ undoing = FALSE /\ torn = FALSE /\ reloads = 0
  /\ halted = FALSE /\ toStop = {}
  /\ at = [c \in Askers |-> "idle"] /\ flow = [c \in Askers |-> "request"]
  /\ seen = [c \in Askers |-> listed] /\ pos = [c \in Askers |-> 0]
  /\ payload = [c \in Askers |-> Original]
  /\ approved = [c \in Askers |-> {}] /\ rejected = [c \in Askers |-> {}]

(***************************************************************************)
(* Apply of the manager.                                                   *)
(***************************************************************************)

\* Removed plugins are handled after the others.
BeginApply(specs) ==
  /\ wanted' = specs /\ existing' = instances /\ refused' = FALSE /\ current' = NoPlugin
  /\ applying' = "start" /\ todo' = {p \in Plugins : specs[p] # 0 /\ specs[p] # instances[p]}

Reload ==
  /\ applying = "idle" /\ reloads < MaxReloads
  /\ reloads' = reloads + 1
  /\ \E specs \in Configs : specs # listed /\ BeginApply(specs)
  /\ prior' = listed /\ undoing' = FALSE
  /\ UNCHANGED <<listed, instances, procs, torn, halted, toStop, requestVars>>

StartPlugin(p) ==
  /\ applying = "start" /\ p \in todo
  /\ todo' = todo \ {p}
  /\ \/ /\ procs' = procs \cup {<<p, wanted[p]>>}
        /\ applying' = "install" /\ current' = p /\ UNCHANGED refused
     \/ /\ refused' = (refused \/ p \in Required)
        /\ UNCHANGED <<procs, applying, current>>
  /\ UNCHANGED <<listed, instances, wanted, prior, existing, undoing, torn, reloads, halted, toStop, requestVars>>

InstallPlugin ==
  /\ applying = "install"
  /\ instances' = [instances EXCEPT ![current] = wanted[current]]
  /\ applying' = "replace"
  /\ UNCHANGED <<listed, procs, wanted, prior, existing, todo, current, refused, undoing, torn, reloads, halted, toStop, requestVars>>

StopReplaced ==
  /\ applying = "replace"
  /\ procs' = procs \ {<<current, existing[current]>>}
  /\ applying' = "start" /\ current' = NoPlugin
  /\ UNCHANGED <<listed, instances, wanted, prior, existing, todo, refused, undoing, torn, reloads, halted, toStop, requestVars>>

BeginStops ==
  /\ applying = "start" /\ todo = {}
  /\ applying' = "stop"
  /\ todo' = {p \in Plugins : existing[p] # 0 /\ wanted[p] = 0}
  /\ UNCHANGED <<listed, instances, procs, wanted, prior, existing, current, refused, undoing, torn, reloads, halted, toStop, requestVars>>

StopRemoved(p) ==
  /\ applying = "stop" /\ p \in todo
  /\ todo' = todo \ {p}
  /\ instances' = [instances EXCEPT ![p] = 0]
  /\ procs' = procs \ {<<p, existing[p]>>}
  /\ UNCHANGED <<listed, applying, wanted, prior, existing, current, refused, undoing, torn, reloads, halted, toStop, requestVars>>

\* The step of the reload: the pipeline changes when the manager succeeded, and the
\* manager is asked for the earlier specs when it did not.
ApplyReturns ==
  /\ applying = "stop" /\ todo = {}
  /\ IF refused /\ ~undoing
     THEN BeginApply(prior) /\ undoing' = TRUE /\ UNCHANGED <<listed, torn>>
     ELSE /\ applying' = "idle" /\ torn' = (torn \/ refused)
          /\ listed' = IF undoing THEN listed ELSE wanted
          /\ wanted' = listed' /\ existing' = instances /\ refused' = FALSE /\ undoing' = FALSE
          /\ UNCHANGED <<current, todo>>
  /\ UNCHANGED <<instances, procs, prior, reloads, halted, toStop, requestVars>>

(***************************************************************************)
(* Stop.                                                                   *)
(***************************************************************************)

StopManager ==
  /\ ~halted /\ halted' = TRUE
  /\ toStop' = {<<p, instances[p]>> : p \in {q \in Plugins : instances[q] # 0}}
  /\ instances' = [p \in Plugins |-> 0]
  /\ UNCHANGED <<listed, procs, applying, wanted, prior, existing, todo, current, refused, undoing, torn, reloads, requestVars>>

StopOnePlugin(i) ==
  /\ i \in toStop
  /\ toStop' = toStop \ {i} /\ procs' = procs \ {i}
  /\ UNCHANGED <<listed, instances, applying, wanted, prior, existing, todo, current, refused, undoing, torn, reloads, halted, requestVars>>

(***************************************************************************)
(* A request: Chain.Execute asks the pipeline before and after the call.   *)
(***************************************************************************)

\* Handle errs for a plugin that is not in the table.  Any other call may err too: a
\* process that ended on its own stays in the table.
Reachable(p) == instances[p] # 0

Ask(c) ==
  /\ at[c] = "idle"
  /\ at' = [at EXCEPT ![c] = "observe"]
  /\ seen' = [seen EXCEPT ![c] = listed]
  /\ UNCHANGED <<listed, managerVars, halted, toStop, flow, pos, payload, approved, rejected>>

\* runObservability: errors and rejections count only from required plugins.
Observe(c) ==
  /\ at[c] = "observe"
  /\ \E bad \in SUBSET {p \in Observing : seen[c][p] # 0} :
       /\ \A p \in Observing : seen[c][p] # 0 /\ ~Reachable(p) => p \in bad
       /\ approved' = [approved EXCEPT ![c] = {p \in Observing : seen[c][p] # 0} \ bad]
       /\ at' = [at EXCEPT ![c] = IF bad \cap Required = {} THEN "ask" ELSE "refused"]
  /\ pos' = [pos EXCEPT ![c] = 1]
  /\ UNCHANGED <<listed, managerVars, halted, toStop, flow, seen, payload, rejected>>

Advance(c) == pos' = [pos EXCEPT ![c] = @ + 1]

SkipUnlisted(c) ==
  /\ at[c] = "ask" /\ pos[c] <= Len(Order) /\ seen[c][Order[pos[c]]] = 0
  /\ Advance(c)
  /\ UNCHANGED <<listed, managerVars, halted, toStop, at, flow, seen, payload, approved, rejected>>

Asked(c) == at[c] = "ask" /\ pos[c] <= Len(Order) /\ seen[c][Order[pos[c]]] # 0

PluginContinues(c) ==
  LET p == Order[pos[c]] IN
  /\ Asked(c) /\ Reachable(p)
  /\ approved' = [approved EXCEPT ![c] = @ \cup {p}]
  /\ \E to \in IF p \in Content THEN {payload[c], p} ELSE {payload[c]} :
       payload' = [payload EXCEPT ![c] = to]
  /\ Advance(c)
  /\ UNCHANGED <<listed, managerVars, halted, toStop, at, flow, seen, rejected>>

PluginRejects(c) ==
  LET p == Order[pos[c]] IN
  /\ Asked(c) /\ Reachable(p)
  /\ rejected' = [rejected EXCEPT ![c] = @ \cup {p}]
  /\ at' = [at EXCEPT ![c] = "refused"]
  /\ UNCHANGED <<listed, managerVars, halted, toStop, flow, seen, pos, payload, approved>>

\* Mutant: an error lets the request pass, whoever errs.
ErrsOpen(c) ==
  /\ Asked(c)
  /\ Advance(c)
  /\ UNCHANGED <<listed, managerVars, halted, toStop, at, flow, seen, payload, approved, rejected>>

PluginErrs(c) ==
  LET p == Order[pos[c]] IN
  /\ Asked(c)
  /\ IF p \in Required THEN at' = [at EXCEPT ![c] = "refused"] /\ UNCHANGED pos
                       ELSE Advance(c) /\ UNCHANGED at
  /\ UNCHANGED <<listed, managerVars, halted, toStop, flow, seen, payload, approved, rejected>>

\* Handle returns a decision without a payload, so that the chain hands on the original:
\* what runSequential keeps in current goes from plugin to plugin only.
Decided(c) ==
  /\ at[c] = "ask" /\ pos[c] > Len(Order)
  /\ at' = [at EXCEPT ![c] = "passed"]
  /\ UNCHANGED <<listed, managerVars, halted, toStop, flow, seen, pos, payload, approved, rejected>>

AskAboutResponse(c) ==
  /\ at[c] = "passed" /\ flow[c] = "request"
  /\ flow' = [flow EXCEPT ![c] = "response"]
  /\ at' = [at EXCEPT ![c] = "observe"]
  /\ seen' = [seen EXCEPT ![c] = listed]
  /\ payload' = [payload EXCEPT ![c] = Original] /\ approved' = [approved EXCEPT ![c] = {}]
  /\ UNCHANGED <<listed, managerVars, halted, toStop, pos, rejected>>

RequestStep(c) ==
  \/ Observe(c) \/ SkipUnlisted(c) \/ PluginContinues(c) \/ PluginRejects(c) \/ PluginErrs(c)
  \/ Decided(c) \/ AskAboutResponse(c)

ApplyStep ==
  \/ \E p \in Plugins : StartPlugin(p) \/ StopRemoved(p)
  \/ InstallPlugin \/ StopReplaced \/ BeginStops \/ ApplyReturns

PPNext ==
  \/ Reload \/ ApplyStep \/ StopManager
  \/ \E i \in Processes : StopOnePlugin(i)
  \/ \E c \in Askers : Ask(c) \/ RequestStep(c)

PPSpec == PPInit /\ [][PPNext]_ppVars

(***************************************************************************)
(* Properties.                                                             *)
(***************************************************************************)

\* The type invariant.
PPTypeOK ==
  /\ {listed, instances, wanted, prior, existing} \subseteq Configs
  /\ procs \subseteq Processes /\ toStop \subseteq Processes
  /\ applying \in {"idle", "start", "install", "replace", "stop"}
  /\ todo \subseteq Plugins /\ current \in Plugins \cup {NoPlugin} /\ reloads \in 0..MaxReloads
  /\ {refused, undoing, torn, halted} \subseteq BOOLEAN
  /\ at \in [Askers -> {"idle", "observe", "ask", "passed", "refused"}]
  /\ flow \in [Askers -> {"request", "response"}] /\ seen \in [Askers -> Configs]
  /\ pos \in [Askers -> 0..Len(Order) + 1] /\ payload \in [Askers -> Content \cup {Original}]
  /\ approved \in [Askers -> SUBSET Plugins] /\ rejected \in [Askers -> SUBSET Plugins]

\* Governance fails closed: what passes the pipeline was let through by every required
\* plugin that the pipeline listed when it was asked, and by nobody refused, optional
\* plugins included, though reloads restart and stop plugins under it.
NoBypass ==
  \A c \in Askers :
    at[c] = "passed" =>
      /\ \A p \in Required : seen[c][p] # 0 => p \in approved[c]
      /\ rejected[c] = {}

\* Between reloads the pipeline asks what is there: every required plugin it lists is in
\* the manager's table with that spec and the table has no plugin it does not list, also
\* after a reload that failed halfway and was undone; unless the undoing failed too.
ListedIsServed ==
  applying = "idle" /\ ~torn /\ ~halted =>
    /\ \A p \in Required : listed[p] # 0 => instances[p] = listed[p]
    /\ \A p \in Plugins : listed[p] = 0 => instances[p] = 0

\* No plugin process is forgotten: it is in the table, or Apply or Stop has it in hand.
NoOrphanPlugin ==
  \A i \in procs :
    \/ instances[i[1]] = i[2] \/ i \in toStop
    \/ applying = "install" /\ i = <<current, wanted[current]>>
    \/ applying = "replace" /\ i = <<current, existing[current]>>

\* The three, and the type invariant.
PluginInv == PPTypeOK /\ NoBypass /\ ListedIsServed /\ NoOrphanPlugin
================================================================================
