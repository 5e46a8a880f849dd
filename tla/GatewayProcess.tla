---------------------------- MODULE GatewayProcess ----------------------------
(***************************************************************************)
(* The gateway of the desktop application: a child process that is to run  *)
(* while the core does (ui/gateway_process.go, and the calls of ui/manager *)
(* .go).  The goroutine that serves a core calls it, Stop, and the page of *)
(* settings; each works on a job of its own.  Processes are numbered in    *)
(* the order they are spawned, and 0 is nil.                               *)
(***************************************************************************)
EXTENDS Integers, Sequences

CONSTANTS
  MaxServed, MaxApplies, MaxProcs,   \* bounds: cores served, settings applied, processes
  GatewayConfigs,                   \* records [enabled, version]
  Stopper, Page                     \* who calls the gateway, besides the goroutines of cores

ServedCores == 1..MaxServed
Callers == ServedCores \cup {Stopper, Page}
Procs == 1..MaxProcs
SomeConfig == CHOOSE c \in GatewayConfigs : TRUE
NoJob == [at |-> "idle", cfg |-> SomeConfig, running |-> FALSE, then |-> FALSE, cmd |-> 0]

ASSUME GatewayProcessAssumption ==
  /\ {MaxServed, MaxApplies, MaxProcs} \subseteq Nat /\ {Stopper, Page} \cap ServedCores = {} /\ Stopper # Page
  /\ GatewayConfigs \subseteq [enabled : BOOLEAN, version : Nat] /\ GatewayConfigs # {}

VARIABLES
  phase, running,            \* the goroutine of a core; coreState = CoreStateRunning
  stored, applies,         \* the gateway section of the stored settings
  gwState, gwCfg, ownsProcess, cmd, \* fields of GatewayProcess
  job,                       \* the call a goroutine is in
  procCfg, procAlive, killed, reaped, \* the processes, in the order they were spawned
  lost                       \* ghost, see the properties

callbackVars == <<phase, running>>
setVars == <<stored, applies>>
gpsVars == <<callbackVars, setVars, gwState, gwCfg, ownsProcess, cmd, job, procCfg, procAlive, killed, reaped, lost>>

GPSInit ==
  /\ phase = [r \in ServedCores |-> "none"] /\ running = FALSE
  /\ stored \in GatewayConfigs /\ applies = 0
  /\ gwState = "stopped" /\ gwCfg = stored /\ ownsProcess = FALSE /\ cmd = 0
  /\ job = [t \in Callers |-> NoJob] /\ procCfg = << >> /\ procAlive = {} /\ killed = {} /\ reaped = {}
  /\ lost = FALSE

(***************************************************************************)
(* Who calls.                                                              *)
(***************************************************************************)

Calls(t, at, cfg) == job' = [job EXCEPT ![t] = [NoJob EXCEPT !.at = at, !.cfg = cfg]]
gwFields == <<gwState, gwCfg, ownsProcess, cmd, procCfg, procAlive, killed, reaped, lost>>

CallerTo(r, from, to) == phase[r] = from /\ phase' = [phase EXCEPT ![r] = to]

\* A core is ready, and its goroutine applies the stored settings before it serves.  The
\* one before may still be giving the gateway up.
CoreRuns(r) ==
  /\ \A q \in ServedCores : q < r => phase[q] \in {"stopgw", "done"}
  /\ CallerTo(r, "none", "apply") /\ running' = TRUE
  /\ Calls(r, "apply", stored)
  /\ UNCHANGED <<setVars, gwFields>>

CoreServes(r) ==
  /\ CallerTo(r, "apply", "up") /\ job[r].at = "idle"
  /\ UNCHANGED <<running, setVars, job, gwFields>>

\* Stop leaves the state running before it gives the gateway up.
StopCalled ==
  /\ running /\ job[Stopper].at = "idle"
  /\ running' = FALSE
  /\ Calls(Stopper, "stop", SomeConfig)
  /\ UNCHANGED <<phase, setVars, gwFields>>

\* Mutant: the gateway is left to Stop, which a core that failed never saw.
CoreEndsOnly(r) ==
  /\ CallerTo(r, "up", "done") /\ running' = FALSE
  /\ UNCHANGED <<setVars, job, gwFields>>

\* The core has ended, on its own or because Stop has cancelled it.
CoreEnded(r) ==
  /\ CallerTo(r, "up", "stopgw") /\ running' = FALSE
  /\ Calls(r, "stop", SomeConfig)
  /\ UNCHANGED <<setVars, gwFields>>

CoreGone(r) ==
  /\ CallerTo(r, "stopgw", "done") /\ job[r].at = "idle"
  /\ UNCHANGED <<running, setVars, job, gwFields>>

\* The page of settings saves the section and applies it.
ApplySettings ==
  /\ applies < MaxApplies /\ applies' = applies + 1
  /\ job[Page].at = "idle"
  /\ stored' \in GatewayConfigs
  /\ Calls(Page, "apply", stored')
  /\ UNCHANGED <<callbackVars, gwFields>>

(***************************************************************************)
(* The gateway process.                                                    *)
(***************************************************************************)

ReadCoreState(t) ==
  /\ job[t].at = "apply"
  /\ job' = [job EXCEPT ![t].at = "config", ![t].running = running]
  /\ UNCHANGED <<callbackVars, setVars, gwFields>>

\* What comes next depends on the state of the core that was read before.
UpdateConfig(t) ==
  /\ job[t].at = "config"
  /\ gwCfg' = job[t].cfg
  /\ LET wanted == job[t].running /\ gwCfg'.enabled IN
     job' = [job EXCEPT ![t] = IF wanted /\ gwCfg = gwCfg' THEN [NoJob EXCEPT !.at = "start"]
                               ELSE [NoJob EXCEPT !.at = "stop", !.then = wanted]]
  /\ UNCHANGED <<callbackVars, setVars, gwState, ownsProcess, cmd, procCfg, procAlive, killed, reaped, lost>>

\* A Stop is over: applyGatewaySettings may go on with a Start.
AfterStop(t) == [job[t] EXCEPT !.at = IF job[t].then THEN "start" ELSE "idle", !.then = FALSE, !.cmd = 0]

\* A process that is known is signalled; a gateway that is somebody else's, or only
\* starting, is to be forgotten.
StopLooks(t) ==
  /\ job[t].at = "stop"
  /\ job' = [job EXCEPT ![t] =
       IF gwState \notin {"running", "starting"} THEN AfterStop(t)
       ELSE IF ownsProcess /\ cmd # 0 THEN [job[t] EXCEPT !.at = "wait", !.cmd = cmd]
       ELSE [job[t] EXCEPT !.at = "forget"]]
  /\ UNCHANGED <<callbackVars, setVars, gwState, gwCfg, ownsProcess, cmd, procCfg, procAlive, killed, reaped, lost>>

InStart(t) == job[t].at \in {"probe", "spawned"}

StopForgets(t) ==
  /\ job[t].at = "forget"
  /\ gwState' = "stopped" /\ ownsProcess' = FALSE
  /\ job' = [job EXCEPT ![t] = AfterStop(t)]
  /\ lost' = (lost \/ cmd # 0 \/ \E u \in Callers : InStart(u))
  /\ UNCHANGED <<callbackVars, setVars, gwCfg, cmd, procCfg, procAlive, killed, reaped>>

StopSees(t) ==
  /\ job[t].at = "wait" /\ job[t].cmd \in reaped
  /\ job' = [job EXCEPT ![t] = AfterStop(t)]
  /\ UNCHANGED <<callbackVars, setVars, gwState, gwCfg, ownsProcess, cmd, procCfg, procAlive, killed, reaped, lost>>

\* After the timeout the process is killed, and waited for half a second.
StopTimesOut(t) ==
  /\ job[t].at = "wait" /\ job[t].cmd \notin reaped
  /\ killed' = killed \cup {job[t].cmd}
  /\ job' = [job EXCEPT ![t] = AfterStop(t)]
  /\ lost' = (lost \/ job[t].then)
  /\ UNCHANGED <<callbackVars, setVars, gwState, gwCfg, ownsProcess, cmd, procCfg, procAlive, reaped>>

StartChecks(t) ==
  /\ job[t].at = "start"
  /\ IF gwCfg.enabled /\ gwState \notin {"running", "starting"}
     THEN gwState' = "starting" /\ job' = [job EXCEPT ![t].at = "probe"]
     ELSE job' = [job EXCEPT ![t] = NoJob] /\ UNCHANGED gwState
  /\ UNCHANGED <<callbackVars, setVars, gwCfg, ownsProcess, cmd, procCfg, procAlive, killed, reaped, lost>>

\* Some gateway answers the health check, this application's or not.
FoundHealthy(t) ==
  /\ job[t].at = "probe"
  /\ gwState' = "running" /\ ownsProcess' = FALSE
  /\ job' = [job EXCEPT ![t] = NoJob]
  /\ lost' = (lost \/ procAlive # {})
  /\ UNCHANGED <<callbackVars, setVars, gwCfg, cmd, procCfg, procAlive, killed, reaped>>

SpawnFails(t) ==
  /\ job[t].at = "probe"
  /\ gwState' = "error" /\ job' = [job EXCEPT ![t] = NoJob]
  /\ UNCHANGED <<callbackVars, setVars, gwCfg, ownsProcess, cmd, procCfg, procAlive, killed, reaped, lost>>

Spawn(t) ==
  /\ job[t].at = "probe" /\ Len(procCfg) < MaxProcs
  /\ procCfg' = Append(procCfg, gwCfg) /\ procAlive' = procAlive \cup {Len(procCfg')}
  /\ job' = [job EXCEPT ![t].at = "spawned", ![t].cmd = Len(procCfg')]
  /\ UNCHANGED <<callbackVars, setVars, gwState, gwCfg, ownsProcess, cmd, killed, reaped, lost>>

Registered(t) ==
  /\ job[t].at = "spawned"
  /\ cmd' = job[t].cmd /\ ownsProcess' = TRUE /\ gwState' = "running"
  /\ job' = [job EXCEPT ![t] = NoJob]
  /\ lost' = (lost \/ cmd # 0)
  /\ UNCHANGED <<callbackVars, setVars, gwCfg, procCfg, procAlive, killed, reaped>>

\* When it is told to, and when it likes.
ProcessExits(p) ==
  /\ p \in procAlive /\ procAlive' = procAlive \ {p}
  /\ UNCHANGED <<callbackVars, setVars, gwState, gwCfg, ownsProcess, cmd, job, procCfg, killed, reaped, lost>>

\* The goroutine of a process clears the fields whoever they belong to by now.
Reap(p) ==
  /\ p \in DOMAIN procCfg /\ p \notin procAlive \cup reaped
  /\ \A t \in Callers : job[t].at = "spawned" => job[t].cmd # p
  /\ reaped' = reaped \cup {p} /\ killed' = killed \ {p}
  /\ cmd' = 0 /\ ownsProcess' = FALSE /\ gwState' \in {"stopped", "error"}
  /\ lost' = (lost \/ cmd # p)
  /\ UNCHANGED <<callbackVars, setVars, gwCfg, job, procCfg, procAlive>>

(***************************************************************************)
(* The specification.                                                      *)
(***************************************************************************)

GatewayStep(t) ==
  \/ ReadCoreState(t) \/ UpdateConfig(t) \/ StopLooks(t) \/ StopForgets(t) \/ StopSees(t) \/ StopTimesOut(t)
  \/ StartChecks(t) \/ FoundHealthy(t) \/ SpawnFails(t) \/ Spawn(t) \/ Registered(t)

GPSNext ==
  \/ StopCalled \/ ApplySettings
  \/ \E r \in ServedCores : CoreRuns(r) \/ CoreServes(r) \/ CoreEnded(r) \/ CoreGone(r)
  \/ \E t \in Callers : GatewayStep(t)
  \/ \E p \in Procs : ProcessExits(p) \/ Reap(p)

GPSSpec == GPSInit /\ [][GPSNext]_gpsVars

(***************************************************************************)
(* Properties.                                                             *)
(***************************************************************************)

\* The type invariant.
GPSTypeOK ==
  /\ phase \in [ServedCores -> {"none", "apply", "up", "stopgw", "done"}] /\ {running, ownsProcess, lost} \subseteq BOOLEAN
  /\ applies \in 0..MaxApplies /\ {stored, gwCfg} \subseteq GatewayConfigs
  /\ gwState \in {"stopped", "starting", "running", "error"}
  /\ \A t \in Callers :
       job[t].at \in {"idle", "apply", "config", "stop", "forget", "wait", "start", "probe", "spawned"}
  /\ procAlive \cup killed \cup reaped \subseteq DOMAIN procCfg /\ cmd \in {0} \cup DOMAIN procCfg

Quiet == \A t \in Callers : job[t].at = "idle"

\* A gateway process that lives is the one that can be stopped, is just being registered,
\* or was killed, unless a Stop came into the middle of a Start.
NoOrphan ==
  ~lost => \A p \in procAlive :
    p = cmd \/ p \in killed \/ \E t \in Callers : job[t].at = "spawned" /\ job[t].cmd = p

\* When the core is down and nobody is at work on the gateway none is left running, unless
\* one was lost, or the settings were applied on the word of a core that has ended since.
NoGatewayWithoutCore ==
  (~lost /\ applies = 0 /\ Quiet
   /\ \A r \in ServedCores : phase[r] \in {"none", "done"}) => procAlive \subseteq killed

\* When nobody is at work, a process this application started and
\* has not killed runs with the configuration that was applied last, unless a Stop ran out of time or came into the middle of a Start.
ConfigInForce ==
  (~lost /\ Quiet /\ cmd \notin killed \cup {0}) => procCfg[cmd] = gwCfg

\* The three, and the type invariant.
GatewayProcessInv == GPSTypeOK /\ NoOrphan /\ NoGatewayWithoutCore /\ ConfigInForce
================================================================================
