------------------------------- MODULE PoolTable -------------------------------
(***************************************************************************)
(* The scheduler's table of pools (infra/scheduler/catalog.go, StopAll of  *)
(* lifecycle.go) for one spec key.  A pool is made when somebody asks for  *)
(* it and removed when its spec is gone and it is empty; Acquire, Release  *)
(* and the drains look it up by key, work on what they found without the   *)
(* table's lock, and may work on a pool that was removed meanwhile.  What  *)
(* happens inside a pool is the subject of SchedulerPool.tla; here an      *)
(* instance has one slot and a pool one start at a time.                   *)
(***************************************************************************)
EXTENDS Integers, FiniteSets

CONSTANTS
  Leasers,       \* callers of Acquire and Release
  Servers,       \* server instances
  MaxPools,      \* bound: pools made
  MaxDiffs,      \* bound: catalog updates
  NoPool, NoServer

ASSUME PoolTableAssumption ==
  MaxPools \in Nat \ {0} /\ MaxDiffs \in Nat /\ NoPool \notin 1..MaxPools /\ NoServer \notin Servers

VARIABLES
  known,           \* the key is in s.specs
  table, made,     \* the pool in s.pools; pools made so far
  generation, members, draining,  \* of each pool
  server, leased,  \* the state of each instance; those with a caller
  lpc, lpool, linst, lgen,   \* locals of Acquire and Release
  apc, apool, toStop, toDrain,  \* ApplyCatalogDiff and the StopSpec it calls
  dpc, dpool,      \* the drain goroutine of each instance
  hpc, hpool,      \* StopAll
  diffs,
  raced            \* ghost: the table let go of a pool that somebody used

tableVars == <<known, table, made>>
poolVars == <<generation, members, draining, server, leased>>
leaserVars == <<lpc, lpool, linst, lgen>>
applyVars == <<apc, apool, toStop, toDrain, diffs>>
drainVars == <<dpc, dpool>>
haltVars == <<hpc, hpool>>
ptVars == <<tableVars, poolVars, leaserVars, applyVars, drainVars, haltVars, raced>>

Pools == 1..MaxPools

PTInit ==
  /\ known = TRUE /\ table = NoPool /\ made = 0
  /\ generation = [p \in Pools |-> 0]
  /\ members = [p \in Pools |-> {}] /\ draining = [p \in Pools |-> {}]
  /\ server = [i \in Servers |-> "new"] /\ leased = {}
  /\ lpc = [c \in Leasers |-> "idle"] /\ lpool = [c \in Leasers |-> NoPool]
  /\ linst = [c \in Leasers |-> NoServer] /\ lgen = [c \in Leasers |-> 0]
  /\ apc = "idle" /\ apool = NoPool /\ toStop = {} /\ toDrain = {} /\ diffs = 0
  /\ dpc = [i \in Servers |-> "none"] /\ dpool = [i \in Servers |-> NoPool]
  /\ hpc = "run" /\ hpool = NoPool /\ raced = FALSE

\* getPool: the pool in the table, or a new one put there.
Found == IF table = NoPool THEN made + 1 ELSE table
FindPool ==
  /\ Found \in Pools
  /\ table' = Found
  /\ made' = IF table = NoPool THEN made + 1 ELSE made
  /\ UNCHANGED known

Starting(p) == {c \in Leasers : lpc[c] = "start" /\ lpool[c] = p}
Using(p) == {c \in Leasers : lpool[c] = p /\ lpc[c] \in {"pool", "start"}}
Empty(p) == members[p] = {} /\ draining[p] = {} /\ Starting(p) = {}

\* The table forgets the pool it has.
Drop ==
  /\ table' = NoPool
  /\ raced' = (raced \/ (table # NoPool /\ (~Empty(table) \/ Using(table) # {})))

StopServer(i) == server' = [server EXCEPT ![i] = "stopped"]

(***************************************************************************)
(* Acquire and Release.                                                    *)
(***************************************************************************)

To(c, l) == lpc' = [lpc EXCEPT ![c] = l]

SpecKnown(c) ==
  /\ lpc[c] = "idle" /\ known
  /\ To(c, "get")
  /\ UNCHANGED <<tableVars, poolVars, lpool, linst, lgen, applyVars, drainVars, haltVars, raced>>

GetPool(c) ==
  /\ lpc[c] \in {"get", "release"}
  /\ FindPool
  /\ lpool' = [lpool EXCEPT ![c] = Found]
  /\ To(c, IF lpc[c] = "get" THEN "pool" ELSE "free")
  /\ UNCHANGED <<poolVars, linst, lgen, applyVars, drainVars, haltVars, raced>>

Lease(c, i) ==
  /\ lpc[c] = "pool" /\ i \in members[lpool[c]] \ leased
  /\ leased' = leased \cup {i} /\ linst' = [linst EXCEPT ![c] = i]
  /\ To(c, "leased")
  /\ UNCHANGED <<tableVars, generation, members, draining, server, lpool, lgen, applyVars, drainVars,
                 haltVars, raced>>

StartServer(c, i) ==
  /\ lpc[c] = "pool" /\ members[lpool[c]] \subseteq leased /\ Starting(lpool[c]) = {}
  /\ server[i] = "new"
  /\ server' = [server EXCEPT ![i] = "live"]
  /\ linst' = [linst EXCEPT ![c] = i] /\ lgen' = [lgen EXCEPT ![c] = generation[lpool[c]]]
  /\ To(c, "start")
  /\ UNCHANGED <<tableVars, generation, members, draining, leased, lpool, applyVars, drainVars,
                 haltVars, raced>>

\* Mutant: nobody asks whether the generation is still the one of the start.
LaunchedAnyhow(c) ==
  /\ lpc[c] = "start"
  /\ members' = [members EXCEPT ![lpool[c]] = @ \cup {linst[c]}] /\ leased' = leased \cup {linst[c]}
  /\ To(c, "leased")
  /\ lgen' = [lgen EXCEPT ![c] = 0]
  /\ UNCHANGED <<tableVars, generation, draining, server, lpool, linst, applyVars, drainVars, haltVars, raced>>

\* A start that the pool's generation overtook, or that failed, ends its instance.
Launched(c) ==
  LET p == lpool[c]
      i == linst[c] IN
  /\ lpc[c] = "start"
  /\ IF generation[p] = lgen[c]
     THEN /\ members' = [members EXCEPT ![p] = @ \cup {i}] /\ leased' = leased \cup {i}
          /\ To(c, "leased") /\ UNCHANGED <<server, linst>>
     ELSE /\ StopServer(i) /\ linst' = [linst EXCEPT ![c] = NoServer]
          /\ To(c, "idle") /\ UNCHANGED <<members, leased>>
  /\ lgen' = [lgen EXCEPT ![c] = 0]
  /\ UNCHANGED <<tableVars, generation, draining, lpool, applyVars, drainVars, haltVars, raced>>

StartFails(c) ==
  /\ lpc[c] = "start"
  /\ StopServer(linst[c]) /\ linst' = [linst EXCEPT ![c] = NoServer]
  /\ lgen' = [lgen EXCEPT ![c] = 0]
  /\ To(c, "idle")
  /\ UNCHANGED <<tableVars, generation, members, draining, leased, lpool, applyVars, drainVars,
                 haltVars, raced>>

EndCall(c) ==
  /\ lpc[c] = "leased"
  /\ To(c, "release")
  /\ UNCHANGED <<tableVars, poolVars, lpool, linst, lgen, applyVars, drainVars, haltVars, raced>>

\* The last lease of a draining instance ends its drain, if the pool found lists it.
Release(c) ==
  LET i == linst[c] IN
  /\ lpc[c] = "free"
  /\ leased' = leased \ {i}
  /\ dpc' = [dpc EXCEPT ![i] = IF @ = "wait" /\ i \in draining[lpool[c]] THEN "get" ELSE @]
  /\ linst' = [linst EXCEPT ![c] = NoServer] /\ lpool' = [lpool EXCEPT ![c] = NoPool]
  /\ To(c, "idle")
  /\ UNCHANGED <<tableVars, generation, members, draining, server, lgen, applyVars, dpool, haltVars, raced>>

(***************************************************************************)
(* ApplyCatalogDiff, with StopSpec for a spec that is gone.                *)
(***************************************************************************)

ATo(l) == apc' = l

ApplyDiff ==
  /\ apc = "idle" /\ hpc = "run" /\ diffs < MaxDiffs
  /\ diffs' = diffs + 1
  /\ known' = ~known
  /\ ATo(IF known THEN "find" ELSE "idle")
  /\ UNCHANGED <<table, made, poolVars, leaserVars, apool, toStop, toDrain, drainVars, haltVars, raced>>

FindRemoved ==
  /\ apc = "find"
  /\ apool' = table
  /\ ATo(IF table = NoPool THEN "idle" ELSE "stop")
  /\ UNCHANGED <<tableVars, poolVars, leaserVars, toStop, toDrain, diffs, drainVars, haltVars, raced>>

\* Mutant: the leased members are left to whoever has them.
StopSpecLeavesLeased ==
  /\ apc = "stop" /\ table # NoPool
  /\ generation' = [generation EXCEPT ![table] = @ + 1]
  /\ members' = [members EXCEPT ![table] = {}]
  /\ toStop' = members[table] \ leased
  /\ ATo("stopIdle")
  /\ UNCHANGED <<tableVars, draining, server, leased, leaserVars, apool, toDrain, diffs, drainVars,
                 haltVars, raced>>

\* StopSpec looks the pool up again; without one it is an error that ends the update.
StopSpec ==
  /\ apc = "stop"
  /\ IF table = NoPool
     THEN ATo("idle") /\ apool' = NoPool /\ UNCHANGED <<poolVars, toStop, toDrain>>
     ELSE /\ generation' = [generation EXCEPT ![table] = @ + 1]
          /\ members' = [members EXCEPT ![table] = {}]
          /\ draining' = [draining EXCEPT ![table] = @ \cup (members[table] \cap leased)]
          /\ toStop' = members[table] \ leased /\ toDrain' = members[table] \cap leased
          /\ ATo("stopIdle")
          /\ UNCHANGED <<server, leased, apool>>
  /\ UNCHANGED <<tableVars, leaserVars, diffs, drainVars, haltVars, raced>>

StopIdle ==
  /\ apc = "stopIdle"
  /\ server' = [i \in Servers |-> IF i \in toStop THEN "stopped" ELSE server[i]]
  /\ toStop' = {}
  /\ ATo("drain")
  /\ UNCHANGED <<tableVars, generation, members, draining, leased, leaserVars, apool, toDrain, diffs,
                 drainVars, haltVars, raced>>

\* startDrain makes the goroutine and looks whether the instance is idle already; the
\* pool it looks for to do so is there, with the instance in its draining set.
StartDrain(i) ==
  /\ apc = "drain" /\ i \in toDrain
  /\ toDrain' = toDrain \ {i}
  /\ dpc' = [dpc EXCEPT ![i] = IF i \in leased THEN "wait" ELSE "get"]
  /\ FindPool
  /\ UNCHANGED <<poolVars, leaserVars, apc, apool, toStop, diffs, dpool, haltVars, raced>>

\* tryRemovePool: the specs, the pool and the table are looked at one after the other.
TryRemove ==
  /\ apc = "drain" /\ toDrain = {}
  /\ IF known \/ ~Empty(apool) THEN ATo("idle") /\ apool' = NoPool
                               ELSE ATo("remove") /\ UNCHANGED apool
  /\ UNCHANGED <<tableVars, poolVars, leaserVars, toStop, toDrain, diffs, drainVars, haltVars, raced>>

RemovePool ==
  /\ apc = "remove"
  /\ Drop
  /\ ATo("idle") /\ apool' = NoPool
  /\ UNCHANGED <<known, made, poolVars, leaserVars, toStop, toDrain, diffs, drainVars, haltVars>>

(***************************************************************************)
(* The goroutine of a drain.                                               *)
(***************************************************************************)

DTo(i, l) == dpc' = [dpc EXCEPT ![i] = l]

DrainTimeout(i) ==
  /\ dpc[i] = "wait"
  /\ DTo(i, "get")
  /\ UNCHANGED <<tableVars, poolVars, leaserVars, applyVars, dpool, haltVars, raced>>

DrainGetPool(i) ==
  /\ dpc[i] = "get"
  /\ FindPool
  /\ dpool' = [dpool EXCEPT ![i] = Found]
  /\ DTo(i, "leave")
  /\ UNCHANGED <<poolVars, leaserVars, applyVars, haltVars, raced>>

LeaveDraining(i) ==
  /\ dpc[i] = "leave"
  /\ draining' = [draining EXCEPT ![dpool[i]] = @ \ {i}]
  /\ DTo(i, "stop")
  /\ UNCHANGED <<tableVars, generation, members, server, leased, leaserVars, applyVars, dpool, haltVars, raced>>

StopDrained(i) ==
  /\ dpc[i] = "stop"
  /\ StopServer(i)
  /\ DTo(i, "try")
  /\ UNCHANGED <<tableVars, generation, members, draining, leased, leaserVars, applyVars, dpool, haltVars, raced>>

DrainTryRemove(i) ==
  /\ dpc[i] = "try"
  /\ DTo(i, IF known \/ ~Empty(dpool[i]) THEN "done" ELSE "remove")
  /\ UNCHANGED <<tableVars, poolVars, leaserVars, applyVars, dpool, haltVars, raced>>

DrainRemovePool(i) ==
  /\ dpc[i] = "remove"
  /\ Drop
  /\ DTo(i, "done")
  /\ UNCHANGED <<known, made, poolVars, leaserVars, applyVars, dpool, haltVars>>

(***************************************************************************)
(* StopAll, once the reloads have ended.                                   *)
(***************************************************************************)

RaiseGeneration ==
  /\ hpc = "run" /\ apc = "idle"
  /\ hpool' = table
  /\ generation' = [p \in Pools |-> IF p = table THEN generation[p] + 1 ELSE generation[p]]
  /\ hpc' = "collect"
  /\ UNCHANGED <<tableVars, members, draining, server, leased, leaserVars, applyVars, drainVars, raced>>

\* The instances stay listed while they are stopped, and may be leased.
CollectMembers ==
  /\ hpc = "collect"
  /\ toStop' = IF hpool = NoPool THEN {} ELSE members[hpool]
  /\ hpc' = "stop"
  /\ UNCHANGED <<tableVars, poolVars, leaserVars, apc, apool, toDrain, diffs, drainVars, hpool, raced>>

StopMembers ==
  /\ hpc = "stop"
  /\ server' = [i \in Servers |-> IF i \in toStop THEN "stopped" ELSE server[i]]
  /\ toStop' = {}
  /\ hpc' = "forget"
  /\ UNCHANGED <<tableVars, generation, members, draining, leased, leaserVars, apc, apool, toDrain, diffs,
                 drainVars, hpool, raced>>

\* What the pool got since it was looked at is lost with it.
ForgetPools ==
  /\ hpc = "forget"
  /\ table' = NoPool
  /\ raced' = (raced \/ (table # NoPool /\ (draining[table] # {} \/ Using(table) # {}
                                             \/ \E i \in members[table] : server[i] = "live")))
  /\ hpc' = "done" /\ hpool' = NoPool
  /\ UNCHANGED <<known, made, poolVars, leaserVars, applyVars, drainVars>>

LeaserStep(c) ==
  \/ GetPool(c) \/ Launched(c) \/ StartFails(c) \/ Release(c)
  \/ \E i \in Servers : Lease(c, i) \/ StartServer(c, i)
DiffStep ==
  \/ FindRemoved \/ StopSpec \/ StopIdle \/ TryRemove \/ RemovePool
  \/ \E i \in Servers : StartDrain(i)
DrainStep(i) ==
  \/ DrainTimeout(i) \/ DrainGetPool(i) \/ LeaveDraining(i) \/ StopDrained(i) \/ DrainTryRemove(i)
  \/ DrainRemovePool(i)
HaltStep == CollectMembers \/ StopMembers \/ ForgetPools

PTNext ==
  \/ \E c \in Leasers : SpecKnown(c) \/ LeaserStep(c) \/ EndCall(c)
  \/ ApplyDiff \/ DiffStep \/ RaiseGeneration \/ HaltStep
  \/ \E i \in Servers : DrainStep(i)

PTSpec == PTInit /\ [][PTNext]_ptVars

\* Every runnable goroutine runs and drain timers fire; a call may keep its lease.
PTFairness ==
  /\ \A c \in Leasers : WF_ptVars(LeaserStep(c))
  /\ \A i \in Servers : WF_ptVars(DrainStep(i))
  /\ WF_ptVars(DiffStep) /\ WF_ptVars(HaltStep)

(***************************************************************************)
(* Properties.                                                             *)
(***************************************************************************)

\* The type invariant.
PTTypeOK ==
  /\ known \in BOOLEAN /\ table \in Pools \cup {NoPool} /\ made \in 0..MaxPools
  /\ members \in [Pools -> SUBSET Servers] /\ draining \in [Pools -> SUBSET Servers]
  /\ server \in [Servers -> {"new", "live", "stopped"}] /\ leased \subseteq Servers
  /\ lpc \in [Leasers -> {"idle", "get", "pool", "start", "leased", "release", "free"}]
  /\ lpool \in [Leasers -> Pools \cup {NoPool}] /\ linst \in [Leasers -> Servers \cup {NoServer}]
  /\ {apool, hpool} \subseteq Pools \cup {NoPool} /\ toStop \cup toDrain \subseteq Servers
  /\ apc \in {"idle", "find", "stop", "stopIdle", "drain", "remove"}
  /\ hpc \in {"run", "collect", "stop", "forget", "done"}
  /\ dpc \in [Servers -> {"none", "wait", "get", "leave", "stop", "try", "remove", "done"}]
  /\ dpool \in [Servers -> Pools \cup {NoPool}] /\ raced \in BOOLEAN

\* A running server can be found: it is in the pool that the table has, or a start, a
\* stop or a drain has it in hand, though pools are removed and made again under their
\* users, unless the table let go of a pool between somebody's look at it and its use
\* (catalog.go:74-90, lifecycle.go:204-242).
FoundUnlessRaced ==
  \A i \in Servers :
    server[i] = "live" =>
      \/ raced \/ i \in toStop \cup toDrain
      \/ table # NoPool /\ i \in members[table]
      \/ \E c \in Leasers : lpc[c] = "start" /\ linst[c] = i
      \/ dpc[i] \in {"wait", "get", "leave", "stop"}

\* That, and the type invariant.
PoolTableInv == PTTypeOK /\ FoundUnlessRaced

\* The servers that a removed spec has, the one being started and the leased ones
\* included, all end, however the removal meets calls, starts and drains and though the
\* spec may be back before they have, with the same exception (lifecycle.go:117-179).
Removed(i) ==
  /\ apc = "stop" /\ table # NoPool
  /\ i \in members[table] \/ \E c \in Starting(table) : linst[c] = i
RemovedSpecEnds == \A i \in Servers : Removed(i) ~> server[i] = "stopped" \/ raced
================================================================================
