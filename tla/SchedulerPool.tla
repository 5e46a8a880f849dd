----------------------------- MODULE SchedulerPool -----------------------------
(***************************************************************************)
(* One pool of the basic scheduler: the instances of one spec key, the     *)
(* callers that lease them, the goroutines that fix the number of warm     *)
(* instances, stop the spec, reap idle instances and probe their health.   *)
(* (internal/infra/scheduler: acquire.go, pool.go, lifecycle.go, drain.go, *)
(* maintenance.go.)                                                        *)
(*                                                                         *)
(* A critical section under poolState.mu is one action.  StartInstance and *)
(* StopInstance run without the lock, so every other process may step      *)
(* between the section that decides on a start or a stop and the section   *)
(* that records it.                                                        *)
(***************************************************************************)
EXTENDS Integers, FiniteSets, FiniteSetsExt, Functions

CONSTANTS
  Callers,        \* goroutines calling Acquire, AcquireReady and Release
  Setters,        \* goroutines calling SetDesiredMinReady
  Stoppers,       \* goroutines calling StopSpec
  Reapers,        \* idle-manager goroutines
  Probers,        \* ping-manager goroutines
  Instances,      \* server instances; the identity of a dead one is reused
  RoutingKeys,    \* non-empty routing keys
  Strategy,       \* spec.Strategy
  MaxConcurrent,  \* spec.MaxConcurrent
  MaxTarget,      \* bound: largest minReady a setter asks for
  MaxGeneration,  \* bound: number of StopSpec calls
  Faults,         \* what the environment may do
  NoInst, NoKey, NoProc

Procs == Callers \cup Setters \cup Stoppers \cup Reapers \cup Probers
Starters == Callers \cup Setters

ASSUME ConstantsAssumption ==
  /\ Strategy \in {"stateless", "stateful", "persistent", "singleton"}
  /\ IsFiniteSet(Instances) /\ IsFiniteSet(Callers) /\ IsFiniteSet(Setters)
  /\ MaxConcurrent \in Nat \ {0}
  /\ MaxTarget \in Nat
  /\ MaxGeneration \in Nat
  /\ Faults \subseteq {"startFail", "startPanic", "stopFail", "ctxDone"}
  /\ NoInst \notin Instances
  /\ NoKey \notin RoutingKeys
  /\ NoProc \notin Procs

ASSUME ProcsAreDistinct ==
  /\ Callers \cap (Setters \cup Stoppers \cup Reapers \cup Probers) = {}
  /\ Setters \cap (Stoppers \cup Reapers \cup Probers) = {}
  /\ Stoppers \cap (Reapers \cup Probers) = {}
  /\ Reapers \cap Probers = {}

VARIABLES
  instances,      \* poolState.instances, as a set
  draining,       \* poolState.draining, as a set
  sticky,         \* poolState.sticky: routing key -> bound instance
  minReady, starting, generation, startInFlight,
  startCancel,    \* the caller whose cancel function is registered
  istate, busy,   \* Instance.state and Instance.busyCount
  live,           \* the instances lifecycle.Manager holds a connection of
  drain,          \* per instance: progress of its drain goroutine
  pc, inst,       \* per process: next step, and the instance it works on
  key,            \* per caller: routing key of the call
  startGen,       \* per starter: generation read before StartInstance
  cancelled,      \* callers whose start context is cancelled
  todo,           \* per setter: reservations not yet released
  immediate, deferred,  \* per stopper: instances to stop, to drain
  checks,         \* per prober: instances still to ping
  candidates,     \* per reaper or prober: instances it will stop
  overtaken,      \* history: starters that were starting when a StopSpec ran
  leaked,         \* history: reservations that a panic in a setter's loop left
  crashed         \* the Go runtime ended the process

poolVars  == <<instances, draining, sticky, minReady, starting, generation,
               startInFlight, startCancel>>
instVars  == <<istate, busy, live, drain>>
stopVars  == <<immediate, deferred>>
maintVars == <<checks, candidates>>
endVars   == <<leaked, crashed>>
vars == <<poolVars, instVars, pc, inst, key, startGen, cancelled, todo,
          stopVars, maintVars, overtaken, endVars>>

InstanceStates == {"none", "ready", "busy", "draining", "stopped", "failed"}
PCs == {"idle", "woken", "waiting", "starting", "started", "startFailed",
        "superseded", "duplicate", "holding", "closing",
        "loop", "discarding", "stopping", "drainCheck",
        "reaping", "removing", "expiring", "pinging", "failing"}

TypeOK ==
  /\ instances \subseteq Instances
  /\ draining \subseteq Instances
  /\ sticky \in [RoutingKeys -> Instances \cup {NoInst}]
  /\ minReady \in 0..MaxTarget
  /\ starting \in Int
  /\ generation \in 0..MaxGeneration
  /\ startInFlight \in BOOLEAN
  /\ startCancel \in Callers \cup {NoProc}
  /\ istate \in [Instances -> InstanceStates]
  /\ busy \in [Instances -> Nat]
  /\ live \subseteq Instances
  /\ drain \in [Instances -> {"off", "waiting", "closed", "drained", "timedOut"}]
  /\ pc \in [Procs -> PCs]
  /\ inst \in [Procs -> Instances \cup {NoInst}]
  /\ key \in [Callers -> RoutingKeys \cup {NoKey}]
  /\ startGen \in [Starters -> 0..MaxGeneration]
  /\ cancelled \subseteq Callers
  /\ todo \in [Setters -> Nat]
  /\ immediate \in [Stoppers -> SUBSET Instances]
  /\ deferred \in [Stoppers -> SUBSET Instances]
  /\ checks \in [Probers -> SUBSET Instances]
  /\ candidates \in [Reapers \cup Probers -> SUBSET Instances]
  /\ overtaken \subseteq Starters
  /\ leaked \in Nat
  /\ crashed \in BOOLEAN

Init ==
  /\ instances = {} /\ draining = {}
  /\ sticky = [k \in RoutingKeys |-> NoInst]
  /\ minReady = 0 /\ starting = 0 /\ generation = 0
  /\ startInFlight = FALSE /\ startCancel = NoProc
  /\ istate = [i \in Instances |-> "none"]
  /\ busy = [i \in Instances |-> 0]
  /\ live = {}
  /\ drain = [i \in Instances |-> "off"]
  /\ pc = [p \in Procs |-> "idle"]
  /\ inst = [p \in Procs |-> NoInst]
  /\ key = [c \in Callers |-> NoKey]
  /\ startGen = [p \in Starters |-> 0]
  /\ cancelled = {}
  /\ todo = [s \in Setters |-> 0]
  /\ immediate = [s \in Stoppers |-> {}]
  /\ deferred = [s \in Stoppers |-> {}]
  /\ checks = [p \in Probers |-> {}]
  /\ candidates = [p \in Reapers \cup Probers |-> {}]
  /\ overtaken = {}
  /\ leaked = 0
  /\ crashed = FALSE

--------------------------------------------------------------------------------
(* Helpers of poolState, called with the lock held.                        *)

Routable(i) == istate[i] \in {"ready", "busy"}
HasRoomOffByOne(i) == busy[i] <= MaxConcurrent  \* mutant
HasRoom(i) == busy[i] < MaxConcurrent

\* An instance no variable refers to: StartInstance may reuse its identity.
Fresh(i) ==
  /\ i \notin instances \cup draining \cup live
  /\ drain[i] = "off"
  /\ \A p \in Procs : inst[p] # i
  /\ \A s \in Stoppers : i \notin immediate[s] \cup deferred[s]
  /\ \A p \in Probers : i \notin checks[p]
  /\ \A p \in Reapers \cup Probers : i \notin candidates[p]

\* Signalled waiters leave the condition variable and contend for the lock.
NotWoken(state) == state  \* mutant: the signal is not sent
Woken(state) == IF state = "waiting" THEN "woken" ELSE state
SignalAnd(p, next) ==
  pc' = [q \in Procs |-> IF q = p THEN next ELSE Woken(pc[q])]

Bound(k) == Strategy = "stateful" /\ k # NoKey /\ sticky[k] # NoInst
BoundRoutable(k) == Bound(k) /\ Routable(sticky[k])
StickyBusy(k) == BoundRoutable(k) /\ ~HasRoom(sticky[k])

\* Least loaded; the round-robin index breaks ties, left open here.  The pool
\* of a singleton has at most one instance, which is then the only choice.
LeastLoaded ==
  LET open == {i \in instances : Routable(i) /\ HasRoom(i)}
  IN  {i \in open : \A j \in open : busy[i] <= busy[j]}

\* What acquireReadyLocked may return for key k, and the bindings it leaves.
Leasable(k) ==
  IF StickyBusy(k) THEN {}
  ELSE IF BoundRoutable(k) THEN {sticky[k]} ELSE LeastLoaded
StickyAfterLookup(k) ==
  IF Bound(k) /\ ~Routable(sticky[k])
  THEN [sticky EXCEPT ![k] = NoInst] ELSE sticky

Lease(i) ==
  /\ busy' = [busy EXCEPT ![i] = @ + 1]
  /\ istate' = [istate EXCEPT ![i] = "busy"]

NotMarked(S) == istate  \* mutant: the state is set only after the stop
MarkDraining(S) == [i \in Instances |-> IF i \in S THEN "draining" ELSE istate[i]]

\* lifecycle.StopInstance: an unknown instance is an error and keeps its state,
\* as does one whose process or connection fails to stop.
StopInstance(i) ==
  /\ live' = live \ {i}
  /\ \/ i \in live /\ istate' = [istate EXCEPT ![i] = "stopped"]
     \/ (i \notin live \/ "stopFail" \in Faults) /\ UNCHANGED istate

\* removeInstanceLocked: also drops the bindings to the instance.
RemoveOnly(i) ==  \* mutant: the bindings stay
  /\ instances' = instances \ {i}
  /\ sticky' = sticky
Remove(i) ==
  /\ instances' = instances \ {i}
  /\ sticky' = [k \in RoutingKeys |-> IF sticky[k] = i THEN NoInst ELSE sticky[k]]

\* The goroutine leaves the call: its locals go out of scope.
Return(p) == inst' = [inst EXCEPT ![p] = NoInst]
ForgetAttempt(p) ==
  /\ startGen' = [startGen EXCEPT ![p] = 0]
  /\ overtaken' = overtaken \ {p}

--------------------------------------------------------------------------------
(* Acquire, AcquireReady and Release.                                      *)

\* At the head of Acquire's loop: a new call, or a waiter that was signalled.
AtLoopHead(c, k) == pc[c] = "idle" \/ (pc[c] = "woken" /\ key[c] = k)
Misses(k) == Leasable(k) = {} /\ ~StickyBusy(k)
MustWaitNoGate == Strategy = "singleton" /\ instances # {}  \* mutant
MustWait == startInFlight \/ (Strategy = "singleton" /\ instances # {})

AcquireHit(c, k) ==
  /\ AtLoopHead(c, k)
  /\ \E i \in Leasable(k) : Lease(i) /\ inst' = [inst EXCEPT ![c] = i]
  /\ sticky' = StickyAfterLookup(k)
  /\ pc' = [pc EXCEPT ![c] = "holding"]
  /\ key' = [key EXCEPT ![c] = k]
  /\ UNCHANGED <<instances, draining, minReady, starting, generation,
                 startInFlight, startCancel, live, drain, startGen, cancelled,
                 todo, stopVars, maintVars, overtaken, endVars>>

\* ErrStickyBusy is returned at once.
AcquireStickyBusy(c, k) ==
  /\ AtLoopHead(c, k)
  /\ StickyBusy(k)
  /\ pc' = [pc EXCEPT ![c] = "idle"]
  /\ key' = [key EXCEPT ![c] = NoKey]
  /\ UNCHANGED <<poolVars, instVars, inst, startGen, cancelled, todo, stopVars,
                 maintVars, overtaken, endVars>>

\* A start is in flight, or the singleton is taken: wait for a signal.  With its
\* context already done the caller returns the context's error instead.
AcquireWait(c, k) ==
  /\ AtLoopHead(c, k)
  /\ Misses(k) /\ MustWait
  /\ sticky' = StickyAfterLookup(k)
  /\ \/ /\ pc' = [pc EXCEPT ![c] = "waiting"]
        /\ key' = [key EXCEPT ![c] = k]
     \/ /\ "ctxDone" \in Faults
        /\ pc' = [pc EXCEPT ![c] = "idle"]
        /\ key' = [key EXCEPT ![c] = NoKey]
  /\ UNCHANGED <<instances, draining, minReady, starting, generation,
                 startInFlight, startCancel, instVars, inst, startGen,
                 cancelled, todo, stopVars, maintVars, overtaken, endVars>>

\* The context of a waiter ends: its AfterFunc wakes every waiter of the pool.
WaitCancelled(c) ==
  /\ "ctxDone" \in Faults
  /\ pc[c] \in {"waiting", "woken"}
  /\ SignalAnd(c, "idle")
  /\ key' = [key EXCEPT ![c] = NoKey]
  /\ UNCHANGED <<poolVars, instVars, inst, startGen, cancelled, todo, stopVars,
                 maintVars, overtaken, endVars>>

\* No instance, no start in flight: take the start gate and a reservation.
AcquireStart(c, k) ==
  /\ AtLoopHead(c, k)
  /\ Misses(k) /\ ~MustWait
  /\ sticky' = StickyAfterLookup(k)
  /\ startGen' = [startGen EXCEPT ![c] = generation]
  /\ startInFlight' = TRUE
  /\ startCancel' = c
  /\ starting' = starting + 1
  /\ pc' = [pc EXCEPT ![c] = "starting"]
  /\ key' = [key EXCEPT ![c] = k]
  /\ cancelled' = cancelled \ {c}
  /\ UNCHANGED <<instances, draining, minReady, generation, instVars, inst,
                 todo, stopVars, maintVars, overtaken, endVars>>

\* The deferred function after StartInstance gives the reservation back, takes
\* whatever cancel function is registered and calls it.
KeepReservation ==  \* mutant: the reservation is never given back
  /\ starting' = starting
  /\ startCancel' = NoProc
  /\ cancelled' = cancelled \cup ({startCancel} \ {NoProc})
ReleaseReservation ==
  /\ starting' = starting - 1
  /\ startCancel' = NoProc
  /\ cancelled' = cancelled \cup ({startCancel} \ {NoProc})

\* A process was launched, initialised and registered as instance i.
Launch(p, i) ==
  /\ Fresh(i)
  /\ live' = live \cup {i}
  /\ istate' = [istate EXCEPT ![i] = "ready"]
  /\ busy' = [busy EXCEPT ![i] = 0]
  /\ inst' = [inst EXCEPT ![p] = i]

StartSucceeds(c) ==
  /\ pc[c] = "starting"
  /\ \E i \in Instances : Launch(c, i)
  /\ ReleaseReservation
  /\ pc' = [pc EXCEPT ![c] = "started"]
  /\ UNCHANGED <<instances, draining, sticky, minReady, generation,
                 startInFlight, drain, key, startGen, todo, stopVars,
                 maintVars, overtaken, endVars>>

StartFails(c) ==
  /\ pc[c] = "starting"
  /\ "startFail" \in Faults \/ c \in cancelled
  /\ ReleaseReservation
  /\ startInFlight' = FALSE
  /\ pc' = [pc EXCEPT ![c] = "startFailed"]
  /\ UNCHANGED <<instances, draining, sticky, minReady, generation, instVars,
                 inst, key, startGen, todo, stopVars, maintVars, overtaken,
                 endVars>>

\* A panic of StartInstance is passed on; no waiter is signalled.
StartPanics(c) ==
  /\ pc[c] = "starting"
  /\ "startPanic" \in Faults
  /\ ReleaseReservation
  /\ startInFlight' = FALSE
  /\ pc' = [pc EXCEPT ![c] = "idle"]
  /\ key' = [key EXCEPT ![c] = NoKey]
  /\ ForgetAttempt(c)
  /\ UNCHANGED <<instances, draining, sticky, minReady, generation, instVars,
                 inst, todo, stopVars, maintVars, endVars>>

\* The error path enters the lock once more and opens the gate a second time.
StartFailureSignalled(c) ==
  /\ pc[c] = "startFailed"
  /\ startInFlight' = FALSE
  /\ SignalAnd(c, "idle")
  /\ key' = [key EXCEPT ![c] = NoKey]
  /\ ForgetAttempt(c)
  /\ UNCHANGED <<instances, draining, sticky, minReady, starting, generation,
                 startCancel, instVars, inst, cancelled, todo, stopVars,
                 maintVars, endVars>>

\* The pool moved on while the instance was starting.
NeverSuperseded(p) == FALSE  \* mutant: the generation is not compared
Superseded(p) == generation # startGen[p]

BindOnStart(c, i) ==
  IF Strategy = "stateful" /\ key[c] # NoKey
  THEN [sticky EXCEPT ![key[c]] = i] ELSE sticky

\* The started instance joins the pool, leased to the caller that started it.
AcquirePublish(c) ==
  /\ pc[c] = "started"
  /\ ~Superseded(c)
  /\ ~(Strategy = "singleton" /\ instances # {})
  /\ instances' = instances \cup {inst[c]}
  /\ sticky' = BindOnStart(c, inst[c])
  /\ Lease(inst[c])
  /\ startInFlight' = FALSE
  /\ SignalAnd(c, "holding")
  /\ ForgetAttempt(c)
  /\ UNCHANGED <<draining, minReady, starting, generation, startCancel, live,
                 drain, inst, key, cancelled, todo, stopVars, maintVars,
                 endVars>>

\* Superseded by StopSpec, or a second singleton: the instance is not published.
AcquireReject(c) ==
  /\ pc[c] = "started"
  /\ \/ Superseded(c) /\ SignalAnd(c, "superseded")
     \/ /\ ~Superseded(c)
        /\ Strategy = "singleton" /\ instances # {}
        /\ SignalAnd(c, "duplicate")
  /\ startInFlight' = FALSE
  /\ ForgetAttempt(c)
  /\ UNCHANGED <<instances, draining, sticky, minReady, starting, generation,
                 startCancel, instVars, inst, key, cancelled, todo, stopVars,
                 maintVars, endVars>>

StopSupersededNot(c) ==  \* mutant: the late instance is dropped, not stopped
  /\ pc[c] = "superseded"
  /\ pc' = [pc EXCEPT ![c] = "idle"]
  /\ key' = [key EXCEPT ![c] = NoKey]
  /\ Return(c)
  /\ UNCHANGED <<poolVars, instVars, startGen, cancelled, todo, stopVars,
                 maintVars, overtaken, endVars>>
StopSuperseded(c) ==
  /\ pc[c] = "superseded"
  /\ StopInstance(inst[c])
  /\ pc' = [pc EXCEPT ![c] = "idle"]
  /\ key' = [key EXCEPT ![c] = NoKey]
  /\ Return(c)
  /\ UNCHANGED <<poolVars, busy, drain, startGen, cancelled, todo, stopVars,
                 maintVars, overtaken, endVars>>

\* After stopping the duplicate the code reads the pool without the lock and
\* unlocks a mutex it does not hold, which the Go runtime answers by ending the
\* process.  (With another goroutine inside its critical section the unlock
\* would open that section instead; this outcome is left out.)
StopDuplicate(c) ==
  /\ pc[c] = "duplicate"
  /\ StopInstance(inst[c])
  /\ crashed' = TRUE
  /\ UNCHANGED <<poolVars, busy, drain, pc, inst, key, startGen, cancelled,
                 todo, stopVars, maintVars, overtaken, leaked>>

AcquireReady(c, k) ==
  /\ pc[c] = "idle"
  /\ sticky' = StickyAfterLookup(k)
  /\ \/ /\ \E i \in Leasable(k) : Lease(i) /\ inst' = [inst EXCEPT ![c] = i]
        /\ pc' = [pc EXCEPT ![c] = "holding"]
        /\ key' = [key EXCEPT ![c] = k]
     \/ /\ Leasable(k) = {}
        /\ UNCHANGED <<istate, busy, inst, pc, key>>
  /\ UNCHANGED <<instances, draining, minReady, starting, generation,
                 startInFlight, startCancel, live, drain, startGen, cancelled,
                 todo, stopVars, maintVars, overtaken, endVars>>

UnleaseAll(i) == busy' = [busy EXCEPT ![i] = 0]  \* mutant
Unlease(i) == busy' = [busy EXCEPT ![i] = IF @ > 0 THEN @ - 1 ELSE 0]

\* Release: the last lease makes a busy instance ready and wakes the waiters, and
\* ends the drain of a draining one.
Release(c) ==
  /\ pc[c] = "holding"
  /\ Unlease(inst[c])
  /\ \/ /\ busy'[inst[c]] = 0 /\ istate[inst[c]] = "busy"
        /\ istate' = [istate EXCEPT ![inst[c]] = "ready"]
        /\ SignalAnd(c, "idle") /\ Return(c)
     \/ /\ busy'[inst[c]] = 0 /\ istate[inst[c]] = "draining"
        /\ inst[c] \in draining
        /\ pc' = [pc EXCEPT ![c] = "closing"]
        /\ UNCHANGED <<istate, inst>>
     \/ /\ busy'[inst[c]] = 0 => istate[inst[c]] # "busy"
        /\ busy'[inst[c]] = 0 /\ istate[inst[c]] = "draining" =>
             inst[c] \notin draining
        /\ pc' = [pc EXCEPT ![c] = "idle"] /\ Return(c)
        /\ UNCHANGED istate
  /\ key' = [key EXCEPT ![c] = NoKey]
  /\ UNCHANGED <<poolVars, live, drain, startGen, cancelled, todo, stopVars,
                 maintVars, overtaken, endVars>>

\* closeDrainDone does nothing before startDrain made the channel.
CloseDrainDone(i) ==
  drain' = [drain EXCEPT ![i] = IF @ = "waiting" THEN "closed" ELSE @]

CloseDrain(c) ==
  /\ pc[c] = "closing"
  /\ CloseDrainDone(inst[c])
  /\ pc' = [pc EXCEPT ![c] = "idle"] /\ Return(c)
  /\ UNCHANGED <<poolVars, istate, busy, live, key, startGen, cancelled, todo,
                 stopVars, maintVars, overtaken, endVars>>

--------------------------------------------------------------------------------
(* SetDesiredMinReady.                                                     *)

\* Instances and reservations count against the target.
ShortfallByOne(n) == n - 1 - (Cardinality(instances) + starting)  \* mutant
Shortfall(n) == n - (Cardinality(instances) + starting)

SetMinReady(s, n) ==
  /\ pc[s] = "idle"
  /\ minReady' = n
  /\ \/ /\ Shortfall(n) <= 0
        /\ UNCHANGED <<starting, todo, pc>>
     \/ /\ Shortfall(n) > 0
        /\ starting' = starting + Shortfall(n)
        /\ todo' = [todo EXCEPT ![s] = Shortfall(n)]
        /\ pc' = [pc EXCEPT ![s] = "loop"]
  /\ UNCHANGED <<instances, draining, sticky, generation, startInFlight,
                 startCancel, instVars, inst, key, startGen, cancelled,
                 stopVars, maintVars, overtaken, endVars>>

SetterStart(s) ==
  /\ pc[s] = "loop"
  /\ startGen' = [startGen EXCEPT ![s] = generation]
  /\ pc' = [pc EXCEPT ![s] = "starting"]
  /\ UNCHANGED <<poolVars, instVars, inst, key, cancelled, todo, stopVars,
                 maintVars, overtaken, endVars>>

GiveBackTwo(s) ==  \* mutant: the loop counts a start twice
  /\ starting' = starting - 1
  /\ todo' = [todo EXCEPT ![s] = @ - 2]
GiveBackOne(s) ==
  /\ starting' = starting - 1
  /\ todo' = [todo EXCEPT ![s] = @ - 1]

\* After one start the loop goes on or ends.
NextStart(left) == IF left > 0 THEN "loop" ELSE "idle"

SetterStartSucceeds(s) ==
  /\ pc[s] = "starting"
  /\ \E i \in Instances : Launch(s, i)
  /\ GiveBackOne(s)
  /\ pc' = [pc EXCEPT ![s] = "started"]
  /\ UNCHANGED <<instances, draining, sticky, minReady, generation,
                 startInFlight, startCancel, drain, key, startGen, cancelled,
                 stopVars, maintVars, overtaken, endVars>>

\* A failed start is remembered for the returned error; the loop goes on.
SetterStartFails(s) ==
  /\ pc[s] = "starting"
  /\ "startFail" \in Faults
  /\ GiveBackOne(s)
  /\ pc' = [pc EXCEPT ![s] = NextStart(todo[s] - 1)]
  /\ ForgetAttempt(s)
  /\ UNCHANGED <<instances, draining, sticky, minReady, generation,
                 startInFlight, startCancel, instVars, inst, key, cancelled,
                 stopVars, maintVars, endVars>>

\* A panic leaves the loop: the reservations of the starts not tried stay.
SetterStartPanics(s) ==
  /\ pc[s] = "starting"
  /\ "startPanic" \in Faults
  /\ starting' = starting - 1
  /\ todo' = [todo EXCEPT ![s] = 0]
  /\ leaked' = leaked + todo[s] - 1
  /\ pc' = [pc EXCEPT ![s] = "idle"]
  /\ ForgetAttempt(s)
  /\ UNCHANGED <<instances, draining, sticky, minReady, generation,
                 startInFlight, startCancel, instVars, inst, key, cancelled,
                 stopVars, maintVars, crashed>>

SetterPublish(s) ==
  /\ pc[s] = "started"
  /\ ~Superseded(s) /\ minReady # 0
  /\ instances' = instances \cup {inst[s]}
  /\ SignalAnd(s, NextStart(todo[s]))
  /\ Return(s) /\ ForgetAttempt(s)
  /\ UNCHANGED <<draining, sticky, minReady, starting, generation,
                 startInFlight, startCancel, instVars, key, cancelled, todo,
                 stopVars, maintVars, endVars>>

\* "start superseded" and "min ready dropped".
SetterReject(s) ==
  /\ pc[s] = "started"
  /\ Superseded(s) \/ minReady = 0
  /\ pc' = [pc EXCEPT ![s] = "discarding"]
  /\ ForgetAttempt(s)
  /\ UNCHANGED <<poolVars, instVars, inst, key, cancelled, todo, stopVars,
                 maintVars, endVars>>

SetterDiscard(s) ==
  /\ pc[s] = "discarding"
  /\ StopInstance(inst[s])
  /\ pc' = [pc EXCEPT ![s] = NextStart(todo[s])]
  /\ Return(s)
  /\ UNCHANGED <<poolVars, busy, drain, key, startGen, cancelled, todo,
                 stopVars, maintVars, overtaken, endVars>>

--------------------------------------------------------------------------------
(* StopSpec and the drain goroutine of an instance.                        *)

SameGeneration == generation  \* mutant: StopSpec leaves the generation alone
NextGeneration == generation + 1

NoneInUse == {}  \* mutant: busy instances are not deferred
InUse == {i \in instances : busy[i] > 0}

\* Every instance leaves the pool; the busy ones drain.  The registered start is
\* cancelled right after the section, here at its end.
StopSpec(s) ==
  /\ pc[s] = "idle"
  /\ generation < MaxGeneration
  /\ minReady' = 0
  /\ generation' = NextGeneration
  /\ startCancel' = NoProc
  /\ cancelled' = cancelled \cup ({startCancel} \ {NoProc})
  /\ istate' = MarkDraining(instances)
  /\ deferred' = [deferred EXCEPT ![s] = InUse]
  /\ immediate' = [immediate EXCEPT ![s] = instances \ InUse]
  /\ draining' = draining \cup InUse
  /\ instances' = {}
  /\ sticky' = [k \in RoutingKeys |-> NoInst]
  /\ overtaken' = overtaken \cup {p \in Starters : pc[p] \in {"starting", "started"}}
  /\ pc' = [pc EXCEPT ![s] = "stopping"]
  /\ UNCHANGED <<starting, startInFlight, busy, live, drain, inst, key,
                 startGen, todo, maintVars, endVars>>

\* The idle instances are stopped in parallel, in any order.
StopImmediate(s) ==
  /\ pc[s] = "stopping"
  /\ \E i \in immediate[s] :
       /\ StopInstance(i)
       /\ immediate' = [immediate EXCEPT ![s] = @ \ {i}]
  /\ UNCHANGED <<poolVars, busy, drain, pc, inst, key, startGen, cancelled,
                 todo, deferred, maintVars, overtaken, endVars>>

\* startDrain makes the channel and starts the goroutine ...
OpenDrain(s) ==
  /\ pc[s] = "stopping" /\ immediate[s] = {}
  /\ \E i \in deferred[s] :
       /\ drain' = [drain EXCEPT ![i] = "waiting"]
       /\ deferred' = [deferred EXCEPT ![s] = @ \ {i}]
       /\ inst' = [inst EXCEPT ![s] = i]
  /\ pc' = [pc EXCEPT ![s] = "drainCheck"]
  /\ UNCHANGED <<poolVars, istate, busy, live, key, startGen, cancelled, todo,
                 immediate, maintVars, overtaken, endVars>>

\* ... and then looks whether the last lease ended before the channel was there.
NoRecheck(i) == UNCHANGED drain  \* mutant: no second look
RecheckIdle(i) == IF busy[i] = 0 THEN CloseDrainDone(i) ELSE UNCHANGED drain

CheckDrain(s) ==
  /\ pc[s] = "drainCheck"
  /\ RecheckIdle(inst[s])
  /\ pc' = [pc EXCEPT ![s] = "stopping"] /\ Return(s)
  /\ UNCHANGED <<poolVars, istate, busy, live, key, startGen, cancelled, todo,
                 stopVars, maintVars, overtaken, endVars>>

StopSpecReturns(s) ==
  /\ pc[s] = "stopping" /\ immediate[s] = {} /\ deferred[s] = {}
  /\ pc' = [pc EXCEPT ![s] = "idle"]
  /\ UNCHANGED <<poolVars, instVars, inst, key, startGen, cancelled, todo,
                 stopVars, maintVars, overtaken, endVars>>

\* The drain goroutine: channel closed or timer fired, then the stop.
DrainWakes(i) ==
  /\ \/ drain[i] = "closed" /\ drain' = [drain EXCEPT ![i] = "drained"]
     \/ drain[i] \in {"waiting", "closed"}
        /\ drain' = [drain EXCEPT ![i] = "timedOut"]
  /\ draining' = draining \ {i}
  /\ UNCHANGED <<instances, sticky, minReady, starting, generation,
                 startInFlight, startCancel, istate, busy, live, pc, inst, key,
                 startGen, cancelled, todo, stopVars, maintVars, overtaken,
                 endVars>>

DrainStops(i) ==
  /\ drain[i] \in {"drained", "timedOut"}
  /\ StopInstance(i)
  /\ drain' = [drain EXCEPT ![i] = "off"]
  /\ UNCHANGED <<poolVars, busy, pc, inst, key, startGen, cancelled, todo,
                 stopVars, maintVars, overtaken, endVars>>

--------------------------------------------------------------------------------
(* The idle manager and the ping manager.                                  *)

HasBindings(i) == \E k \in RoutingKeys : sticky[k] = i

RoutableInPool == {i \in instances : Routable(i)}  \* mutant: busy ones count
ReadyInPool == {i \in instances : istate[i] = "ready"}
Reapable ==
  {i \in ReadyInPool : /\ Strategy \in {"stateless", "stateful"}
                       /\ Strategy = "stateful" => ~HasBindings(i)}

\* How many ready instances may go, and whether idleness is asked for at all.
Surplus == Cardinality(ReadyInPool) - minReady

AfterReap == IF Strategy = "stateful" THEN "expiring" ELSE "idle"

\* Marks ready instances as draining while more than minReady are left.  Without
\* a minimum none is spared, otherwise which are idle long enough is open.
ReapIdle(r) ==
  /\ pc[r] = "idle"
  /\ \E idle \in SUBSET Reapable :
       /\ IF minReady = 0 THEN idle = Reapable
          ELSE idle = {} \/ Cardinality(idle) <= Surplus
       /\ istate' = MarkDraining(idle)
       /\ candidates' = [candidates EXCEPT ![r] = idle]
       /\ pc' = [pc EXCEPT ![r] = IF idle = {} THEN AfterReap ELSE "reaping"]
  /\ UNCHANGED <<poolVars, busy, live, drain, inst, key, startGen, cancelled,
                 todo, stopVars, checks, overtaken, endVars>>

ReapStop(r) ==
  /\ pc[r] = "reaping"
  /\ \E i \in candidates[r] :
       /\ StopInstance(i)
       /\ candidates' = [candidates EXCEPT ![r] = @ \ {i}]
       /\ inst' = [inst EXCEPT ![r] = i]
  /\ pc' = [pc EXCEPT ![r] = "removing"]
  /\ UNCHANGED <<poolVars, busy, drain, key, startGen, cancelled, todo,
                 stopVars, checks, overtaken, endVars>>

\* A stopped candidate of the reaper or of the prober leaves the pool; nobody is
\* signalled.
RemoveStopped(p) ==
  /\ pc[p] = "removing"
  /\ Remove(inst[p])
  /\ pc' = [pc EXCEPT ![p] =
               IF p \in Probers
               THEN IF candidates[p] = {} THEN "idle" ELSE "failing"
               ELSE IF candidates[p] = {} THEN AfterReap ELSE "reaping"]
  /\ Return(p)
  /\ UNCHANGED <<draining, minReady, starting, generation, startInFlight,
                 startCancel, instVars, key, startGen, cancelled, todo,
                 stopVars, maintVars, overtaken, endVars>>

\* reapStaleBindings, the last part of reapIdle: any binding may have outlived
\* the session TTL.
ExpireBindings(r) ==
  /\ pc[r] = "expiring"
  /\ \E stale \in SUBSET RoutingKeys :
       sticky' = [k \in RoutingKeys |-> IF k \in stale THEN NoInst ELSE sticky[k]]
  /\ pc' = [pc EXCEPT ![r] = "idle"]
  /\ UNCHANGED <<instances, draining, minReady, starting, generation,
                 startInFlight, startCancel, instVars, inst, key, startGen,
                 cancelled, todo, stopVars, maintVars, overtaken, endVars>>

ProbeInstances(p) ==
  /\ pc[p] = "idle"
  /\ LET targets == {i \in instances : Routable(i)}
     IN  /\ targets # {}
         /\ checks' = [checks EXCEPT ![p] = targets]
  /\ pc' = [pc EXCEPT ![p] = "pinging"]
  /\ UNCHANGED <<poolVars, instVars, inst, key, startGen, cancelled, todo,
                 stopVars, candidates, overtaken, endVars>>

\* A ping over a closed connection fails, any other may.
Ping(p) ==
  /\ pc[p] = "pinging"
  /\ \E i \in checks[p] :
       /\ checks' = [checks EXCEPT ![p] = @ \ {i}]
       /\ \/ i \in live /\ UNCHANGED candidates
          \/ candidates' = [candidates EXCEPT ![p] = @ \cup {i}]
  /\ pc' = [pc EXCEPT ![p] =
               IF checks'[p] # {} THEN "pinging"
               ELSE IF candidates'[p] = {} THEN "idle" ELSE "failing"]
  /\ UNCHANGED <<poolVars, instVars, inst, key, startGen, cancelled, todo,
                 stopVars, overtaken, endVars>>

NoFailedMark(i) == istate  \* mutant
FailedMark(i) == [istate EXCEPT ![i] = "failed"]

\* A candidate is marked failed under the lock, whatever its state became since
\* it was pinged, and then stopped.
MarkFailed(p) ==
  /\ pc[p] = "failing"
  /\ \E i \in candidates[p] :
       /\ istate' = FailedMark(i)
       /\ candidates' = [candidates EXCEPT ![p] = @ \ {i}]
       /\ inst' = [inst EXCEPT ![p] = i]
  /\ pc' = [pc EXCEPT ![p] = "stopping"]
  /\ UNCHANGED <<poolVars, busy, live, drain, key, startGen, cancelled, todo,
                 stopVars, checks, overtaken, endVars>>

StopFailed(p) ==
  /\ pc[p] = "stopping"
  /\ StopInstance(inst[p])
  /\ pc' = [pc EXCEPT ![p] = "removing"]
  /\ UNCHANGED <<poolVars, busy, drain, inst, key, startGen, cancelled, todo,
                 stopVars, maintVars, overtaken, endVars>>

--------------------------------------------------------------------------------
Keys == RoutingKeys \cup {NoKey}

CallerStep(c) ==
  \/ \E k \in Keys : \/ AcquireHit(c, k) \/ AcquireStickyBusy(c, k)
                     \/ AcquireWait(c, k) \/ AcquireStart(c, k)
                     \/ AcquireReady(c, k)
  \/ WaitCancelled(c)
  \/ StartSucceeds(c) \/ StartFails(c) \/ StartPanics(c)
  \/ StartFailureSignalled(c)
  \/ AcquirePublish(c) \/ AcquireReject(c) \/ StopSuperseded(c) \/ StopDuplicate(c)
  \/ Release(c) \/ CloseDrain(c)

SetterStep(s) ==
  \/ \E n \in 0..MaxTarget : SetMinReady(s, n)
  \/ SetterStart(s) \/ SetterStartSucceeds(s) \/ SetterStartFails(s)
  \/ SetterStartPanics(s)
  \/ SetterPublish(s) \/ SetterReject(s) \/ SetterDiscard(s)

StopperStep(s) ==
  \/ StopSpec(s) \/ StopImmediate(s) \/ OpenDrain(s) \/ CheckDrain(s)
  \/ StopSpecReturns(s)

DrainStepNoStop(i) == DrainWakes(i)  \* mutant: the goroutine ends early
DrainStep(i) == DrainWakes(i) \/ DrainStops(i)

ReaperStep(r) == ReapIdle(r) \/ ReapStop(r) \/ RemoveStopped(r) \/ ExpireBindings(r)

ProberStep(p) ==
  \/ ProbeInstances(p) \/ Ping(p) \/ MarkFailed(p) \/ StopFailed(p)
  \/ RemoveStopped(p)

Next ==
  /\ ~crashed
  /\ \/ \E c \in Callers : CallerStep(c)
     \/ \E s \in Setters : SetterStep(s)
     \/ \E s \in Stoppers : StopperStep(s)
     \/ \E i \in Instances : DrainStep(i)
     \/ \E r \in Reapers : ReaperStep(r)
     \/ \E p \in Probers : ProberStep(p)

Spec == Init /\ [][Next]_vars

(* Fairness.  A goroutine inside a call goes on: StartInstance and           *)
(* StopInstance have deadlines, the lock is free between actions, the router *)
(* releases every lease when its call ends or times out, the drain timer     *)
(* fires.  Nothing makes a new call begin or a waiter's context end.         *)
InCall(p) == pc[p] \notin {"idle", "waiting"}
Fairness ==
  /\ \A c \in Callers : WF_vars(~crashed /\ InCall(c) /\ CallerStep(c))
  /\ \A s \in Setters : WF_vars(~crashed /\ InCall(s) /\ SetterStep(s))
  /\ \A s \in Stoppers : WF_vars(~crashed /\ InCall(s) /\ StopperStep(s))
  /\ \A i \in Instances : WF_vars(~crashed /\ DrainStep(i))
  /\ \A r \in Reapers : WF_vars(~crashed /\ InCall(r) /\ ReaperStep(r))
  /\ \A p \in Probers : WF_vars(~crashed /\ InCall(p) /\ ProberStep(p))

FairSpec == Spec /\ Fairness

--------------------------------------------------------------------------------
(* Safety.                                                                 *)

Holders(i) == {c \in Callers : pc[c] = "holding" /\ inst[c] = i}

\* Every lease is counted once: busyCount of an instance is the number of callers
\* that hold it, whatever stops, reaps and failed pings happen to it meanwhile,
\* and never exceeds MaxConcurrent.
BusyAccounting ==
  \A i \in Instances : i \in live \/ Holders(i) # {} =>
    busy[i] = Cardinality(Holders(i)) /\ busy[i] <= MaxConcurrent

\* The reservation counter of the pool is the number of starts that are in flight
\* or promised (starts of Acquire and the rest of each SetDesiredMinReady loop) and
\* of those that a panic in such a loop took with it: nothing else is counted for
\* good, nothing is given back twice.
StartingCallers == {c \in Callers : pc[c] = "starting"}
Promised == SumFunctionOnSet(todo, Setters)
StartingAccounting == starting = Cardinality(StartingCallers) + Promised + leaked

\* Nothing the pool counts is counted wrong.
Accounting == BusyAccounting /\ StartingAccounting

\* What Acquire may hand out is running: a routable instance of the pool has not
\* been stopped, so no lease ever goes to a closed connection.
RoutableIsLive == \A i \in instances : Routable(i) => i \in live

\* No server process is leaked: a launched instance is in the pool, draining, or
\* in the hands of a goroutine that will publish or stop it.
InHand(i) ==
  \/ \E p \in Starters :
       inst[p] = i /\ pc[p] \in {"started", "superseded", "duplicate", "discarding"}
  \/ \E s \in Stoppers : i \in immediate[s]
  \/ drain[i] \in {"drained", "timedOut"}
LiveIsOwned == \A i \in live : i \in instances \cup draining \/ InHand(i)

\* A sticky binding never outlives its instance's membership in the pool.
BindingsInPool == \A k \in RoutingKeys : sticky[k] # NoInst => sticky[k] \in instances

\* A drain whose last lease has ended always has someone about to close its
\* channel, although startDrain makes the channel after the lock is released.
NoLostDrain ==
  \A i \in Instances :
    drain[i] = "waiting" /\ busy[i] = 0 /\ istate[i] = "draining" =>
      \E p \in Callers \cup Stoppers : inst[p] = i /\ pc[p] \in {"closing", "drainCheck"}

\* Every process has an owner who will stop it, a draining one included.
Custody == LiveIsOwned /\ NoLostDrain

\* What a routing key or a search of the pool finds can be leased.
Routing == BindingsInPool /\ RoutableIsLive

\* The start gate admits one caller at a time (without start failures, those that a
\* StopSpec causes included).
SingleFlight == generation = 0 => Cardinality({c \in Callers : pc[c] = "starting"}) <= 1

\* The duplicate branch of Acquire hands out the existing singleton; it does not
\* end the process.
NeverCrashes == ~crashed

\* Once every start has ended the pool has the instances that the last
\* SetDesiredMinReady asked for (before a StopSpec, without reaping and failures).
Quiet == starting = 0 /\ \A p \in Starters : pc[p] \in {"idle", "waiting", "woken", "holding", "closing"}
MinReadyEnsured == Quiet /\ generation = 0 => Cardinality(instances) >= minReady

(* Action properties.                                                      *)

\* A StopSpec overtakes every start in flight: the instance such a start brings
\* never joins the pool, however late it arrives.
NoLateWriteback ==
  [][\A p \in overtaken : inst[p] \in instances' => inst[p] \in instances]_vars

\* A leased instance is stopped only by a failed ping or an expired drain.
NoStopWhileLeased ==
  [][\A i \in live \ live' :
       \/ Holders(i) = {}
       \/ drain[i] = "timedOut"
       \/ \E p \in Probers : pc[p] = "stopping" /\ inst[p] = i]_vars

(* Refinement: the pool implements InstanceLease.                          *)

PhaseOf(i) ==
  CASE i \notin live -> "off"
    [] i \in live /\ i \in instances /\ Routable(i) -> "open"
    [] i \in live /\ i \notin instances /\ istate[i] = "ready" -> "up"
    [] OTHER -> "closed"

Lessor == INSTANCE InstanceLease WITH
  Clients <- Callers, Capacity <- MaxConcurrent, None <- NoInst,
  phase <- [i \in Instances |-> PhaseOf(i)],
  lease <- [c \in Callers |-> IF pc[c] = "holding" THEN inst[c] ELSE NoInst]

\* Leases are granted on open instances only, within capacity; an open instance
\* is never stopped and a closed one never leased again.
ImplementsLease == Lessor!Spec

(* Liveness.                                                               *)

\* A caller waiting for somebody else's start is woken, also when that start
\* fails or is superseded: no wakeup is lost.
WaitersWake == \A c \in Callers : pc[c] = "waiting" ~> crashed \/ pc[c] # "waiting"

\* An instance taken out by StopSpec while it was busy is stopped in the end.
DrainsEnd == \A i \in Instances : i \in draining ~> crashed \/ i \notin live

================================================================================
