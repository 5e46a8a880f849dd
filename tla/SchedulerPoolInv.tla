--------------------------- MODULE SchedulerPoolInv ---------------------------
(***************************************************************************)
(* The inductive invariant of SchedulerPool behind the theorems of         *)
(* SchedulerPoolProofs; TLC checks it beside the properties it implies.    *)
(***************************************************************************)
EXTENDS SchedulerPool

\* A setter in its loop still has a reservation to give back.
TodoPositive ==
  \A s \in Setters : pc[s] \in {"loop", "starting"} => todo[s] > 0

\* A start that a StopSpec overtook read an older generation.
OvertakenIsOlder ==
  /\ \A p \in Starters : startGen[p] <= generation
  /\ \A p \in overtaken : /\ pc[p] \in {"starting", "started", "startFailed"}
                          /\ startGen[p] < generation

\* What a starter brings is its own until it is published: nothing else in the
\* scheduler refers to it.
Carrying == {"started", "superseded", "duplicate", "discarding"}
Private(p, i) ==
  /\ i \notin instances \cup draining
  /\ drain[i] = "off"
  /\ \A q \in Procs : inst[q] = i => q = p
  /\ \A s \in Stoppers : i \notin immediate[s] \cup deferred[s]
  /\ \A q \in Probers : i \notin checks[q]
  /\ \A q \in Reapers \cup Probers : i \notin candidates[q]
Unshared ==
  \A p \in Starters :
    pc[p] \in Carrying => inst[p] \in Instances /\ Private(p, inst[p])
CarriedIsLive == \A p \in Starters : pc[p] = "started" => inst[p] \in live

\* An instance somebody is about to stop is closed to callers for good.
Doomed(i) ==
  \/ drain[i] # "off"
  \/ \E s \in Stoppers : i \in immediate[s] \cup deferred[s]
  \/ \E r \in Reapers : i \in candidates[r]
  \/ \E p \in Probers : pc[p] = "stopping" /\ inst[p] = i
NoneReopened == \A i \in instances : Doomed(i) => ~Routable(i)

Bookkeeping == TodoPositive /\ OvertakenIsOlder
Ownership == BindingsInPool /\ Unshared /\ CarriedIsLive
Closure == NoneReopened /\ RoutableIsLive

\* The part that stands on its own: strong enough for RoutableIsLive,
\* BindingsInPool and NoLateWriteback.
BaseInv == TypeOK /\ Bookkeeping /\ Ownership /\ Closure

--------------------------------------------------------------------------------
(* The part about leases, reservations and drains, which rests on BaseInv. *)

\* A setter between two calls owes no reservation.
IdleOwesNothing == \A s \in Setters : pc[s] = "idle" => todo[s] = 0

\* A lease is on an instance; a ready instance has none, nor does one that a
\* stopper or a reaper has picked, or whose drain was told that it is idle.
HeldExists == \A c \in Callers : pc[c] = "holding" => inst[c] \in Instances
ToldIdle(i) ==
  \/ drain[i] \in {"closed", "drained"}
  \/ \E s \in Stoppers : i \in immediate[s]
  \/ \E r \in Reapers : i \in candidates[r]
  \/ \E c \in Callers : pc[c] = "closing" /\ inst[c] = i
FreeIsUnheld ==
  \A i \in Instances : istate[i] = "ready" \/ ToldIdle(i) => Holders(i) = {}

\* What StopSpec takes out stays out: an instance is deferred by one stopper, then
\* draining until its goroutine wakes, and never in the pool meanwhile.
Left(i) ==
  \/ i \in draining \/ drain[i] # "off"
  \/ \E s \in Stoppers : i \in immediate[s] \cup deferred[s]
  \/ \E c \in Callers : pc[c] = "closing" /\ inst[c] = i
LeftStaysOut == \A i \in Instances : Left(i) => i \notin instances
DeferredDrains ==
  \A s \in Stoppers : \A i \in deferred[s] :
    /\ i \in draining /\ drain[i] = "off"
    /\ \A t \in Stoppers \ {s} : i \notin deferred[t]
OpenDrainsListed ==
  \A i \in Instances : drain[i] \in {"waiting", "closed"} => i \in draining
RestingStopper ==
  \A s \in Stoppers : pc[s] = "idle" => immediate[s] = {} /\ deferred[s] = {}

\* An instance is removed from the pool after its stop.
RemovedIsDead ==
  \A p \in Reapers \cup Probers :
    pc[p] = "removing" => inst[p] \notin live

\* A launched instance that its starter still carries is ready, and the only kind
\* outside the pool that looks as if it could be leased.
CarriedIsReady == \A p \in Starters : pc[p] = "started" => istate[inst[p]] = "ready"
OutsideIsClosed ==
  \A i \in live \ instances :
    Routable(i) => \E p \in Starters : pc[p] \in Carrying /\ inst[p] = i

Leasing == HeldExists /\ FreeIsUnheld /\ CarriedIsReady /\ OutsideIsClosed
Leaving == LeftStaysOut /\ DeferredDrains /\ OpenDrainsListed /\ RestingStopper
           /\ RemovedIsDead
LeaseInv == IdleOwesNothing /\ Accounting /\ Leasing /\ Leaving /\ Custody

\* Everything above: preserved by every step.
IInv == BaseInv /\ LeaseInv

================================================================================
