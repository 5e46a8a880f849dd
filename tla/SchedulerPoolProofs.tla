-------------------------- MODULE SchedulerPoolProofs --------------------------
(***************************************************************************)
(* Proofs about SchedulerPool for every number of callers, setters,        *)
(* stoppers, reapers, probers and instances, every strategy and every      *)
(* combination of faults: the inductive invariant of SchedulerPoolInv is   *)
(* preserved by each action (one lemma per action), and with it the        *)
(* theorems at the end.                                                    *)
(***************************************************************************)
EXTENDS SchedulerPoolInv, FiniteSetTheorems, TLAPS

USE DEF poolVars, instVars, stopVars, maintVars, endVars, Procs, Starters

--------------------------------------------------------------------------------
(* What the helpers return.                                                *)

\* A part of the pool has a natural number of instances.
LEMMA CardNat ==
  ASSUME TypeOK
  PROVE  Cardinality(instances) \in Nat
BY FS_Subset, FS_CardinalityType, ConstantsAssumption DEF TypeOK

\* A lookup returns a routable instance of the pool.
LEMMA LeasableInPool ==
  ASSUME TypeOK, BindingsInPool, NEW k \in Keys, NEW i \in Leasable(k)
  PROVE  i \in instances /\ i \in Instances /\ Routable(i)
<1>1. CASE StickyBusy(k)
  BY <1>1 DEF Leasable
<1>2. CASE ~StickyBusy(k) /\ BoundRoutable(k)
  <2>1. i = sticky[k] /\ k \in RoutingKeys /\ sticky[k] # NoInst /\ Routable(sticky[k])
    BY <1>2 DEF Leasable, BoundRoutable, Bound, Keys
  <2> QED
    BY <2>1 DEF BindingsInPool, TypeOK
<1>3. CASE ~StickyBusy(k) /\ ~BoundRoutable(k)
  BY <1>3 DEF Leasable, LeastLoaded, TypeOK
<1> QED
  BY <1>1, <1>2, <1>3

\* A lookup may drop a binding; it makes none that leaves the pool.
LEMMA LookupKeepsBindings ==
  ASSUME TypeOK, BindingsInPool, NEW k \in Keys
  PROVE  /\ StickyAfterLookup(k) \in [RoutingKeys -> Instances \cup {NoInst}]
         /\ \A q \in RoutingKeys :
              StickyAfterLookup(k)[q] # NoInst => StickyAfterLookup(k)[q] \in instances
BY DEF StickyAfterLookup, Bound, Routable, BindingsInPool, TypeOK, Keys

\* Giving a lease back keeps the busy counts natural.
LEMMA UnleaseType ==
  ASSUME TypeOK, NEW i, Unlease(i)
  PROVE  busy' \in [Instances -> Nat]
<1>1. CASE i \in Instances
  <2>1. busy[i] \in Nat
    BY <1>1 DEF TypeOK
  <2>2. (IF busy[i] > 0 THEN busy[i] - 1 ELSE 0) \in Nat
    BY <2>1
  <2> QED
    BY <2>2 DEF TypeOK, Unlease
<1>2. CASE i \notin Instances
  BY <1>2 DEF TypeOK, Unlease
<1> QED
  BY <1>1, <1>2

--------------------------------------------------------------------------------
(* Acquire, AcquireReady and Release.                                      *)

\* AcquireHit preserves the invariant.
LEMMA AcquireHitInv ==
  ASSUME BaseInv, NEW c \in Callers, NEW k \in Keys, AcquireHit(c, k)
  PROVE  BaseInv'
<1> USE ConstantsAssumption, ProcsAreDistinct DEF BaseInv, TypeOK
<1>a. /\ sticky' \in [RoutingKeys -> Instances \cup {NoInst}]
      /\ \A q \in RoutingKeys : sticky'[q] # NoInst => sticky'[q] \in instances
  <2>1. sticky' = StickyAfterLookup(k)
    BY DEF AcquireHit
  <2> QED
    BY <2>1, LookupKeepsBindings DEF Ownership
<1>b. \A i \in Leasable(k) : i \in instances /\ i \in Instances /\ Routable(i)
  BY LeasableInPool DEF Ownership
<1>1. TypeOK'
  BY <1>a, <1>b DEF AcquireHit, Routable, Lease, AtLoopHead, PCs,
     InstanceStates, Keys
<1>2. Bookkeeping'
  BY DEF AcquireHit, AtLoopHead, Bookkeeping, TodoPositive, OvertakenIsOlder
<1>3. Ownership'
  BY <1>a, <1>b DEF AcquireHit, Lease, AtLoopHead, Ownership, BindingsInPool,
     Unshared, CarriedIsLive, Private, Carrying
<1>4. Closure'
  BY <1>a, <1>b DEF AcquireHit, Lease, AtLoopHead, Closure, NoneReopened,
     RoutableIsLive, Doomed, Routable, Ownership, Unshared, CarriedIsLive,
     Private, Carrying
<1> QED
  BY <1>1, <1>2, <1>3, <1>4

\* AcquireStickyBusy preserves the invariant.
LEMMA AcquireStickyBusyInv ==
  ASSUME BaseInv, NEW c \in Callers, NEW k \in Keys, AcquireStickyBusy(c, k)
  PROVE  BaseInv'
<1> USE ConstantsAssumption, ProcsAreDistinct DEF BaseInv, TypeOK
<1>1. TypeOK'
  BY DEF AcquireStickyBusy, Routable, Bound, AtLoopHead, PCs, InstanceStates,
     Keys
<1>2. Bookkeeping'
  BY DEF AcquireStickyBusy, AtLoopHead, Bookkeeping, TodoPositive,
     OvertakenIsOlder
<1>3. Ownership'
  BY DEF AcquireStickyBusy, Bound, AtLoopHead, Ownership, BindingsInPool,
     Unshared, CarriedIsLive, Private, Carrying
<1>4. Closure'
  BY DEF AcquireStickyBusy, Bound, AtLoopHead, Closure, NoneReopened,
     RoutableIsLive, Doomed, Routable, Ownership, Unshared, CarriedIsLive,
     Private, Carrying
<1> QED
  BY <1>1, <1>2, <1>3, <1>4

\* AcquireWait preserves the invariant.
LEMMA AcquireWaitInv ==
  ASSUME BaseInv, NEW c \in Callers, NEW k \in Keys, AcquireWait(c, k)
  PROVE  BaseInv'
<1> USE ConstantsAssumption, ProcsAreDistinct DEF BaseInv, TypeOK
<1>a. /\ sticky' \in [RoutingKeys -> Instances \cup {NoInst}]
      /\ \A q \in RoutingKeys : sticky'[q] # NoInst => sticky'[q] \in instances
  <2>1. sticky' = StickyAfterLookup(k)
    BY DEF AcquireWait
  <2> QED
    BY <2>1, LookupKeepsBindings DEF Ownership
<1>1. TypeOK'
  BY <1>a DEF AcquireWait, Routable, AtLoopHead, PCs, InstanceStates, Keys
<1>2. Bookkeeping'
  BY DEF AcquireWait, AtLoopHead, Bookkeeping, TodoPositive, OvertakenIsOlder
<1>3. Ownership'
  BY <1>a DEF AcquireWait, AtLoopHead, Ownership, BindingsInPool, Unshared,
     CarriedIsLive, Private, Carrying
<1>4. Closure'
  BY <1>a DEF AcquireWait, AtLoopHead, Closure, NoneReopened, RoutableIsLive,
     Doomed, Routable, Ownership, Unshared, CarriedIsLive, Private, Carrying
<1> QED
  BY <1>1, <1>2, <1>3, <1>4

\* AcquireStart preserves the invariant.
LEMMA AcquireStartInv ==
  ASSUME BaseInv, NEW c \in Callers, NEW k \in Keys, AcquireStart(c, k)
  PROVE  BaseInv'
<1> USE ConstantsAssumption, ProcsAreDistinct DEF BaseInv, TypeOK
<1>a. /\ sticky' \in [RoutingKeys -> Instances \cup {NoInst}]
      /\ \A q \in RoutingKeys : sticky'[q] # NoInst => sticky'[q] \in instances
  <2>1. sticky' = StickyAfterLookup(k)
    BY DEF AcquireStart
  <2> QED
    BY <2>1, LookupKeepsBindings DEF Ownership
<1>1. TypeOK'
  BY <1>a DEF AcquireStart, Routable, AtLoopHead, PCs, InstanceStates, Keys
<1>2. Bookkeeping'
  BY DEF AcquireStart, AtLoopHead, Bookkeeping, TodoPositive, OvertakenIsOlder
<1>3. Ownership'
  BY <1>a DEF AcquireStart, AtLoopHead, Ownership, BindingsInPool, Unshared,
     CarriedIsLive, Private, Carrying
<1>4. Closure'
  BY <1>a DEF AcquireStart, AtLoopHead, Closure, NoneReopened, RoutableIsLive,
     Doomed, Routable, Ownership, Unshared, CarriedIsLive, Private, Carrying
<1> QED
  BY <1>1, <1>2, <1>3, <1>4

\* AcquireReady preserves the invariant.
LEMMA AcquireReadyInv ==
  ASSUME BaseInv, NEW c \in Callers, NEW k \in Keys, AcquireReady(c, k)
  PROVE  BaseInv'
<1> USE ConstantsAssumption, ProcsAreDistinct DEF BaseInv, TypeOK
<1>a. /\ sticky' \in [RoutingKeys -> Instances \cup {NoInst}]
      /\ \A q \in RoutingKeys : sticky'[q] # NoInst => sticky'[q] \in instances
  <2>1. sticky' = StickyAfterLookup(k)
    BY DEF AcquireReady
  <2> QED
    BY <2>1, LookupKeepsBindings DEF Ownership
<1>b. \A i \in Leasable(k) : i \in instances /\ i \in Instances /\ Routable(i)
  BY LeasableInPool DEF Ownership
<1>1. TypeOK'
  BY <1>a, <1>b DEF AcquireReady, Routable, Lease, PCs, InstanceStates, Keys
<1>2. Bookkeeping'
  BY DEF AcquireReady, Bookkeeping, TodoPositive, OvertakenIsOlder
<1>3. Ownership'
  BY <1>a, <1>b DEF AcquireReady, Lease, Ownership, BindingsInPool, Unshared,
     CarriedIsLive, Private, Carrying
<1>4. Closure'
  <2>1. CASE UNCHANGED <<istate, busy, inst, pc>>
    BY <2>1 DEF AcquireReady, Closure, NoneReopened, RoutableIsLive, Doomed,
       Routable, Ownership, Unshared, CarriedIsLive, Private, Carrying
  <2>2. CASE pc' = [pc EXCEPT ![c] = "holding"] /\ \E i \in Leasable(k) : Lease(i)
          /\ inst' = [inst EXCEPT ![c] = i]
    BY <1>b, <2>2 DEF AcquireReady, Lease, Closure, NoneReopened,
       RoutableIsLive, Doomed, Routable, Ownership, Unshared, CarriedIsLive,
       Private, Carrying
  <2> QED
    BY <2>1, <2>2 DEF AcquireReady
<1> QED
  BY <1>1, <1>2, <1>3, <1>4

\* WaitCancelled preserves the invariant.
LEMMA WaitCancelledInv ==
  ASSUME BaseInv, NEW c \in Callers, WaitCancelled(c)
  PROVE  BaseInv'
<1> USE ConstantsAssumption, ProcsAreDistinct DEF BaseInv, TypeOK
<1>1. TypeOK'
  BY DEF WaitCancelled, SignalAnd, Woken, PCs, InstanceStates
<1>2. Bookkeeping'
  BY DEF WaitCancelled, SignalAnd, Woken, Bookkeeping, TodoPositive,
     OvertakenIsOlder
<1>3. Ownership'
  BY DEF WaitCancelled, SignalAnd, Woken, Ownership, BindingsInPool, Unshared,
     CarriedIsLive, Private, Carrying
<1>4. Closure'
  BY DEF WaitCancelled, SignalAnd, Woken, Closure, NoneReopened,
     RoutableIsLive, Doomed, Routable, Ownership, Unshared, CarriedIsLive,
     Private, Carrying
<1> QED
  BY <1>1, <1>2, <1>3, <1>4

\* StartSucceeds preserves the invariant.
LEMMA StartSucceedsInv ==
  ASSUME BaseInv, NEW c \in Callers, StartSucceeds(c)
  PROVE  BaseInv'
<1> USE ConstantsAssumption, ProcsAreDistinct DEF BaseInv, TypeOK
<1>1. TypeOK'
  BY DEF StartSucceeds, ReleaseReservation, Launch, Fresh, PCs, InstanceStates
<1>2. Bookkeeping'
  BY DEF StartSucceeds, Bookkeeping, TodoPositive, OvertakenIsOlder
<1>3. Ownership'
  BY DEF StartSucceeds, ReleaseReservation, Launch, Fresh, Ownership,
     BindingsInPool, Unshared, CarriedIsLive, Private, Carrying
<1>4. Closure'
  BY DEF StartSucceeds, ReleaseReservation, Launch, Fresh, Closure,
     NoneReopened, RoutableIsLive, Doomed, Routable, Ownership, Unshared,
     CarriedIsLive, Private, Carrying
<1> QED
  BY <1>1, <1>2, <1>3, <1>4

\* StartFails preserves the invariant.
LEMMA StartFailsInv ==
  ASSUME BaseInv, NEW c \in Callers, StartFails(c)
  PROVE  BaseInv'
<1> USE ConstantsAssumption, ProcsAreDistinct DEF BaseInv, TypeOK
<1>c. startInFlight' \in BOOLEAN
  BY DEF StartFails
<1>1. TypeOK'
  BY <1>c DEF StartFails, ReleaseReservation, PCs, InstanceStates
<1>2. Bookkeeping'
  BY DEF StartFails, Bookkeeping, TodoPositive, OvertakenIsOlder
<1>3. Ownership'
  BY DEF StartFails, ReleaseReservation, Ownership, BindingsInPool, Unshared,
     CarriedIsLive, Private, Carrying
<1>4. Closure'
  BY DEF StartFails, ReleaseReservation, Closure, NoneReopened,
     RoutableIsLive, Doomed, Routable, Ownership, Unshared, CarriedIsLive,
     Private, Carrying
<1> QED
  BY <1>1, <1>2, <1>3, <1>4

\* StartPanics preserves the invariant.
LEMMA StartPanicsInv ==
  ASSUME BaseInv, NEW c \in Callers, StartPanics(c)
  PROVE  BaseInv'
<1> USE ConstantsAssumption, ProcsAreDistinct DEF BaseInv, TypeOK
<1>c. startInFlight' \in BOOLEAN
  BY DEF StartPanics
<1>1. TypeOK'
  BY <1>c DEF StartPanics, ForgetAttempt, ReleaseReservation, PCs,
     InstanceStates
<1>2. Bookkeeping'
  BY DEF StartPanics, ForgetAttempt, Bookkeeping, TodoPositive,
     OvertakenIsOlder
<1>3. Ownership'
  BY DEF StartPanics, ForgetAttempt, ReleaseReservation, Ownership,
     BindingsInPool, Unshared, CarriedIsLive, Private, Carrying
<1>4. Closure'
  BY DEF StartPanics, ForgetAttempt, ReleaseReservation, Closure,
     NoneReopened, RoutableIsLive, Doomed, Routable, Ownership, Unshared,
     CarriedIsLive, Private, Carrying
<1> QED
  BY <1>1, <1>2, <1>3, <1>4

\* StartFailureSignalled preserves the invariant.
LEMMA StartFailureSignalledInv ==
  ASSUME BaseInv, NEW c \in Callers, StartFailureSignalled(c)
  PROVE  BaseInv'
<1> USE ConstantsAssumption, ProcsAreDistinct DEF BaseInv, TypeOK
<1>c. startInFlight' \in BOOLEAN
  BY DEF StartFailureSignalled
<1>1. TypeOK'
  BY <1>c DEF StartFailureSignalled, SignalAnd, Woken, ForgetAttempt, PCs,
     InstanceStates
<1>2. Bookkeeping'
  BY DEF StartFailureSignalled, SignalAnd, Woken, ForgetAttempt, Bookkeeping,
     TodoPositive, OvertakenIsOlder
<1>3. Ownership'
  BY DEF StartFailureSignalled, SignalAnd, Woken, ForgetAttempt, Ownership,
     BindingsInPool, Unshared, CarriedIsLive, Private, Carrying
<1>4. Closure'
  BY DEF StartFailureSignalled, SignalAnd, Woken, ForgetAttempt, Closure,
     NoneReopened, RoutableIsLive, Doomed, Routable, Ownership, Unshared,
     CarriedIsLive, Private, Carrying
<1> QED
  BY <1>1, <1>2, <1>3, <1>4

\* AcquirePublish preserves the invariant.
LEMMA AcquirePublishInv ==
  ASSUME BaseInv, NEW c \in Callers, AcquirePublish(c)
  PROVE  BaseInv'
<1> USE ConstantsAssumption, ProcsAreDistinct DEF BaseInv, TypeOK
<1>c. startInFlight' \in BOOLEAN
  BY DEF AcquirePublish
<1>1. TypeOK'
  BY <1>c DEF AcquirePublish, SignalAnd, Woken, Lease, ForgetAttempt,
     Superseded, BindOnStart, PCs, InstanceStates, Ownership, Unshared,
     Carrying
<1>2. Bookkeeping'
  BY DEF AcquirePublish, SignalAnd, Woken, ForgetAttempt, Bookkeeping,
     TodoPositive, OvertakenIsOlder
<1>3. Ownership'
  BY DEF AcquirePublish, SignalAnd, Woken, Lease, ForgetAttempt, Superseded,
     BindOnStart, Ownership, BindingsInPool, Unshared, CarriedIsLive, Private,
     Carrying
<1>4. Closure'
  BY DEF AcquirePublish, SignalAnd, Woken, Lease, ForgetAttempt, Superseded,
     BindOnStart, Closure, NoneReopened, RoutableIsLive, Doomed, Routable,
     Ownership, Unshared, CarriedIsLive, Private, Carrying
<1> QED
  BY <1>1, <1>2, <1>3, <1>4

\* AcquireReject preserves the invariant.
LEMMA AcquireRejectInv ==
  ASSUME BaseInv, NEW c \in Callers, AcquireReject(c)
  PROVE  BaseInv'
<1> USE ConstantsAssumption, ProcsAreDistinct DEF BaseInv, TypeOK
<1>c. startInFlight' \in BOOLEAN
  BY DEF AcquireReject
<1>1. TypeOK'
  BY <1>c DEF AcquireReject, SignalAnd, Woken, ForgetAttempt, Superseded, PCs,
     InstanceStates
<1>2. Bookkeeping'
  BY DEF AcquireReject, SignalAnd, Woken, ForgetAttempt, Bookkeeping,
     TodoPositive, OvertakenIsOlder
<1>3. Ownership'
  BY DEF AcquireReject, SignalAnd, Woken, ForgetAttempt, Superseded,
     Ownership, BindingsInPool, Unshared, CarriedIsLive, Private, Carrying
<1>4. Closure'
  BY DEF AcquireReject, SignalAnd, Woken, ForgetAttempt, Superseded, Closure,
     NoneReopened, RoutableIsLive, Doomed, Routable, Ownership, Unshared,
     CarriedIsLive, Private, Carrying
<1> QED
  BY <1>1, <1>2, <1>3, <1>4

\* StopSuperseded preserves the invariant.
LEMMA StopSupersededInv ==
  ASSUME BaseInv, NEW c \in Callers, StopSuperseded(c)
  PROVE  BaseInv'
<1> USE ConstantsAssumption, ProcsAreDistinct DEF BaseInv, TypeOK
<1>1. TypeOK'
  BY DEF StopSuperseded, StopInstance, Return, PCs, InstanceStates
<1>2. Bookkeeping'
  BY DEF StopSuperseded, Return, Bookkeeping, TodoPositive, OvertakenIsOlder
<1>3. Ownership'
  BY DEF StopSuperseded, StopInstance, Return, Ownership, BindingsInPool,
     Unshared, CarriedIsLive, Private, Carrying, Closure, NoneReopened, Doomed
<1>4. Closure'
  BY DEF StopSuperseded, StopInstance, Return, Closure, NoneReopened,
     RoutableIsLive, Doomed, Routable, Ownership, Unshared, CarriedIsLive,
     Private, Carrying
<1> QED
  BY <1>1, <1>2, <1>3, <1>4

\* StopDuplicate preserves the invariant.
LEMMA StopDuplicateInv ==
  ASSUME BaseInv, NEW c \in Callers, StopDuplicate(c)
  PROVE  BaseInv'
<1> USE ConstantsAssumption, ProcsAreDistinct DEF BaseInv, TypeOK
<1>1. TypeOK'
  BY DEF StopDuplicate, StopInstance, PCs, InstanceStates
<1>2. Bookkeeping'
  BY DEF StopDuplicate, Bookkeeping, TodoPositive, OvertakenIsOlder
<1>3. Ownership'
  BY DEF StopDuplicate, StopInstance, Ownership, BindingsInPool, Unshared,
     CarriedIsLive, Private, Carrying, Closure, NoneReopened, Doomed
<1>4. Closure'
  BY DEF StopDuplicate, StopInstance, Closure, NoneReopened, RoutableIsLive,
     Doomed, Routable, Ownership, Unshared, CarriedIsLive, Private, Carrying
<1> QED
  BY <1>1, <1>2, <1>3, <1>4

\* Release preserves the invariant.
LEMMA ReleaseInv ==
  ASSUME BaseInv, NEW c \in Callers, Release(c)
  PROVE  BaseInv'
<1> USE ConstantsAssumption, ProcsAreDistinct DEF BaseInv, TypeOK
<1>1. TypeOK'
  BY UnleaseType DEF Release, SignalAnd, Woken, Return, PCs, InstanceStates
<1>2. Bookkeeping'
  BY DEF Release, SignalAnd, Woken, Return, Bookkeeping, TodoPositive,
     OvertakenIsOlder
<1>3. Ownership'
  BY DEF Release, SignalAnd, Woken, Return, Ownership, BindingsInPool,
     Unshared, CarriedIsLive, Private, Carrying
<1>4. Closure'
  BY DEF Release, SignalAnd, Woken, Return, Closure, NoneReopened,
     RoutableIsLive, Doomed, Routable, Ownership, Unshared, CarriedIsLive,
     Private, Carrying
<1> QED
  BY <1>1, <1>2, <1>3, <1>4

\* CloseDrain preserves the invariant.
LEMMA CloseDrainInv ==
  ASSUME BaseInv, NEW c \in Callers, CloseDrain(c)
  PROVE  BaseInv'
<1> USE ConstantsAssumption, ProcsAreDistinct DEF BaseInv, TypeOK
<1>1. TypeOK'
  BY DEF CloseDrain, Return, CloseDrainDone, PCs, InstanceStates
<1>2. Bookkeeping'
  BY DEF CloseDrain, Return, Bookkeeping, TodoPositive, OvertakenIsOlder
<1>3. Ownership'
  BY DEF CloseDrain, Return, CloseDrainDone, Ownership, BindingsInPool,
     Unshared, CarriedIsLive, Private, Carrying
<1>4. Closure'
  BY DEF CloseDrain, Return, CloseDrainDone, Closure, NoneReopened,
     RoutableIsLive, Doomed, Routable, Ownership, Unshared, CarriedIsLive,
     Private, Carrying
<1> QED
  BY <1>1, <1>2, <1>3, <1>4

--------------------------------------------------------------------------------
(* SetDesiredMinReady.                                                     *)

\* SetMinReady preserves the invariant.
LEMMA SetMinReadyInv ==
  ASSUME BaseInv, NEW s \in Setters, NEW n \in 0..MaxTarget, SetMinReady(s, n)
  PROVE  BaseInv'
<1> USE ConstantsAssumption, ProcsAreDistinct DEF BaseInv, TypeOK
<1>1. TypeOK'
  BY CardNat DEF SetMinReady, Shortfall, PCs, InstanceStates, Bookkeeping,
     TodoPositive
<1>2. Bookkeeping'
  BY CardNat DEF SetMinReady, Shortfall, Bookkeeping, TodoPositive,
     OvertakenIsOlder
<1>3. Ownership'
  BY DEF SetMinReady, Shortfall, Ownership, BindingsInPool, Unshared,
     CarriedIsLive, Private, Carrying
<1>4. Closure'
  BY DEF SetMinReady, Shortfall, Closure, NoneReopened, RoutableIsLive,
     Doomed, Routable, Ownership, Unshared, CarriedIsLive, Private, Carrying
<1> QED
  BY <1>1, <1>2, <1>3, <1>4

\* SetterStart preserves the invariant.
LEMMA SetterStartInv ==
  ASSUME BaseInv, NEW s \in Setters, SetterStart(s)
  PROVE  BaseInv'
<1> USE ConstantsAssumption, ProcsAreDistinct DEF BaseInv, TypeOK
<1>1. TypeOK'
  BY DEF SetterStart, PCs, InstanceStates, Bookkeeping, TodoPositive
<1>2. Bookkeeping'
  BY DEF SetterStart, Bookkeeping, TodoPositive, OvertakenIsOlder
<1>3. Ownership'
  BY DEF SetterStart, Ownership, BindingsInPool, Unshared, CarriedIsLive,
     Private, Carrying
<1>4. Closure'
  BY DEF SetterStart, Closure, NoneReopened, RoutableIsLive, Doomed, Routable,
     Ownership, Unshared, CarriedIsLive, Private, Carrying
<1> QED
  BY <1>1, <1>2, <1>3, <1>4

\* SetterStartSucceeds preserves the invariant.
LEMMA SetterStartSucceedsInv ==
  ASSUME BaseInv, NEW s \in Setters, SetterStartSucceeds(s)
  PROVE  BaseInv'
<1> USE ConstantsAssumption, ProcsAreDistinct DEF BaseInv, TypeOK
<1>1. TypeOK'
  BY DEF SetterStartSucceeds, Launch, Fresh, GiveBackOne, PCs, InstanceStates,
     Bookkeeping, TodoPositive
<1>2. Bookkeeping'
  BY DEF SetterStartSucceeds, GiveBackOne, Bookkeeping, TodoPositive,
     OvertakenIsOlder
<1>3. Ownership'
  BY DEF SetterStartSucceeds, Launch, Fresh, GiveBackOne, Ownership,
     BindingsInPool, Unshared, CarriedIsLive, Private, Carrying
<1>4. Closure'
  BY DEF SetterStartSucceeds, Launch, Fresh, GiveBackOne, Closure,
     NoneReopened, RoutableIsLive, Doomed, Routable, Ownership, Unshared,
     CarriedIsLive, Private, Carrying
<1> QED
  BY <1>1, <1>2, <1>3, <1>4

\* SetterStartFails preserves the invariant.
LEMMA SetterStartFailsInv ==
  ASSUME BaseInv, NEW s \in Setters, SetterStartFails(s)
  PROVE  BaseInv'
<1> USE ConstantsAssumption, ProcsAreDistinct DEF BaseInv, TypeOK
<1>1. TypeOK'
  BY DEF SetterStartFails, ForgetAttempt, GiveBackOne, NextStart, PCs,
     InstanceStates, Bookkeeping, TodoPositive
<1>2. Bookkeeping'
  BY DEF SetterStartFails, ForgetAttempt, GiveBackOne, NextStart, Bookkeeping,
     TodoPositive, OvertakenIsOlder
<1>3. Ownership'
  BY DEF SetterStartFails, ForgetAttempt, GiveBackOne, NextStart, Ownership,
     BindingsInPool, Unshared, CarriedIsLive, Private, Carrying
<1>4. Closure'
  BY DEF SetterStartFails, ForgetAttempt, GiveBackOne, NextStart, Closure,
     NoneReopened, RoutableIsLive, Doomed, Routable, Ownership, Unshared,
     CarriedIsLive, Private, Carrying
<1> QED
  BY <1>1, <1>2, <1>3, <1>4

\* SetterStartPanics preserves the invariant.
LEMMA SetterStartPanicsInv ==
  ASSUME BaseInv, NEW s \in Setters, SetterStartPanics(s)
  PROVE  BaseInv'
<1> USE ConstantsAssumption, ProcsAreDistinct DEF BaseInv, TypeOK
<1>1. TypeOK'
  BY DEF SetterStartPanics, ForgetAttempt, PCs, InstanceStates, Bookkeeping,
     TodoPositive
<1>2. Bookkeeping'
  BY DEF SetterStartPanics, ForgetAttempt, Bookkeeping, TodoPositive,
     OvertakenIsOlder
<1>3. Ownership'
  BY DEF SetterStartPanics, ForgetAttempt, Ownership, BindingsInPool,
     Unshared, CarriedIsLive, Private, Carrying
<1>4. Closure'
  BY DEF SetterStartPanics, ForgetAttempt, Closure, NoneReopened,
     RoutableIsLive, Doomed, Routable, Ownership, Unshared, CarriedIsLive,
     Private, Carrying
<1> QED
  BY <1>1, <1>2, <1>3, <1>4

\* SetterPublish preserves the invariant.
LEMMA SetterPublishInv ==
  ASSUME BaseInv, NEW s \in Setters, SetterPublish(s)
  PROVE  BaseInv'
<1> USE ConstantsAssumption, ProcsAreDistinct DEF BaseInv, TypeOK
<1>1. TypeOK'
  BY DEF SetterPublish, SignalAnd, Woken, Return, ForgetAttempt, Superseded,
     NextStart, PCs, InstanceStates, Ownership, Unshared, Carrying,
     Bookkeeping, TodoPositive
<1>2. Bookkeeping'
  BY DEF SetterPublish, SignalAnd, Woken, Return, ForgetAttempt, NextStart,
     Bookkeeping, TodoPositive, OvertakenIsOlder
<1>3. Ownership'
  BY DEF SetterPublish, SignalAnd, Woken, Return, ForgetAttempt, Superseded,
     NextStart, Ownership, BindingsInPool, Unshared, CarriedIsLive, Private,
     Carrying
<1>4. Closure'
  BY DEF SetterPublish, SignalAnd, Woken, Return, ForgetAttempt, Superseded,
     NextStart, Closure, NoneReopened, RoutableIsLive, Doomed, Routable,
     Ownership, Unshared, CarriedIsLive, Private, Carrying
<1> QED
  BY <1>1, <1>2, <1>3, <1>4

\* SetterReject preserves the invariant.
LEMMA SetterRejectInv ==
  ASSUME BaseInv, NEW s \in Setters, SetterReject(s)
  PROVE  BaseInv'
<1> USE ConstantsAssumption, ProcsAreDistinct DEF BaseInv, TypeOK
<1>1. TypeOK'
  BY DEF SetterReject, ForgetAttempt, Superseded, PCs, InstanceStates,
     Bookkeeping, TodoPositive
<1>2. Bookkeeping'
  BY DEF SetterReject, ForgetAttempt, Bookkeeping, TodoPositive,
     OvertakenIsOlder
<1>3. Ownership'
  BY DEF SetterReject, ForgetAttempt, Superseded, Ownership, BindingsInPool,
     Unshared, CarriedIsLive, Private, Carrying
<1>4. Closure'
  BY DEF SetterReject, ForgetAttempt, Superseded, Closure, NoneReopened,
     RoutableIsLive, Doomed, Routable, Ownership, Unshared, CarriedIsLive,
     Private, Carrying
<1> QED
  BY <1>1, <1>2, <1>3, <1>4

\* SetterDiscard preserves the invariant.
LEMMA SetterDiscardInv ==
  ASSUME BaseInv, NEW s \in Setters, SetterDiscard(s)
  PROVE  BaseInv'
<1> USE ConstantsAssumption, ProcsAreDistinct DEF BaseInv, TypeOK
<1>1. TypeOK'
  BY DEF SetterDiscard, StopInstance, Return, NextStart, PCs, InstanceStates,
     Bookkeeping, TodoPositive
<1>2. Bookkeeping'
  BY DEF SetterDiscard, Return, NextStart, Bookkeeping, TodoPositive,
     OvertakenIsOlder
<1>3. Ownership'
  BY DEF SetterDiscard, StopInstance, Return, NextStart, Ownership,
     BindingsInPool, Unshared, CarriedIsLive, Private, Carrying, Closure,
     NoneReopened, Doomed
<1>4. Closure'
  BY DEF SetterDiscard, StopInstance, Return, NextStart, Closure,
     NoneReopened, RoutableIsLive, Doomed, Routable, Ownership, Unshared,
     CarriedIsLive, Private, Carrying
<1> QED
  BY <1>1, <1>2, <1>3, <1>4

--------------------------------------------------------------------------------
(* StopSpec and drains.                                                    *)

\* StopSpec preserves the invariant.
LEMMA StopSpecInv ==
  ASSUME BaseInv, NEW t \in Stoppers, StopSpec(t)
  PROVE  BaseInv'
<1> USE ConstantsAssumption, ProcsAreDistinct DEF BaseInv, TypeOK
<1>1. TypeOK'
  BY DEF StopSpec, NextGeneration, InUse, MarkDraining, PCs, InstanceStates
<1>2. Bookkeeping'
  BY DEF StopSpec, NextGeneration, Bookkeeping, TodoPositive, OvertakenIsOlder
<1>3. Ownership'
  BY DEF StopSpec, NextGeneration, InUse, MarkDraining, Ownership,
     BindingsInPool, Unshared, CarriedIsLive, Private, Carrying
<1>4. Closure'
  BY DEF StopSpec, NextGeneration, InUse, MarkDraining, Closure, NoneReopened,
     RoutableIsLive, Doomed, Routable, Ownership, Unshared, CarriedIsLive,
     Private, Carrying
<1> QED
  BY <1>1, <1>2, <1>3, <1>4

\* StopImmediate preserves the invariant.
LEMMA StopImmediateInv ==
  ASSUME BaseInv, NEW t \in Stoppers, StopImmediate(t)
  PROVE  BaseInv'
<1> USE ConstantsAssumption, ProcsAreDistinct DEF BaseInv, TypeOK
<1>1. TypeOK'
  BY DEF StopImmediate, StopInstance, PCs, InstanceStates
<1>2. Bookkeeping'
  BY DEF StopImmediate, Bookkeeping, TodoPositive, OvertakenIsOlder
<1>3. Ownership'
  BY DEF StopImmediate, StopInstance, Ownership, BindingsInPool, Unshared,
     CarriedIsLive, Private, Carrying, Closure, NoneReopened, Doomed
<1>4. Closure'
  BY DEF StopImmediate, StopInstance, Closure, NoneReopened, RoutableIsLive,
     Doomed, Routable, Ownership, Unshared, CarriedIsLive, Private, Carrying
<1> QED
  BY <1>1, <1>2, <1>3, <1>4

\* OpenDrain preserves the invariant.
LEMMA OpenDrainInv ==
  ASSUME BaseInv, NEW t \in Stoppers, OpenDrain(t)
  PROVE  BaseInv'
<1> USE ConstantsAssumption, ProcsAreDistinct DEF BaseInv, TypeOK
<1>1. TypeOK'
  BY DEF OpenDrain, PCs, InstanceStates
<1>2. Bookkeeping'
  BY DEF OpenDrain, Bookkeeping, TodoPositive, OvertakenIsOlder
<1>3. Ownership'
  BY DEF OpenDrain, Ownership, BindingsInPool, Unshared, CarriedIsLive,
     Private, Carrying
<1>4. Closure'
  BY DEF OpenDrain, Closure, NoneReopened, RoutableIsLive, Doomed, Routable,
     Ownership, Unshared, CarriedIsLive, Private, Carrying
<1> QED
  BY <1>1, <1>2, <1>3, <1>4

\* CheckDrain preserves the invariant.
LEMMA CheckDrainInv ==
  ASSUME BaseInv, NEW t \in Stoppers, CheckDrain(t)
  PROVE  BaseInv'
<1> USE ConstantsAssumption, ProcsAreDistinct DEF BaseInv, TypeOK
<1>1. TypeOK'
  BY SMTT(30) DEF CheckDrain, Return, RecheckIdle, CloseDrainDone, PCs, InstanceStates
<1>2. Bookkeeping'
  BY DEF CheckDrain, Return, Bookkeeping, TodoPositive, OvertakenIsOlder
<1>3. Ownership'
  BY DEF CheckDrain, Return, RecheckIdle, CloseDrainDone, Ownership,
     BindingsInPool, Unshared, CarriedIsLive, Private, Carrying
<1>4. Closure'
  BY DEF CheckDrain, Return, RecheckIdle, CloseDrainDone, Closure,
     NoneReopened, RoutableIsLive, Doomed, Routable, Ownership, Unshared,
     CarriedIsLive, Private, Carrying
<1> QED
  BY <1>1, <1>2, <1>3, <1>4

\* StopSpecReturns preserves the invariant.
LEMMA StopSpecReturnsInv ==
  ASSUME BaseInv, NEW t \in Stoppers, StopSpecReturns(t)
  PROVE  BaseInv'
<1> USE ConstantsAssumption, ProcsAreDistinct DEF BaseInv, TypeOK
<1>1. TypeOK'
  BY DEF StopSpecReturns, PCs, InstanceStates
<1>2. Bookkeeping'
  BY DEF StopSpecReturns, Bookkeeping, TodoPositive, OvertakenIsOlder
<1>3. Ownership'
  BY DEF StopSpecReturns, Ownership, BindingsInPool, Unshared, CarriedIsLive,
     Private, Carrying
<1>4. Closure'
  BY DEF StopSpecReturns, Closure, NoneReopened, RoutableIsLive, Doomed,
     Routable, Ownership, Unshared, CarriedIsLive, Private, Carrying
<1> QED
  BY <1>1, <1>2, <1>3, <1>4

\* DrainWakes preserves the invariant.
LEMMA DrainWakesInv ==
  ASSUME BaseInv, NEW i \in Instances, DrainWakes(i)
  PROVE  BaseInv'
<1> USE ConstantsAssumption, ProcsAreDistinct DEF BaseInv, TypeOK
<1>1. TypeOK'
  BY DEF DrainWakes, PCs, InstanceStates
<1>2. Bookkeeping'
  BY DEF DrainWakes, Bookkeeping, TodoPositive, OvertakenIsOlder
<1>3. Ownership'
  BY DEF DrainWakes, Ownership, BindingsInPool, Unshared, CarriedIsLive,
     Private, Carrying
<1>4. Closure'
  BY DEF DrainWakes, Closure, NoneReopened, RoutableIsLive, Doomed, Routable,
     Ownership, Unshared, CarriedIsLive, Private, Carrying
<1> QED
  BY <1>1, <1>2, <1>3, <1>4

\* DrainStops preserves the invariant.
LEMMA DrainStopsInv ==
  ASSUME BaseInv, NEW i \in Instances, DrainStops(i)
  PROVE  BaseInv'
<1> USE ConstantsAssumption, ProcsAreDistinct DEF BaseInv, TypeOK
<1>1. TypeOK'
  BY DEF DrainStops, StopInstance, PCs, InstanceStates
<1>2. Bookkeeping'
  BY DEF DrainStops, Bookkeeping, TodoPositive, OvertakenIsOlder
<1>3. Ownership'
  BY DEF DrainStops, StopInstance, Ownership, BindingsInPool, Unshared,
     CarriedIsLive, Private, Carrying, Closure, NoneReopened, Doomed
<1>4. Closure'
  BY DEF DrainStops, StopInstance, Closure, NoneReopened, RoutableIsLive,
     Doomed, Routable, Ownership, Unshared, CarriedIsLive, Private, Carrying
<1> QED
  BY <1>1, <1>2, <1>3, <1>4

--------------------------------------------------------------------------------
(* Maintenance.                                                            *)

\* ReapIdle preserves the invariant.
LEMMA ReapIdleInv ==
  ASSUME BaseInv, NEW r \in Reapers, ReapIdle(r)
  PROVE  BaseInv'
<1> USE ConstantsAssumption, ProcsAreDistinct DEF BaseInv, TypeOK
<1>1. TypeOK'
  BY DEF ReapIdle, Reapable, ReadyInPool, HasBindings, AfterReap,
     MarkDraining, PCs, InstanceStates
<1>2. Bookkeeping'
  BY DEF ReapIdle, AfterReap, Bookkeeping, TodoPositive, OvertakenIsOlder
<1>3. Ownership'
  BY DEF ReapIdle, Reapable, ReadyInPool, HasBindings, AfterReap,
     MarkDraining, Ownership, BindingsInPool, Unshared, CarriedIsLive,
     Private, Carrying
<1>4. Closure'
  BY DEF ReapIdle, Reapable, ReadyInPool, HasBindings, AfterReap,
     MarkDraining, Closure, NoneReopened, RoutableIsLive, Doomed, Routable,
     Ownership, Unshared, CarriedIsLive, Private, Carrying
<1> QED
  BY <1>1, <1>2, <1>3, <1>4

\* ReapStop preserves the invariant.
LEMMA ReapStopInv ==
  ASSUME BaseInv, NEW r \in Reapers, ReapStop(r)
  PROVE  BaseInv'
<1> USE ConstantsAssumption, ProcsAreDistinct DEF BaseInv, TypeOK
<1>1. TypeOK'
  BY DEF ReapStop, StopInstance, PCs, InstanceStates
<1>2. Bookkeeping'
  BY DEF ReapStop, Bookkeeping, TodoPositive, OvertakenIsOlder
<1>3. Ownership'
  BY DEF ReapStop, StopInstance, Ownership, BindingsInPool, Unshared,
     CarriedIsLive, Private, Carrying, Closure, NoneReopened, Doomed
<1>4. Closure'
  BY DEF ReapStop, StopInstance, Closure, NoneReopened, RoutableIsLive,
     Doomed, Routable, Ownership, Unshared, CarriedIsLive, Private, Carrying
<1> QED
  BY <1>1, <1>2, <1>3, <1>4

\* RemoveStopped preserves the invariant.
LEMMA RemoveStoppedInv ==
  ASSUME BaseInv, NEW m \in Reapers \cup Probers, RemoveStopped(m)
  PROVE  BaseInv'
<1> USE ConstantsAssumption, ProcsAreDistinct DEF BaseInv, TypeOK
<1>1. TypeOK'
  BY DEF RemoveStopped, Remove, Return, AfterReap, PCs, InstanceStates
<1>2. Bookkeeping'
  BY DEF RemoveStopped, Return, AfterReap, Bookkeeping, TodoPositive,
     OvertakenIsOlder
<1>3. Ownership'
  BY DEF RemoveStopped, Remove, Return, AfterReap, Ownership, BindingsInPool,
     Unshared, CarriedIsLive, Private, Carrying
<1>4. Closure'
  BY DEF RemoveStopped, Remove, Return, AfterReap, Closure, NoneReopened,
     RoutableIsLive, Doomed, Routable, Ownership, Unshared, CarriedIsLive,
     Private, Carrying
<1> QED
  BY <1>1, <1>2, <1>3, <1>4

\* ExpireBindings preserves the invariant.
LEMMA ExpireBindingsInv ==
  ASSUME BaseInv, NEW r \in Reapers, ExpireBindings(r)
  PROVE  BaseInv'
<1> USE ConstantsAssumption, ProcsAreDistinct DEF BaseInv, TypeOK
<1>1. TypeOK'
  BY DEF ExpireBindings, PCs, InstanceStates
<1>2. Bookkeeping'
  BY DEF ExpireBindings, Bookkeeping, TodoPositive, OvertakenIsOlder
<1>3. Ownership'
  BY DEF ExpireBindings, Ownership, BindingsInPool, Unshared, CarriedIsLive,
     Private, Carrying
<1>4. Closure'
  BY DEF ExpireBindings, Closure, NoneReopened, RoutableIsLive, Doomed,
     Routable, Ownership, Unshared, CarriedIsLive, Private, Carrying
<1> QED
  BY <1>1, <1>2, <1>3, <1>4

\* ProbeInstances preserves the invariant.
LEMMA ProbeInstancesInv ==
  ASSUME BaseInv, NEW p \in Probers, ProbeInstances(p)
  PROVE  BaseInv'
<1> USE ConstantsAssumption, ProcsAreDistinct DEF BaseInv, TypeOK
<1>1. TypeOK'
  BY DEF ProbeInstances, Routable, PCs, InstanceStates
<1>2. Bookkeeping'
  BY DEF ProbeInstances, Bookkeeping, TodoPositive, OvertakenIsOlder
<1>3. Ownership'
  BY DEF ProbeInstances, Ownership, BindingsInPool, Unshared, CarriedIsLive,
     Private, Carrying
<1>4. Closure'
  BY DEF ProbeInstances, Closure, NoneReopened, RoutableIsLive, Doomed,
     Routable, Ownership, Unshared, CarriedIsLive, Private, Carrying
<1> QED
  BY <1>1, <1>2, <1>3, <1>4

\* Ping preserves the invariant.
LEMMA PingInv ==
  ASSUME BaseInv, NEW p \in Probers, Ping(p)
  PROVE  BaseInv'
<1> USE ConstantsAssumption, ProcsAreDistinct DEF BaseInv, TypeOK
<1>1. TypeOK'
  BY DEF Ping, PCs, InstanceStates
<1>2. Bookkeeping'
  BY DEF Ping, Bookkeeping, TodoPositive, OvertakenIsOlder
<1>3. Ownership'
  BY DEF Ping, Ownership, BindingsInPool, Unshared, CarriedIsLive, Private,
     Carrying
<1>4. Closure'
  BY SMTT(30) DEF Ping, Closure, NoneReopened, RoutableIsLive, Doomed, Routable,
     Ownership, Unshared, CarriedIsLive, Private, Carrying
<1> QED
  BY <1>1, <1>2, <1>3, <1>4

\* MarkFailed preserves the invariant.
LEMMA MarkFailedInv ==
  ASSUME BaseInv, NEW p \in Probers, MarkFailed(p)
  PROVE  BaseInv'
<1> USE ConstantsAssumption, ProcsAreDistinct DEF BaseInv, TypeOK
<1>1. TypeOK'
  BY DEF MarkFailed, FailedMark, PCs, InstanceStates
<1>2. Bookkeeping'
  BY DEF MarkFailed, Bookkeeping, TodoPositive, OvertakenIsOlder
<1>3. Ownership'
  BY DEF MarkFailed, FailedMark, Ownership, BindingsInPool, Unshared,
     CarriedIsLive, Private, Carrying
<1>4. Closure'
  BY DEF MarkFailed, FailedMark, Closure, NoneReopened, RoutableIsLive,
     Doomed, Routable, Ownership, Unshared, CarriedIsLive, Private, Carrying
<1> QED
  BY <1>1, <1>2, <1>3, <1>4

\* StopFailed preserves the invariant.
LEMMA StopFailedInv ==
  ASSUME BaseInv, NEW p \in Probers, StopFailed(p)
  PROVE  BaseInv'
<1> USE ConstantsAssumption, ProcsAreDistinct DEF BaseInv, TypeOK
<1>1. TypeOK'
  BY DEF StopFailed, StopInstance, PCs, InstanceStates
<1>2. Bookkeeping'
  BY DEF StopFailed, Bookkeeping, TodoPositive, OvertakenIsOlder
<1>3. Ownership'
  BY DEF StopFailed, StopInstance, Ownership, BindingsInPool, Unshared,
     CarriedIsLive, Private, Carrying, Closure, NoneReopened, Doomed
<1>4. Closure'
  BY DEF StopFailed, StopInstance, Closure, NoneReopened, RoutableIsLive,
     Doomed, Routable, Ownership, Unshared, CarriedIsLive, Private, Carrying
<1> QED
  BY <1>1, <1>2, <1>3, <1>4

--------------------------------------------------------------------------------
(* The steps of each process, and the theorems.                            *)

\* Every Caller step preserves the invariant.
LEMMA CallerInv ==
  ASSUME BaseInv, NEW c \in Callers, CallerStep(c)
  PROVE  BaseInv'
BY AcquireHitInv, AcquireStickyBusyInv, AcquireWaitInv, AcquireStartInv,
   AcquireReadyInv, WaitCancelledInv, StartSucceedsInv, StartFailsInv,
   StartPanicsInv, StartFailureSignalledInv, AcquirePublishInv,
   AcquireRejectInv, StopSupersededInv, StopDuplicateInv, ReleaseInv,
   CloseDrainInv DEF CallerStep

\* Every Setter step preserves the invariant.
LEMMA SetterInv ==
  ASSUME BaseInv, NEW s \in Setters, SetterStep(s)
  PROVE  BaseInv'
BY SetMinReadyInv, SetterStartInv, SetterStartSucceedsInv,
   SetterStartFailsInv, SetterStartPanicsInv, SetterPublishInv,
   SetterRejectInv, SetterDiscardInv DEF SetterStep

\* Every Stopper step preserves the invariant.
LEMMA StopperInv ==
  ASSUME BaseInv, NEW t \in Stoppers, StopperStep(t)
  PROVE  BaseInv'
BY StopSpecInv, StopImmediateInv, OpenDrainInv, CheckDrainInv,
   StopSpecReturnsInv DEF StopperStep

\* Every Drain step preserves the invariant.
LEMMA DrainInv ==
  ASSUME BaseInv, NEW i \in Instances, DrainStep(i)
  PROVE  BaseInv'
BY DrainWakesInv, DrainStopsInv DEF DrainStep

\* Every Reaper step preserves the invariant.
LEMMA ReaperInv ==
  ASSUME BaseInv, NEW r \in Reapers, ReaperStep(r)
  PROVE  BaseInv'
BY ReapIdleInv, ReapStopInv, RemoveStoppedInv, ExpireBindingsInv DEF
   ReaperStep

\* Every Prober step preserves the invariant.
LEMMA ProberInv ==
  ASSUME BaseInv, NEW p \in Probers, ProberStep(p)
  PROVE  BaseInv'
BY ProbeInstancesInv, PingInv, MarkFailedInv, StopFailedInv, RemoveStoppedInv
   DEF ProberStep

\* The empty pool satisfies the invariant.
LEMMA BaseInvInit == Init => BaseInv
<1> SUFFICES ASSUME Init PROVE BaseInv
  OBVIOUS
<1>1. TypeOK
  <2>1. startInFlight \in BOOLEAN /\ crashed \in BOOLEAN
    BY DEF Init
  <2> QED
    BY <2>1, ConstantsAssumption DEF Init, TypeOK, PCs, InstanceStates
<1>2. Bookkeeping
  BY ConstantsAssumption
     DEF Init, Bookkeeping, TodoPositive, OvertakenIsOlder
<1>3. Ownership /\ Closure
  BY DEF Init, Ownership, BindingsInPool, Unshared, CarriedIsLive, Carrying,
         Closure, NoneReopened, RoutableIsLive
<1> QED
  BY <1>1, <1>2, <1>3 DEF BaseInv

\* The invariant is about the variables only.
LEMMA BaseInvStutter ==
  ASSUME BaseInv, UNCHANGED vars
  PROVE  BaseInv'
BY DEF vars, BaseInv, TypeOK, Bookkeeping, TodoPositive, OvertakenIsOlder, Ownership,
       BindingsInPool, Unshared, CarriedIsLive, Private, Closure, NoneReopened,
       Doomed, Routable, RoutableIsLive

\* Every step of every goroutine preserves the invariant.
LEMMA BaseInvStep == BaseInv /\ [Next]_vars => BaseInv'
<1> SUFFICES ASSUME BaseInv, [Next]_vars PROVE BaseInv'
  OBVIOUS
<1>1. CASE Next
  BY <1>1, CallerInv, SetterInv, StopperInv, DrainInv, ReaperInv, ProberInv DEF Next
<1>2. CASE UNCHANGED vars
  BY <1>2, BaseInvStutter
<1> QED
  BY <1>1, <1>2

\* BaseInv holds in every reachable state: the pool's bookkeeping, who owns a
\* launched instance, and that none somebody will stop can be leased again.
THEOREM Invariance == Spec => []BaseInv
BY BaseInvInit, BaseInvStep, PTL DEF Spec

\* Instances enter the pool in two places only.
LEMMA OnlyPublishAdds ==
  ASSUME BaseInv, Next, NEW i \in instances', i \notin instances
  PROVE  \E q \in Starters : /\ AcquirePublish(q) \/ SetterPublish(q)
                             /\ i = inst[q]
<1>1. ASSUME NEW c \in Callers, CallerStep(c)
      PROVE  AcquirePublish(c) /\ i = inst[c]
  BY <1>1 DEF CallerStep, AcquireHit, AcquireStickyBusy, AcquireWait, AcquireStart,
     AcquireReady, WaitCancelled, StartSucceeds, StartFails, StartPanics,
     StartFailureSignalled, AcquirePublish, AcquireReject, StopSuperseded,
     StopDuplicate, Release, CloseDrain
<1>2. ASSUME NEW s \in Setters, SetterStep(s)
      PROVE  SetterPublish(s) /\ i = inst[s]
  BY <1>2 DEF SetterStep, SetMinReady, SetterStart, SetterStartSucceeds,
     SetterStartFails, SetterStartPanics, SetterPublish, SetterReject, SetterDiscard
<1>3. ASSUME NEW t \in Stoppers, StopperStep(t)
      PROVE  FALSE
  BY <1>3 DEF StopperStep, StopSpec, StopImmediate, OpenDrain, CheckDrain,
     StopSpecReturns
<1>4. ASSUME NEW j \in Instances, DrainStep(j)
      PROVE  FALSE
  BY <1>4 DEF DrainStep, DrainWakes, DrainStops
<1>5. ASSUME NEW r \in Reapers, ReaperStep(r)
      PROVE  FALSE
  BY <1>5 DEF ReaperStep, ReapIdle, ReapStop, RemoveStopped, Remove, ExpireBindings
<1>6. ASSUME NEW p \in Probers, ProberStep(p)
      PROVE  FALSE
  BY <1>6 DEF ProberStep, ProbeInstances, Ping, MarkFailed, StopFailed,
     RemoveStopped, Remove
<1> QED
  BY <1>1, <1>2, <1>3, <1>4, <1>5, <1>6 DEF Next

\* Type correctness of the pool, in particular that no setter releases more
\* reservations than it took.
THEOREM TypeCorrect == Spec => []TypeOK
<1>1. BaseInv => TypeOK
  BY DEF BaseInv
<1> QED
  BY <1>1, Invariance, PTL

\* What Acquire and AcquireReady may hand out is running (pool.go:11-62 against the
\* five places that stop an instance outside the lock).
THEOREM LeasesGoToLiveInstances == Spec => []RoutableIsLive
<1>1. BaseInv => RoutableIsLive
  BY DEF BaseInv, Closure
<1> QED
  BY <1>1, Invariance, PTL

\* A start that StopSpec overtook never brings its instance into the pool
\* (acquire.go:152, lifecycle.go:88).
THEOREM LateWritebackNever == Spec => NoLateWriteback
<1>1. BaseInv /\ [Next]_vars =>
        [\A p \in overtaken : inst[p] \in instances' => inst[p] \in instances]_vars
  <2> SUFFICES ASSUME BaseInv, Next, NEW p \in overtaken,
                      inst[p] \in instances', inst[p] \notin instances
               PROVE  FALSE
    OBVIOUS
  <2>1. PICK q \in Starters : /\ AcquirePublish(q) \/ SetterPublish(q)
                              /\ inst[p] = inst[q]
    BY OnlyPublishAdds
  <2>2. inst[p] = inst[q] /\ pc[q] = "started" /\ generation = startGen[q]
    BY <2>1 DEF AcquirePublish, SetterPublish, Superseded
  <2>3. p = q
    BY <2>2 DEF BaseInv, TypeOK, Ownership, Unshared, Carrying, Private
  <2> QED
    BY <2>2, <2>3 DEF BaseInv, TypeOK, Bookkeeping, OvertakenIsOlder
<1> QED
  BY <1>1, Invariance, PTL DEF NoLateWriteback, Spec

\* Sticky bindings end with their instance's membership in the pool.
THEOREM BindingsStayInPool == Spec => []BindingsInPool
<1>1. BaseInv => BindingsInPool
  BY DEF BaseInv, Ownership
<1> QED
  BY <1>1, Invariance, PTL

\* Whatever Acquire finds, by its key or by searching the pool, it may lease.
THEOREM RoutingIsSafe == Spec => []Routing
<1>1. BindingsInPool /\ RoutableIsLive => Routing
  BY DEF Routing
<1> QED
  BY <1>1, BindingsStayInPool, LeasesGoToLiveInstances, PTL

--------------------------------------------------------------------------------
(* Where no start fails: the start gate and the minimum of ready instances,  *)
(* until the first StopSpec.                                                 *)

NoStartFails == Faults \cap {"startFail", "startPanic"} = {}

\* A caller between AcquireStart and the end of its start has the gate closed behind it,
\* alone, and nobody has cancelled its start.
AtGate(c) == pc[c] \in {"starting", "started"}
GateShut == \A c \in Callers : AtGate(c) => startInFlight
GateForOne == \A c, d \in Callers : AtGate(c) /\ AtGate(d) => c = d
NotCancelled ==
  \A c \in Callers :
    /\ pc[c] = "starting" => startCancel = c /\ c \notin cancelled
    /\ pc[c] # "startFailed"
GateHolds == generation = 0 => GateShut /\ GateForOne /\ NotCancelled

\* The gate is not touched where no caller arrives at it or leaves it.
LEMMA GateSame ==
  ASSUME GateHolds,
         generation = 0 => /\ UNCHANGED <<startInFlight, startCancel, cancelled>>
                           /\ \A c \in Callers : AtGate(c)' => pc'[c] = pc[c]
                           /\ \A c \in Callers : pc'[c] = "startFailed" => pc[c] = "startFailed",
         generation' = 0 => generation = 0
  PROVE  GateHolds'
BY DEF GateHolds, GateShut, GateForOne, NotCancelled, AtGate

\* A caller keeps the gate: without failures only a start that ended opens it.
LEMMA CallerKeepsGate ==
  ASSUME NoStartFails, BaseInv, GateHolds, NEW c \in Callers, CallerStep(c)
  PROVE  GateHolds'
<1>0. pc \in [Procs -> PCs] /\ c \in Procs /\ Callers \subseteq Procs /\ generation' = generation
  BY DEF BaseInv, TypeOK, CallerStep, AcquireHit, AcquireStickyBusy, AcquireWait, AcquireStart,
     AcquireReady, WaitCancelled, StartSucceeds, StartFails, StartPanics, StartFailureSignalled,
     AcquirePublish, AcquireReject, StopSuperseded, StopDuplicate, Release, CloseDrain
<1> SUFFICES ASSUME generation = 0, GateShut, GateForOne, NotCancelled
             PROVE  GateShut' /\ GateForOne' /\ NotCancelled'
  BY <1>0 DEF GateHolds
<1>1. ASSUME NEW k \in Keys,
             AcquireHit(c, k) \/ AcquireStickyBusy(c, k) \/ AcquireWait(c, k) \/ AcquireReady(c, k)
      PROVE  GateShut' /\ GateForOne' /\ NotCancelled'
  BY <1>0, <1>1 DEF AcquireHit, AcquireStickyBusy, AcquireWait, AcquireReady, GateShut, GateForOne,
     NotCancelled, AtGate
<1>2. ASSUME NEW k \in Keys, AcquireStart(c, k)
      PROVE  GateShut' /\ GateForOne' /\ NotCancelled'
  BY <1>0, <1>2 DEF AcquireStart, MustWait, GateShut, GateForOne, NotCancelled, AtGate
<1>3. CASE WaitCancelled(c)
  BY <1>0, <1>3 DEF WaitCancelled, SignalAnd, Woken, GateShut, GateForOne, NotCancelled, AtGate
<1>4. CASE StartSucceeds(c)
  BY <1>0, <1>4 DEF StartSucceeds, ReleaseReservation, GateShut, GateForOne, NotCancelled, AtGate
<1>5. CASE StartFails(c) \/ StartPanics(c) \/ StartFailureSignalled(c)
  BY <1>5 DEF NoStartFails, StartFails, StartPanics, StartFailureSignalled, NotCancelled
<1>6. CASE AcquirePublish(c)
  BY <1>0, <1>6 DEF AcquirePublish, SignalAnd, Woken, GateShut, GateForOne, NotCancelled, AtGate
<1>7. CASE AcquireReject(c)
  BY <1>0, <1>7 DEF AcquireReject, SignalAnd, Woken, GateShut, GateForOne, NotCancelled, AtGate
<1>8. CASE StopSuperseded(c) \/ StopDuplicate(c) \/ CloseDrain(c)
  BY <1>0, <1>8 DEF StopSuperseded, StopDuplicate, CloseDrain, GateShut, GateForOne, NotCancelled, AtGate
<1>9. CASE Release(c)
  BY <1>0, <1>9 DEF Release, SignalAnd, Woken, GateShut, GateForOne, NotCancelled, AtGate
<1> QED
  BY <1>1, <1>2, <1>3, <1>4, <1>5, <1>6, <1>7, <1>8, <1>9 DEF CallerStep

\* The gate is kept by every step.
LEMMA GateStep ==
  ASSUME NoStartFails, BaseInv, GateHolds, [Next]_vars
  PROVE  GateHolds'
<1>0. pc \in [Procs -> PCs] /\ Callers \subseteq Procs /\ generation \in Nat
  BY ConstantsAssumption DEF BaseInv, TypeOK
<1>1. ASSUME NEW c \in Callers, CallerStep(c) PROVE GateHolds'
  BY <1>1, CallerKeepsGate
<1>2. ASSUME NEW s \in Setters, SetterStep(s) PROVE GateHolds'
  <2>1. /\ UNCHANGED <<startInFlight, startCancel, cancelled, generation>>
        /\ \A c \in Callers : pc'[c] = pc[c] \/ pc'[c] = "woken"
    BY <1>0, <1>2, ProcsAreDistinct DEF SetterStep, SetMinReady, SetterStart, SetterStartSucceeds,
       SetterStartFails, SetterStartPanics, SetterPublish, SetterReject, SetterDiscard, SignalAnd, Woken
  <2> QED
    BY <2>1, GateSame DEF AtGate
<1>3. ASSUME NEW t \in Stoppers, StopperStep(t) PROVE GateHolds'
  <2>1. CASE StopSpec(t)
    BY <1>0, <2>1 DEF StopSpec, NextGeneration, GateHolds
  <2>2. CASE ~StopSpec(t)
    <3>1. /\ UNCHANGED <<startInFlight, startCancel, cancelled, generation>>
          /\ \A c \in Callers : pc'[c] = pc[c]
      BY <1>0, <1>3, <2>2, ProcsAreDistinct DEF StopperStep, StopImmediate, OpenDrain, CheckDrain,
         StopSpecReturns
    <3> QED
      BY <3>1, GateSame
  <2> QED
    BY <2>1, <2>2
<1>4. ASSUME NEW i \in Instances, DrainStep(i) PROVE GateHolds'
  BY <1>4, GateSame DEF DrainStep, DrainWakes, DrainStops
<1>5. ASSUME NEW r \in Reapers, ReaperStep(r) PROVE GateHolds'
  <2>1. /\ UNCHANGED <<startInFlight, startCancel, cancelled, generation>>
        /\ \A c \in Callers : pc'[c] = pc[c]
    BY <1>0, <1>5, ProcsAreDistinct DEF ReaperStep, ReapIdle, ReapStop, RemoveStopped, ExpireBindings
  <2> QED
    BY <2>1, GateSame
<1>6. ASSUME NEW p \in Probers, ProberStep(p) PROVE GateHolds'
  <2>1. /\ UNCHANGED <<startInFlight, startCancel, cancelled, generation>>
        /\ \A c \in Callers : pc'[c] = pc[c]
    BY <1>0, <1>6, ProcsAreDistinct DEF ProberStep, ProbeInstances, Ping, MarkFailed, StopFailed,
       RemoveStopped
  <2> QED
    BY <2>1, GateSame
<1>7. CASE UNCHANGED vars
  BY <1>7, GateSame DEF vars
<1> QED
  BY <1>1, <1>2, <1>3, <1>4, <1>5, <1>6, <1>7 DEF Next

\* At most one member: the gate is as narrow as SingleFlight says.
LEMMA GateIsNarrow == GateHolds => SingleFlight
<1> SUFFICES ASSUME GateHolds, generation = 0
             PROVE  Cardinality({c \in Callers : pc[c] = "starting"}) <= 1
  BY DEF SingleFlight
<1> DEFINE T == {c \in Callers : pc[c] = "starting"}
<1>1. \A c, d \in T : c = d
  BY DEF GateHolds, GateForOne, AtGate
<1>2. CASE T = {}
  BY <1>2, FS_EmptySet
<1>3. ASSUME NEW c \in T PROVE Cardinality(T) <= 1
  <2>1. T = {c}
    BY <1>1, <1>3
  <2> QED
    BY <2>1, FS_Singleton
<1> QED
  BY <1>2, <1>3

\* Where no start fails, one caller at a time starts an instance, whatever setters,
\* drains, reaping and pings do beside it, until the first StopSpec (acquire.go:86-119).
THEOREM StartsAreSingle == ASSUME NoStartFails PROVE Spec => []SingleFlight
<1>1. Init => GateHolds
  BY DEF Init, GateHolds, GateShut, GateForOne, NotCancelled, AtGate
<1>2. BaseInv /\ GateHolds /\ [Next]_vars => GateHolds'
  BY GateStep
<1> QED
  BY <1>1, <1>2, GateIsNarrow, Invariance, PTL DEF Spec

\* What is started and not yet published or rejected.
Arriving == {p \in Starters : pc[p] = "started"}
NoDuplicate == \A c \in Callers : pc[c] # "duplicate"

\* The instances there are, the reservations, and the instances that arrive make up the
\* minimum.
Supply == Cardinality(instances) + starting + Cardinality(Arriving)
SupplyHolds == generation = 0 /\ NoDuplicate /\ minReady # 0 => minReady <= Supply

\* Nothing leaves the pool: nobody reaps or probes it.
NoMaintenance == Reapers = {} /\ Probers = {}

\* The numbers are integers, and the sets finite.
LEMMA SupplyTyped ==
  ASSUME BaseInv
  PROVE  /\ starting \in Int /\ minReady \in Nat /\ MaxTarget \in Nat
         /\ IsFiniteSet(instances) /\ Cardinality(instances) \in Nat
         /\ IsFiniteSet(Arriving) /\ Cardinality(Arriving) \in Nat
<1>1. IsFiniteSet(Callers \cup Setters) /\ Arriving \subseteq Callers \cup Setters
  BY ConstantsAssumption, FS_Union DEF Arriving
<1>2. IsFiniteSet(instances) /\ IsFiniteSet(Arriving)
  BY <1>1, ConstantsAssumption, FS_Subset DEF BaseInv, TypeOK
<1> QED
  BY <1>2, FS_CardinalityType, ConstantsAssumption DEF BaseInv, TypeOK

\* One more instance arrives; one that arrived is published, or rejected.
LEMMA ArrivalCounts ==
  ASSUME BaseInv, NEW p \in Starters
  PROVE  /\ pc[p] # "started" => Cardinality(Arriving \cup {p}) = Cardinality(Arriving) + 1
         /\ pc[p] = "started" =>
              /\ Cardinality(Arriving \ {p}) = Cardinality(Arriving) - 1
              /\ Cardinality(instances \cup {inst[p]}) = Cardinality(instances) + 1
<1>1. pc[p] = "started" => p \in Arriving /\ inst[p] \notin instances
  BY DEF Arriving, BaseInv, Ownership, Unshared, Carrying, Private
<1>2. pc[p] # "started" => p \notin Arriving
  BY DEF Arriving
<1> QED
  BY <1>1, <1>2, SupplyTyped, FS_AddElement, FS_RemoveElement

\* The supply stays where what it counts does.
LEMMA SupplySame ==
  ASSUME SupplyHolds, generation' = 0 => generation = 0, NoDuplicate' => NoDuplicate,
         UNCHANGED <<instances, starting, minReady>>,
         \A p \in Starters : pc'[p] = "started" <=> pc[p] = "started"
  PROVE  SupplyHolds'
<1>1. Arriving' = Arriving
  BY DEF Arriving
<1> QED
  BY <1>1 DEF SupplyHolds, Supply

\* The caller's part: without failures an instance that is rejected is a duplicate.
LEMMA CallerKeepsSupply ==
  ASSUME NoStartFails, BaseInv, GateHolds, SupplyHolds, NEW c \in Callers, CallerStep(c)
  PROVE  SupplyHolds'
<1>0. /\ pc \in [Procs -> PCs] /\ c \in Procs /\ c \in Starters /\ Starters \subseteq Procs
      /\ generation' = generation /\ minReady' = minReady
  BY DEF BaseInv, TypeOK, CallerStep, AcquireHit, AcquireStickyBusy, AcquireWait, AcquireStart,
     AcquireReady, WaitCancelled, StartSucceeds, StartFails, StartPanics, StartFailureSignalled,
     AcquirePublish, AcquireReject, StopSuperseded, StopDuplicate, Release, CloseDrain
<1>1. ASSUME NEW k \in Keys,
             AcquireHit(c, k) \/ AcquireStickyBusy(c, k) \/ AcquireWait(c, k) \/ AcquireReady(c, k)
      PROVE  SupplyHolds'
  <2>1. /\ UNCHANGED <<instances, starting>>
        /\ NoDuplicate' => NoDuplicate
        /\ \A p \in Starters : pc'[p] = "started" <=> pc[p] = "started"
    BY <1>0, <1>1 DEF AcquireHit, AcquireStickyBusy, AcquireWait, AcquireReady, AtLoopHead, NoDuplicate
  <2> QED
    BY <1>0, <2>1, SupplySame
<1>2. ASSUME NEW k \in Keys, AcquireStart(c, k) PROVE SupplyHolds'
  <2>1. /\ instances' = instances /\ starting' = starting + 1
        /\ NoDuplicate' => NoDuplicate
        /\ \A p \in Starters : pc'[p] = "started" <=> pc[p] = "started"
    BY <1>0, <1>2 DEF AcquireStart, AtLoopHead, NoDuplicate
  <2>2. Arriving' = Arriving
    BY <2>1 DEF Arriving
  <2> QED
    BY <1>0, <2>1, <2>2, SupplyTyped DEF SupplyHolds, Supply
<1>3. CASE StartSucceeds(c)
  <2>1. /\ instances' = instances /\ starting' = starting - 1 /\ pc' = [pc EXCEPT ![c] = "started"]
        /\ pc[c] = "starting"
        /\ NoDuplicate' => NoDuplicate
    BY <1>0, <1>3 DEF StartSucceeds, ReleaseReservation, NoDuplicate
  <2>2. Arriving' = Arriving \cup {c}
    BY <1>0, <2>1 DEF Arriving
  <2>3. Cardinality(Arriving') = Cardinality(Arriving) + 1
    BY <1>0, <2>1, <2>2, ArrivalCounts
  <2> QED
    BY <1>0, <2>1, <2>3, SupplyTyped DEF SupplyHolds, Supply
<1>4. CASE StartFails(c) \/ StartPanics(c) \/ StartFailureSignalled(c)
  BY <1>0, <1>4 DEF NoStartFails, StartFails, StartPanics, StartFailureSignalled, GateHolds,
     NotCancelled, SupplyHolds
<1>5. CASE AcquirePublish(c)
  <2>1. /\ instances' = instances \cup {inst[c]} /\ starting' = starting /\ pc[c] = "started"
        /\ NoDuplicate' => NoDuplicate
        /\ \A p \in Starters : pc'[p] = "started" <=> pc[p] = "started" /\ p # c
    BY <1>0, <1>5 DEF AcquirePublish, SignalAnd, Woken, NoDuplicate
  <2>2. Arriving' = Arriving \ {c}
    BY <2>1 DEF Arriving
  <2>3. /\ Cardinality(Arriving') = Cardinality(Arriving) - 1
        /\ Cardinality(instances') = Cardinality(instances) + 1
    BY <1>0, <2>1, <2>2, ArrivalCounts
  <2> QED
    BY <1>0, <2>1, <2>3, SupplyTyped DEF SupplyHolds, Supply
<1>6. CASE AcquireReject(c)
  <2>1. SUFFICES ASSUME generation = 0 PROVE ~NoDuplicate'
    BY <1>0 DEF SupplyHolds
  <2>2. ~Superseded(c)
    BY <1>0, <2>1 DEF Superseded, BaseInv, TypeOK, Bookkeeping, OvertakenIsOlder
  <2> QED
    BY <1>0, <1>6, <2>2 DEF AcquireReject, SignalAnd, NoDuplicate
<1>7. CASE StopSuperseded(c) \/ StopDuplicate(c) \/ CloseDrain(c) \/ Release(c) \/ WaitCancelled(c)
  <2>1. /\ UNCHANGED <<instances, starting>>
        /\ NoDuplicate' => NoDuplicate
        /\ \A p \in Starters : pc'[p] = "started" <=> pc[p] = "started"
    BY <1>0, <1>7 DEF StopSuperseded, StopDuplicate, CloseDrain, Release, WaitCancelled, SignalAnd,
       Woken, NoDuplicate
  <2> QED
    BY <1>0, <2>1, SupplySame
<1> QED
  BY <1>1, <1>2, <1>3, <1>4, <1>5, <1>6, <1>7 DEF CallerStep

\* The setter's part: it reserves what is missing, and rejects what nobody wants any more.
LEMMA SetterKeepsSupply ==
  ASSUME NoStartFails, BaseInv, SupplyHolds, NEW s \in Setters, SetterStep(s)
  PROVE  SupplyHolds'
<1>0. /\ pc \in [Procs -> PCs] /\ s \in Procs /\ s \in Starters /\ Starters \subseteq Procs
      /\ s \notin Callers /\ generation' = generation
  BY ProcsAreDistinct DEF BaseInv, TypeOK, SetterStep, SetMinReady, SetterStart, SetterStartSucceeds,
     SetterStartFails, SetterStartPanics, SetterPublish, SetterReject, SetterDiscard
<1>1. NoDuplicate' => NoDuplicate
  BY <1>0 DEF SetterStep, SetMinReady, SetterStart, SetterStartSucceeds, SetterStartFails,
     SetterStartPanics, SetterPublish, SetterReject, SetterDiscard, SignalAnd, Woken, NoDuplicate
<1>2. ASSUME NEW n \in 0..MaxTarget, SetMinReady(s, n) PROVE SupplyHolds'
  <2>1. instances' = instances /\ minReady' = n /\ n \in Nat /\ starting' \in Int
    BY <1>2, SupplyTyped DEF SetMinReady, Shortfall
  <2>2. n <= Cardinality(instances) + starting'
    BY <1>2, <2>1, SupplyTyped DEF SetMinReady, Shortfall
  <2>3. Arriving' = Arriving
    BY <1>0, <1>2 DEF SetMinReady, Arriving
  <2> QED
    BY <2>1, <2>2, <2>3, SupplyTyped DEF SupplyHolds, Supply
<1>3. CASE SetterStart(s) \/ SetterDiscard(s)
  <2>1. /\ UNCHANGED <<instances, starting, minReady>>
        /\ \A p \in Starters : pc'[p] = "started" <=> pc[p] = "started"
    BY <1>0, <1>3 DEF SetterStart, SetterDiscard, NextStart
  <2> QED
    BY <1>0, <1>1, <2>1, SupplySame
<1>4. CASE SetterStartSucceeds(s)
  <2>1. /\ UNCHANGED <<instances, minReady>> /\ starting' = starting - 1
        /\ pc' = [pc EXCEPT ![s] = "started"] /\ pc[s] = "starting"
    BY <1>0, <1>4 DEF SetterStartSucceeds, GiveBackOne
  <2>2. Arriving' = Arriving \cup {s}
    BY <1>0, <2>1 DEF Arriving
  <2>3. Cardinality(Arriving') = Cardinality(Arriving) + 1
    BY <1>0, <2>1, <2>2, ArrivalCounts
  <2> QED
    BY <1>0, <1>1, <2>1, <2>3, SupplyTyped DEF SupplyHolds, Supply
<1>5. CASE SetterStartFails(s) \/ SetterStartPanics(s)
  BY <1>5 DEF NoStartFails, SetterStartFails, SetterStartPanics
<1>6. CASE SetterPublish(s)
  <2>1. /\ instances' = instances \cup {inst[s]} /\ UNCHANGED <<starting, minReady>> /\ pc[s] = "started"
        /\ \A p \in Starters : pc'[p] = "started" <=> pc[p] = "started" /\ p # s
    BY <1>0, <1>6 DEF SetterPublish, SignalAnd, Woken, NextStart
  <2>2. Arriving' = Arriving \ {s}
    BY <2>1 DEF Arriving
  <2>3. /\ Cardinality(Arriving') = Cardinality(Arriving) - 1
        /\ Cardinality(instances') = Cardinality(instances) + 1
    BY <1>0, <2>1, <2>2, ArrivalCounts
  <2> QED
    BY <1>0, <1>1, <2>1, <2>3, SupplyTyped DEF SupplyHolds, Supply
<1>7. CASE SetterReject(s)
  <2>1. SUFFICES ASSUME generation = 0 PROVE minReady' = 0
    BY <1>0 DEF SupplyHolds
  <2>2. ~Superseded(s)
    BY <1>0, <2>1 DEF Superseded, BaseInv, TypeOK, Bookkeeping, OvertakenIsOlder
  <2> QED
    BY <1>7, <2>2 DEF SetterReject
<1> QED
  BY <1>2, <1>3, <1>4, <1>5, <1>6, <1>7 DEF SetterStep

\* The supply holds after every step.
LEMMA SupplyStep ==
  ASSUME NoStartFails, NoMaintenance, BaseInv, GateHolds, SupplyHolds, [Next]_vars
  PROVE  SupplyHolds'
<1>0. pc \in [Procs -> PCs] /\ Starters \subseteq Procs /\ generation \in Nat
  BY ConstantsAssumption DEF BaseInv, TypeOK
<1>1. ASSUME NEW c \in Callers, CallerStep(c) PROVE SupplyHolds'
  BY <1>1, CallerKeepsSupply
<1>2. ASSUME NEW s \in Setters, SetterStep(s) PROVE SupplyHolds'
  BY <1>2, SetterKeepsSupply
<1>3. ASSUME NEW t \in Stoppers, StopperStep(t) PROVE SupplyHolds'
  <2>1. CASE StopSpec(t)
    BY <1>0, <2>1 DEF StopSpec, NextGeneration, SupplyHolds
  <2>2. CASE ~StopSpec(t)
    <3>1. /\ UNCHANGED <<instances, starting, minReady, generation>>
          /\ \A p \in Starters : pc'[p] = pc[p]
      BY <1>0, <1>3, <2>2, ProcsAreDistinct DEF StopperStep, StopImmediate, OpenDrain, CheckDrain,
         StopSpecReturns
    <3> QED
      BY <3>1, SupplySame DEF NoDuplicate
  <2> QED
    BY <2>1, <2>2
<1>4. ASSUME NEW i \in Instances, DrainStep(i) PROVE SupplyHolds'
  BY <1>4, SupplySame DEF DrainStep, DrainWakes, DrainStops, NoDuplicate
<1>5. CASE UNCHANGED vars
  BY <1>5, SupplySame DEF vars, NoDuplicate
<1> QED
  BY <1>1, <1>2, <1>3, <1>4, <1>5 DEF Next, NoMaintenance

\* When nothing is under way, what the supply counts are instances.
LEMMA SupplyIsPool == BaseInv /\ SupplyHolds => MinReadyEnsured
<1> SUFFICES ASSUME BaseInv, SupplyHolds, Quiet, generation = 0
             PROVE  Cardinality(instances) >= minReady
  BY DEF MinReadyEnsured
<1>1. Arriving = {} /\ NoDuplicate /\ starting = 0
  BY DEF Quiet, Arriving, NoDuplicate
<1>2. Cardinality(Arriving) = 0
  BY <1>1, FS_EmptySet
<1> QED
  BY <1>1, <1>2, SupplyTyped DEF SupplyHolds, Supply

\* Where no start fails and nothing is reaped, the pool has what the last SetDesiredMinReady
\* asked for as soon as no start is under way, however many setters and callers started
\* instances at once, until the first StopSpec (lifecycle.go:18-114).
THEOREM MinimumIsReached ==
  ASSUME NoStartFails, NoMaintenance PROVE Spec => []MinReadyEnsured
<1>1. Init => GateHolds /\ SupplyHolds
  BY DEF Init, GateHolds, GateShut, GateForOne, NotCancelled, AtGate, SupplyHolds
<1>2. BaseInv /\ GateHolds /\ SupplyHolds /\ [Next]_vars => GateHolds' /\ SupplyHolds'
  BY GateStep, SupplyStep
<1> QED
  BY <1>1, <1>2, SupplyIsPool, Invariance, PTL DEF Spec

================================================================================
