---------------------------- MODULE ServerInitProofs ----------------------------
(***************************************************************************)
(* No spec that waits for instances is left without a worker, but for the  *)
(* window in which a worker has decided to end and is still registered:    *)
(* for any specs, callers, targets and retry limits.                       *)
(***************************************************************************)
EXTENDS ServerInit, TLAPS

\* Before Start there is no worker and none is asked for; a spec outside the
\* catalog has no target, one in the catalog a status.
Settled ==
  /\ phase = "new" => Running = {} /\ \A c \in Callers : ensuring[c] = {}
  /\ \A s \in Specs \ Known : target[s] = 0
  /\ phase # "new" => \A s \in Known : status[s] # NoStatus

Waits(s) ==
  phase # "new" /\ target[s] > 0 /\ status[s] # NoStatus

\* A pending spec has a worker that will look at its target again, and a spec
\* whose worker is about to give it up has been asked for after that decision.
Driven(s) ==
  /\ Waits(s) /\ status[s].state = "pending" =>
       (s \in Running /\ ~Ending(s)) \/ s \in missed \/ Asked(s)
  /\ Waits(s) /\ At(s, "zero") => s \in missed \/ Asked(s)

InitInv == TypeOK /\ Settled /\ \A s \in Specs : Driven(s)
--------------------------------------------------------------------------------
(* Type correctness.                                                       *)

\* A spec without any record is not in the manager: it starts with no worker.
LEMMA InitInvInit == Init => InitInv
<1> SUFFICES ASSUME Init PROVE InitInv
  OBVIOUS
<1>1. TypeOK
  BY InitAssumption DEF Init, TypeOK, Worker, Counters, NoWorker, Zero, PCs, Errors
<1>2. Settled
  BY DEF Init, Settled, Running, NoWorker
<1>3. ASSUME NEW s \in Specs PROVE Driven(s)
  BY DEF Init, Driven, Waits
<1> QED
  BY <1>1, <1>2, <1>3 DEF InitInv

\* The targets a catalog gives.
LEMMA BaselineType ==
  ASSUME NEW cat \in Catalogs, NEW s \in DOMAIN cat
  PROVE  s \in Specs /\ Baseline(cat, s) \in {0, Active[s]}
BY InitAssumption DEF Baseline

\* A worker's next state.
LEMMA WorkerSet ==
  ASSUME TypeOK, NEW s \in Specs, NEW w \in Worker, w.target <= Active[s], Becomes(s, w)
  PROVE  /\ worker' \in [Specs -> Worker]
         /\ \A r \in Specs : worker'[r].target <= Active[r]
BY DEF TypeOK, Becomes

\* A spec's next status.
LEMMA StatusSet ==
  ASSUME TypeOK, NEW s \in Specs, NEW new, UpdateStatus(s, new),
         status[s] \in Status => new \in Status
  PROVE  status' \in [Specs -> Status \cup {NoStatus}]
BY DEF TypeOK, UpdateStatus

\* The status after a reset.
LEMMA FreshType == Fresh \in Status
BY InitAssumption DEF Fresh, Status, States

\* The parts of a worker and of a status that change one at a time.
LEMMA Parts ==
  ASSUME TypeOK, NEW s \in Specs
  PROVE  /\ worker[s] \in Worker /\ NoWorker \in Worker /\ NoWorker.target = 0
         /\ Fresh \in Status /\ Active[s] \in Nat
         /\ \A w \in Worker, pc \in PCs : [w EXCEPT !.pc = pc] \in Worker
         /\ \A pc \in PCs : [NoWorker EXCEPT !.pc = pc].target = 0
         /\ \A x \in Status, st \in States : [x EXCEPT !.state = st] \in Status
         /\ \A x \in Status : [x EXCEPT !.state = "pending", !.retry = 0] \in Status
         /\ \A x \in Status, n \in 0..MaxRetries :
              /\ [x EXCEPT !.retry = n] \in Status
              /\ \A st \in States : [x EXCEPT !.state = st, !.retry = n] \in Status
<1> USE InitAssumption
<1>1. Zero \in Counters /\ NoWorker \in Worker /\ NoWorker.target = 0
  BY InitAssumption DEF NoWorker, Zero, Worker, Counters, PCs, Errors
<1>2. Fresh \in Status
  BY FreshType
<1>3. \A w \in Worker, pc \in PCs : [w EXCEPT !.pc = pc] \in Worker
  BY DEF Worker
<1>4. \A pc \in PCs : [NoWorker EXCEPT !.pc = pc].target = 0
  BY DEF NoWorker
<1>5. \A x \in Status, st \in States : [x EXCEPT !.state = st] \in Status
  BY DEF Status
<1>6. \A x \in Status, n \in 0..MaxRetries :
        /\ [x EXCEPT !.retry = n] \in Status
        /\ \A st \in States : [x EXCEPT !.state = st, !.retry = n] \in Status
  BY DEF Status
<1>7. \A x \in Status : [x EXCEPT !.state = "pending", !.retry = 0] \in Status
  <2>1. 0 \in 0..MaxRetries /\ "pending" \in States
    BY DEF States
  <2> QED
    BY <1>6, <2>1
<1> QED
  BY <1>1, <1>2, <1>3, <1>4, <1>5, <1>6, <1>7 DEF TypeOK

\* What callers do keeps the types.
LEMMA CallerTypes ==
  ASSUME TypeOK, Settled, NEW c \in Callers, CallerStep(c)
  PROVE  TypeOK'
<1> USE InitAssumption DEF TypeOK
<1>0. /\ Known \subseteq Specs
      /\ \A s \in Specs : Active[s] \in Nat
      /\ Fresh \in Status
  BY BaselineType DEF Known, Fresh, Status, States
<1>1. CASE Start(c)
  BY <1>0, <1>1, BaselineType DEF Start, Known, poolVars
<1>2. ASSUME NEW s \in Specs, Activate(c, s) PROVE TypeOK'
  BY <1>0, <1>2 DEF Activate, poolVars
<1>3. ASSUME NEW s \in Specs, Deactivate(c, s) PROVE TypeOK'
  BY <1>0, <1>3 DEF Deactivate, poolVars
<1>4. ASSUME NEW s \in Specs, StopSpec(c, s) PROVE TypeOK'
  BY <1>0, <1>4 DEF StopSpec, managerVars
<1>5. ASSUME NEW s \in Specs, RetrySpec(c, s) PROVE TypeOK'
  <2>1. s \in Known /\ status[s] \in Status
    BY <1>5 DEF RetrySpec, Settled
  <2>2. [status[s] EXCEPT !.state = "pending", !.retry = 0] \in Status
    BY <2>1, Parts
  <2> QED
    BY <1>5, <2>2 DEF RetrySpec, poolVars
<1>6. ASSUME NEW s \in Specs, EnsureWorker(c, s) PROVE TypeOK'
  <2>1. [worker[s] EXCEPT !.pc = "start"] \in Worker
    BY Parts DEF PCs
  <2>2. [worker[s] EXCEPT !.pc = "start"].target = worker[s].target
    BY Parts DEF Worker
  <2> QED
    BY <1>6, <2>1, <2>2 DEF EnsureWorker, managerVars, poolVars
<1>7. ASSUME NEW new \in Catalogs, ApplyCatalogState(c, new) PROVE TypeOK'
  BY <1>0, <1>7, BaselineType DEF ApplyCatalogState, poolVars
<1> QED
  BY <1>1, <1>2, <1>3, <1>4, <1>5, <1>6, <1>7 DEF CallerStep

\* What a worker does keeps the types.
LEMMA WorkerTypes ==
  ASSUME TypeOK, NEW s \in Specs, WorkerStep(s)
  PROVE  TypeOK'
<1> USE DEF OnlyWorker, callerVars, poolVars, managerVars
<1> DEFINE w == worker[s]
<1>0. /\ w \in Worker /\ w.target \in Nat /\ w.target <= Active[s]
      /\ Active[s] \in Nat /\ 0 <= Active[s]
  <2>1. w \in Worker /\ Active[s] \in Nat
    BY Parts
  <2>2. w.target \in Nat /\ w.target <= Active[s]
    BY <2>1 DEF TypeOK, Worker
  <2> QED
    BY <2>1, <2>2
<1>w. ASSUME NEW new \in Worker, new.target <= Active[s], Becomes(s, new),
             UNCHANGED <<catalog, phase, target, callerVars, desired, missed>>,
             status' \in [Specs -> Status \cup {NoStatus}],
             up' \in [Specs -> Nat], \A r \in Specs : up'[r] <= Active[r]
      PROVE  TypeOK'
  BY <1>w, WorkerSet DEF TypeOK
<1>s. ASSUME NEW new \in Worker, new.target <= Active[s], Becomes(s, new), OnlyWorker,
             status' \in [Specs -> Status \cup {NoStatus}]
      PROVE  TypeOK'
  BY <1>s, <1>w DEF TypeOK
<1>p. ASSUME NEW pc \in PCs, GoTo(s, pc) \/ GoOn(s, pc), OnlyWorker,
             status' \in [Specs -> Status \cup {NoStatus}]
      PROVE  TypeOK'
  <2>1. CASE GoTo(s, pc)
    <3> DEFINE new == [w EXCEPT !.pc = pc]
    <3>1. new \in Worker /\ new.target = w.target /\ Becomes(s, new)
      BY <1>0, <2>1 DEF Worker, GoTo
    <3> QED
      BY <1>0, <1>p, <1>s, <3>1
  <2>2. CASE GoOn(s, pc)
    <3> DEFINE new == [NoWorker EXCEPT !.pc = pc]
    <3>1. new \in Worker
      BY Parts DEF Worker
    <3>2. new.target = 0 /\ Becomes(s, new)
      BY <2>2 DEF GoOn, NoWorker
    <3> QED
      BY <1>0, <1>p, <1>s, <3>1, <3>2
  <2> QED
    BY <1>p, <2>1, <2>2
<1>n. status \in [Specs -> Status \cup {NoStatus}]
  BY DEF TypeOK
<1>1. CASE ReadTarget(s)
  <2> DEFINE new == [w EXCEPT !.target = target[s], !.pc = IF target[s] = 0 THEN "zero" ELSE "prev"]
  <2>1. new \in Worker /\ new.target = target[s]
    BY <1>0 DEF Worker, PCs, TypeOK
  <2> QED
    BY <1>1, <1>n, <1>s, <2>1 DEF ReadTarget, TypeOK
<1>2. CASE WriteZero(s)
  BY <1>2, <1>p, StatusSet, Parts DEF WriteZero, PCs
<1>3. CASE ReadStatus(s)
  <2>1. PICK prev : /\ prev \in Counters
                    /\ Becomes(s, [w EXCEPT !.prev = prev, !.pc = "mark"])
    <3> DEFINE prev == IF status[s] = NoStatus THEN Zero
                       ELSE [ready |-> status[s].ready, failed |-> status[s].failed,
                             retry |-> status[s].retry]
    <3>1. prev \in Counters
      BY <1>n, InitAssumption DEF Counters, Status, Zero
    <3> QED
      BY <1>3, <3>1 DEF ReadStatus
  <2>2. /\ [w EXCEPT !.prev = prev, !.pc = "mark"] \in Worker
        /\ [w EXCEPT !.prev = prev, !.pc = "mark"].target = w.target
    BY <1>0, <2>1 DEF Worker, PCs
  <2> QED
    BY <1>0, <1>3, <1>n, <1>s, <2>1, <2>2 DEF ReadStatus
<1>4. CASE MarkStarting(s)
  BY <1>4, <1>p, StatusSet, Parts DEF MarkStarting, PCs, States
<1>5. CASE SchedulerRefuses(s)
  <2> DEFINE new == [w EXCEPT !.err = "fatal", !.pc = "snapshot"]
  <2>1. new \in Worker /\ new.target = w.target
    BY <1>0 DEF Worker, PCs, Errors
  <2> QED
    BY <1>0, <1>5, <1>n, <1>s, <2>1 DEF SchedulerRefuses
<1>6. CASE CallScheduler(s)
  <2> DEFINE new == [w EXCEPT !.pc = "calling"]
  <2>1. new \in Worker /\ new.target = w.target
    BY <1>0 DEF Worker, PCs
  <2>2. Becomes(s, new)
    BY <1>6 DEF CallScheduler, GoTo
  <2>3. worker' \in [Specs -> Worker] /\ \A r \in Specs : worker'[r].target <= Active[r]
    <3> HIDE DEF new
    <3> QED
      BY <1>0, <2>1, <2>2, WorkerSet
  <2> QED
    BY <1>0, <1>6, <2>3 DEF CallScheduler, TypeOK
<1>7. CASE CallReturns(s)
  <2>1. PICK e \in Errors : Becomes(s, [w EXCEPT !.err = e, !.pc = "snapshot"])
    BY <1>7 DEF CallReturns
  <2>2. /\ [w EXCEPT !.err = e, !.pc = "snapshot"] \in Worker
        /\ [w EXCEPT !.err = e, !.pc = "snapshot"].target = w.target
    BY <1>0 DEF Worker, PCs
  <2>3. up' \in [Specs -> Nat] /\ \A r \in Specs : up'[r] <= Active[r]
    BY <1>0, <1>7 DEF CallReturns, TypeOK
  <2> QED
    BY <1>0, <1>7, <1>n, <1>w, <2>1, <2>2, <2>3 DEF CallReturns
<1>8. CASE Snapshot(s)
  <2>1. PICK r \in Nat, f \in Nat, e \in Errors :
          Becomes(s, [w EXCEPT !.ready = r, !.failed = f, !.pc = "result", !.err = e])
    <3>1. CASE \E f \in 0..MaxFailed :
                 Becomes(s, [w EXCEPT !.ready = up[s], !.failed = f, !.pc = "result"])
      <4>1. PICK f \in 0..MaxFailed :
                 Becomes(s, [w EXCEPT !.ready = up[s], !.failed = f, !.pc = "result"])
        BY <3>1
      <4>2. [w EXCEPT !.ready = up[s], !.failed = f, !.pc = "result"]
            = [w EXCEPT !.ready = up[s], !.failed = f, !.pc = "result", !.err = w.err]
        BY <1>0 DEF Worker
      <4>3. up[s] \in Nat /\ f \in Nat /\ w.err \in Errors
        BY <1>0, InitAssumption DEF TypeOK, Worker
      <4> HIDE DEF w
      <4> QED
        BY <4>1, <4>2, <4>3
    <3>2. CASE Becomes(s, [w EXCEPT !.ready = 0, !.failed = 0, !.pc = "result",
                                    !.err = IF @ = "none" THEN "retryable" ELSE @])
      BY <1>0, <3>2 DEF Worker, Errors
    <3> QED
      BY <1>8, <3>1, <3>2 DEF Snapshot
  <2> DEFINE new == [w EXCEPT !.ready = r, !.failed = f, !.pc = "result", !.err = e]
  <2>2. new \in Worker /\ new.target = w.target
    BY <1>0 DEF Worker, PCs
  <2> QED
    BY <1>0, <1>8, <1>n, <1>s, <2>1, <2>2 DEF Snapshot
<1>9. CASE ApplyResult(s)
  <2>1. ResultState(w) \in States
    BY <1>0 DEF ResultState, States, Worker
  <2>2. status[s] \in Status =>
          [status[s] EXCEPT !.state = ResultState(w), !.ready = w.ready, !.failed = w.failed]
            \in Status
    BY <1>0, <2>1 DEF Worker, Status
  <2> QED
    BY <1>9, <1>p, <2>2, StatusSet DEF ApplyResult, PCs
<1>10. CASE Succeed(s) \/ Suspend(s) \/ WaitToRetry(s)
  <2>1. NextRetryCount(w) \in 0..MaxRetries
    BY <1>0, InitAssumption DEF NextRetryCount, Worker, Counters
  <2>2. CASE Succeed(s)
    <3>1. status[s] \in Status => [status[s] EXCEPT !.retry = 0] \in Status
      BY InitAssumption DEF Status
    <3> QED
      BY <1>p, <2>2, <3>1, StatusSet DEF Succeed, PCs
  <2>3. CASE Suspend(s)
    BY <1>p, <2>1, <2>3, StatusSet, Parts DEF Suspend, PCs, States
  <2>4. CASE WaitToRetry(s)
    BY <1>p, <2>1, <2>4, StatusSet, Parts DEF WaitToRetry, PCs
  <2> QED
    BY <1>10, <2>2, <2>3, <2>4
<1>11. CASE TimerFires(s)
  BY <1>11, <1>n, <1>p DEF TimerFires, PCs
<1>12. CASE Cancelled(s)
  BY <1>12, <1>p, StatusSet, Parts DEF Cancelled, PCs, States
<1>13. CASE End(s)
  <2>1. NoWorker \in Worker /\ NoWorker.target <= Active[s]
    BY <1>0, Parts
  <2> QED
    BY <1>13, <1>n, <1>s, <2>1 DEF End
<1> QED
  BY <1>1, <1>2, <1>3, <1>4, <1>5, <1>6, <1>7, <1>8, <1>9, <1>10, <1>11, <1>12, <1>13
     DEF WorkerStep

--------------------------------------------------------------------------------
(* No spec is forgotten.                                                   *)

\* Nothing but the spec's own record matters to whether it is driven.
LEMMA DrivenKept ==
  ASSUME NEW r \in Specs, Driven(r),
         UNCHANGED <<phase, target[r], status[r], worker[r]>>,
         Asked(r) => Asked(r)', r \in missed => r \in missed'
  PROVE  Driven(r)'
BY DEF Driven, Waits, Running, Ending, At

\* What callers do leaves every waiting spec driven.
LEMMA CallerDrives ==
  ASSUME InitInv, NEW c \in Callers, CallerStep(c)
  PROVE  Settled' /\ \A r \in Specs : Driven(r)'
<1> USE DEF InitInv, TypeOK
<1>0. Fresh \in Status /\ Fresh # NoStatus
  BY FreshType, NoStatusAssumption
<1>1. CASE Start(c)
  <2>1. \A r \in Specs : worker[r].pc = "none"
    BY <1>1 DEF Start, Settled, Running
  <2>2. Settled'
    BY <1>0, <1>1, BaselineType DEF Start, Settled, Known
  <2>3. ASSUME NEW r \in Specs PROVE Driven(r)'
    BY <1>1, <2>1 DEF Start, Settled, Driven, Waits, Asked, At
  <2> QED
    BY <2>2, <2>3
<1>2. ASSUME NEW s \in Specs, Activate(c, s) PROVE Settled' /\ \A r \in Specs : Driven(r)'
  <2>1. Settled'
    BY <1>2 DEF Activate, Settled, Known, Running
  <2>2. ASSUME NEW r \in Specs PROVE Driven(r)'
    BY <1>2 DEF Activate, Driven, Waits, Asked, At, Idle, Running, Ending, poolVars
  <2> QED
    BY <2>1, <2>2
<1>3. ASSUME NEW s \in Specs, Deactivate(c, s) PROVE Settled' /\ \A r \in Specs : Driven(r)'
  <2>1. Settled'
    BY <1>0, <1>3 DEF Deactivate, Settled, Known
  <2>2. ASSUME NEW r \in Specs PROVE Driven(r)'
    BY <1>3 DEF Deactivate, Driven, Waits, Asked, At, Running, Ending, poolVars
  <2> QED
    BY <2>1, <2>2
<1>4. ASSUME NEW s \in Specs, StopSpec(c, s) PROVE Settled' /\ \A r \in Specs : Driven(r)'
  BY <1>4 DEF StopSpec, Settled, Known, Running, Driven, Waits, Asked, At, Ending, managerVars
<1>5. ASSUME NEW s \in Specs, RetrySpec(c, s) PROVE Settled' /\ \A r \in Specs : Driven(r)'
  <2>1. Settled'
    <3>1. status[s] \in Status
      BY <1>5 DEF RetrySpec, Settled
    <3>2. [status[s] EXCEPT !.state = "pending", !.retry = 0] # NoStatus
      BY <3>1, Parts, NoStatusAssumption
    <3> QED
      BY <1>5, <3>2 DEF RetrySpec, Settled, Known
  <2>2. ASSUME NEW r \in Specs PROVE Driven(r)'
    BY <1>5 DEF RetrySpec, Driven, Waits, Asked, At, Idle, Running, Ending, poolVars
  <2> QED
    BY <2>1, <2>2
<1>6. ASSUME NEW s \in Specs, EnsureWorker(c, s) PROVE Settled' /\ \A r \in Specs : Driven(r)'
  <2>1. Settled'
    <3>1. phase # "new"
      BY <1>6 DEF EnsureWorker, Settled
    <3> QED
      BY <1>6, <3>1 DEF EnsureWorker, Settled, Known, managerVars
  <2>2. ASSUME NEW r \in Specs PROVE Driven(r)'
    <3>1. CASE r # s
      <4>1. Asked(r) => Asked(r)'
        BY <1>6, <3>1 DEF EnsureWorker, Asked
      <4> QED
        BY <1>6, <3>1, <4>1, DrivenKept DEF EnsureWorker, managerVars
    <3>2. CASE r = s /\ s \in Running
      <4>1. Ending(s) => s \in missed'
        BY <1>6, <3>2 DEF EnsureWorker
      <4>2. UNCHANGED <<phase, target, status, worker>> /\ missed \subseteq missed'
        BY <1>6, <3>2 DEF EnsureWorker, managerVars
      <4>3. At(s, "zero") => Ending(s)
        BY DEF At, Ending
      <4>4. s \in Running' /\ (Ending(s)' <=> Ending(s)) /\ (At(s, "zero")' <=> At(s, "zero"))
        BY <3>2, <4>2 DEF Running, Ending, At
      <4> QED
        BY <3>2, <4>1, <4>3, <4>4 DEF Driven
    <3>3. CASE r = s /\ s \notin Running
      <4>1. worker'[s].pc = "start"
        <5>1. [worker[s] EXCEPT !.pc = "start"].pc = "start"
          BY DEF Worker
        <5> QED
          BY <1>6, <3>3, <5>1 DEF EnsureWorker
      <4> QED
        BY <3>3, <4>1 DEF Driven, Running, At, Ending
    <3> QED
      BY <3>1, <3>2, <3>3
  <2> QED
    BY <2>1, <2>2
<1>7. ASSUME NEW new \in Catalogs, ApplyCatalogState(c, new)
      PROVE  Settled' /\ \A r \in Specs : Driven(r)'
  <2>1. Settled'
    <3>1. \A s \in DOMAIN new : s \in Specs
      BY BaselineType
    <3>2. \A s \in Specs \ DOMAIN new : target'[s] = 0
      BY <1>7 DEF ApplyCatalogState
    <3>3. phase # "new" => \A s \in DOMAIN new : status'[s] # NoStatus
      BY <1>0, <1>7, <3>1 DEF ApplyCatalogState
    <3>4. phase = "new" => Running' = {} /\ \A d \in Callers : ensuring'[d] = {}
      BY <1>7 DEF ApplyCatalogState, Settled, Running
    <3> QED
      BY <1>7, <3>2, <3>3, <3>4 DEF ApplyCatalogState, Settled, Known
  <2>2. ASSUME NEW r \in Specs PROVE Driven(r)'
    BY <1>7 DEF ApplyCatalogState, Driven, Waits, Asked, At, Idle, Running, Ending, poolVars
  <2> QED
    BY <2>1, <2>2
<1> QED
  BY <1>1, <1>2, <1>3, <1>4, <1>5, <1>6, <1>7 DEF CallerStep

\* A worker does not remove a status.
LEMMA StatusKept ==
  ASSUME TypeOK, NEW s \in Specs, WorkerStep(s), status[s] # NoStatus
  PROVE  status'[s] # NoStatus
<1> DEFINE w == worker[s]
<1>0. status[s] \in Status /\ w \in Worker
  BY DEF TypeOK
<1>w. ASSUME NEW new \in Status, UpdateStatus(s, new) PROVE status'[s] # NoStatus
  BY <1>w, NoStatusAssumption DEF UpdateStatus, TypeOK
<1>1. CASE status' = status
  BY <1>1
<1>2. CASE WriteZero(s)
  BY <1>2, <1>w, FreshType DEF WriteZero
<1>3. CASE MarkStarting(s)
  BY <1>0, <1>3, <1>w, Parts DEF MarkStarting, States
<1>4. CASE ApplyResult(s)
  <2>1. ResultState(w) \in States
    BY <1>0 DEF ResultState, States, Worker
  <2>2. [status[s] EXCEPT !.state = ResultState(w), !.ready = w.ready, !.failed = w.failed]
          \in Status
    BY <1>0, <2>1 DEF Worker, Status
  <2> QED
    BY <1>4, <1>w, <2>2 DEF ApplyResult
<1>5. NextRetryCount(w) \in 0..MaxRetries
  BY <1>0, InitAssumption DEF NextRetryCount, Worker, Counters
<1>6. CASE Succeed(s)
  <2>1. [status[s] EXCEPT !.retry = 0] \in Status
    BY <1>0, InitAssumption DEF Status
  <2> QED
    BY <1>6, <1>w, <2>1 DEF Succeed
<1>7. CASE Suspend(s)
  BY <1>0, <1>5, <1>7, <1>w, Parts DEF Suspend, States
<1>8. CASE WaitToRetry(s)
  BY <1>0, <1>5, <1>8, <1>w, Parts DEF WaitToRetry
<1>9. CASE Cancelled(s)
  BY <1>0, <1>9, <1>w, Parts DEF Cancelled, States
<1> QED
  BY <1>1, <1>2, <1>3, <1>4, <1>6, <1>7, <1>8, <1>9
     DEF WorkerStep, ReadTarget, ReadStatus, SchedulerRefuses, CallScheduler, CallReturns,
         Snapshot, TimerFires, End, OnlyWorker, managerVars

\* A worker's step disturbs no other spec, and Settled only needs the worker to
\* run already.
LEMMA WorkerFrame ==
  ASSUME InitInv, NEW s \in Specs, WorkerStep(s)
  PROVE  /\ Settled'
         /\ \A r \in Specs \ {s} : Driven(r)'
         /\ UNCHANGED <<phase, target, missed>> /\ Asked(s)' = Asked(s)
<1> USE DEF InitInv, TypeOK
<1>1. /\ UNCHANGED <<catalog, phase, target, ensuring, missed>>
      /\ \A r \in Specs \ {s} : worker'[r] = worker[r] /\ status'[r] = status[r]
      /\ s \in Running
  BY DEF WorkerStep, ReadTarget, WriteZero, ReadStatus, MarkStarting, SchedulerRefuses,
     CallScheduler, CallReturns, Snapshot, ApplyResult, Succeed, Suspend, WaitToRetry,
     TimerFires, Cancelled, End, OnlyWorker, callerVars, poolVars, managerVars, GoTo, GoOn,
     Becomes, UpdateStatus, Running, At
<1>2. status[s] # NoStatus => status'[s] # NoStatus
  BY StatusKept
<1>3. Settled'
  <2>1. \A r \in Known : status'[r] # NoStatus \/ phase = "new"
    BY <1>1, <1>2, BaselineType DEF Settled, Known
  <2> QED
    BY <1>1, <2>1 DEF Settled, Known
<1>4. ASSUME NEW r \in Specs \ {s} PROVE Driven(r)'
  BY <1>1, DrivenKept DEF Asked
<1> QED
  BY <1>1, <1>3, <1>4 DEF Asked

\* What a worker does leaves its own spec driven: it writes a state other than
\* pending unless nothing is wanted, and ends only by way of Ending.
LEMMA WorkerDrives ==
  ASSUME InitInv, NEW s \in Specs, WorkerStep(s)
  PROVE  Driven(s)'
<1> DEFINE w == worker[s]
<1>0. /\ worker \in [Specs -> Worker] /\ status \in [Specs -> Status \cup {NoStatus}]
      /\ w \in Worker /\ Driven(s)
  BY DEF InitInv, TypeOK
<1>1. UNCHANGED <<phase, target, missed>> /\ Asked(s)' = Asked(s)
  BY WorkerFrame
\* The worker goes on, away from the end.
<1>2. ASSUME s \in Running', ~Ending(s)' PROVE Driven(s)'
  BY <1>2 DEF Driven, Ending, At
\* The worker goes on towards the end; the state is not pending, or as it was.
<1>3. ASSUME ~At(s, "zero")', status'[s] = NoStatus \/ status'[s].state # "pending"
                              \/ (status'[s] = status[s] /\ (s \notin Running \/ Ending(s)))
      PROVE  Driven(s)'
  BY <1>0, <1>1, <1>3 DEF Driven, Waits
<1>4. CASE ReadTarget(s)
  <2>1. CASE target[s] = 0
    BY <1>1, <2>1 DEF Driven, Waits
  <2>2. CASE target[s] # 0
    <3>1. worker'[s].pc = "prev"
      BY <1>0, <1>4, <2>2 DEF ReadTarget, Becomes, Worker
    <3> QED
      BY <1>2, <3>1 DEF Running, Ending
  <2> QED
    BY <2>1, <2>2
<1>5. CASE WriteZero(s)
  <2>1. At(s, "zero") /\ ~At(s, "zero")'
    BY <1>0, <1>5 DEF WriteZero, GoTo, Becomes, At, Worker
  <2>2. Waits(s)' => Waits(s)
    BY <1>0, <1>1, <1>5 DEF WriteZero, UpdateStatus, Waits
  <2> QED
    BY <1>0, <1>1, <2>1, <2>2 DEF Driven
<1>6. CASE ReadStatus(s)
  <2>1. worker'[s].pc = "mark"
    BY <1>0, <1>6 DEF ReadStatus, Becomes, Worker
  <2> QED
    BY <1>2, <2>1 DEF Running, Ending
<1>7. CASE MarkStarting(s) \/ SchedulerRefuses(s) \/ CallScheduler(s) \/ CallReturns(s)
           \/ Snapshot(s) \/ WaitToRetry(s) \/ TimerFires(s)
  <2> SUFFICES worker'[s].pc \in {"call", "snapshot", "calling", "result", "waiting", "start"}
    BY <1>2 DEF Running, Ending
  <2>1. CASE MarkStarting(s) \/ CallScheduler(s) \/ TimerFires(s)
    BY <1>0, <2>1 DEF MarkStarting, CallScheduler, TimerFires, GoTo, Becomes, Worker
  <2>2. CASE SchedulerRefuses(s) \/ CallReturns(s)
    BY <1>0, <2>2 DEF SchedulerRefuses, CallReturns, Becomes, Worker
  <2>3. CASE Snapshot(s)
    BY <1>0, <2>3 DEF Snapshot, Becomes, Worker
  <2>4. CASE WaitToRetry(s)
    BY <1>0, <2>4 DEF WaitToRetry, GoOn, Becomes, NoWorker
  <2> QED
    BY <1>7, <2>1, <2>2, <2>3, <2>4
<1>8. CASE ApplyResult(s)
  <2>1. /\ worker'[s].pc = "decide"
        /\ worker'[s].ready = w.ready /\ worker'[s].target = w.target
    BY <1>0, <1>8 DEF ApplyResult, GoTo, Becomes, Worker
  <2>2. CASE w.ready < w.target
    BY <1>0, <1>2, <2>1, <2>2 DEF Running, Ending, Worker
  <2>3. CASE w.ready >= w.target
    <3>1. ResultState(w) = "ready"
      BY <1>0, <2>3 DEF ResultState, Worker
    <3>2. status'[s] = NoStatus \/ status'[s].state = "ready"
      BY <1>0, <1>8, <3>1 DEF ApplyResult, UpdateStatus, Status
    <3> QED
      BY <1>3, <2>1, <3>2 DEF At
  <2> QED
    BY <1>0, <2>2, <2>3 DEF Worker
<1>9. CASE Succeed(s)
  <2>1. Ending(s) /\ worker'[s].pc = "ending"
    BY <1>0, <1>9, Parts DEF Succeed, Ending, At, GoOn, Becomes, InitInv, NoWorker
  <2>2. status'[s] = NoStatus \/ status'[s].state = status[s].state
    BY <1>0, <1>9 DEF Succeed, UpdateStatus, Status
  <2>3. Waits(s)' => Waits(s)
    BY <1>0, <1>1, <1>9 DEF Succeed, UpdateStatus, Waits
  <2> QED
    BY <1>0, <1>1, <2>1, <2>2, <2>3 DEF Driven, Waits, At
<1>10. CASE Suspend(s) \/ Cancelled(s)
  <2>1. worker'[s].pc = "ending"
    BY <1>0, <1>10, Parts DEF Suspend, Cancelled, GoOn, Becomes, InitInv, NoWorker
  <2>2. status'[s] = NoStatus \/ status'[s].state \in {"suspended", "failed"}
    BY <1>0, <1>10 DEF Suspend, Cancelled, UpdateStatus, Status
  <2> QED
    BY <1>3, <2>1, <2>2 DEF At
<1>11. CASE End(s)
  <2>1. Ending(s) /\ worker'[s].pc = "none" /\ status' = status
    BY <1>0, <1>11, Parts DEF End, Ending, At, Becomes, InitInv, NoWorker, OnlyWorker
  <2> QED
    BY <1>3, <2>1 DEF At
<1> QED
  BY <1>4, <1>5, <1>6, <1>7, <1>8, <1>9, <1>10, <1>11 DEF WorkerStep

--------------------------------------------------------------------------------
\* Every step preserves the invariant.
LEMMA InitInvStep == InitInv /\ [Next]_vars => InitInv'
<1> SUFFICES ASSUME InitInv, [Next]_vars PROVE InitInv'
  OBVIOUS
<1>1. ASSUME NEW c \in Callers, CallerStep(c) PROVE InitInv'
  BY <1>1, CallerTypes, CallerDrives DEF InitInv
<1>2. ASSUME NEW s \in Specs, WorkerStep(s) PROVE InitInv'
  BY <1>2, WorkerTypes, WorkerFrame, WorkerDrives DEF InitInv
<1>3. CASE Stop
  <2>1. TypeOK' /\ Settled'
    BY <1>3 DEF InitInv, TypeOK, Settled, Stop, Known, Running, callerVars, poolVars
  <2>2. ASSUME NEW r \in Specs PROVE Driven(r)'
    BY <1>3 DEF InitInv, Stop, Driven, Waits, Running, Ending, At, Asked, callerVars
  <2> QED
    BY <2>1, <2>2 DEF InitInv
<1>4. ASSUME NEW s \in Specs, InstanceDies(s) PROVE InitInv'
  <2>1. UNCHANGED <<managerVars, worker, callerVars, desired, missed>>
    BY <1>4 DEF InstanceDies
  <2>2. up' \in [Specs -> Nat] /\ \A r \in Specs : up'[r] <= Active[r]
    <3>1. up[s] \in Nat /\ up[s] - 1 \in Nat /\ up[s] - 1 <= Active[s]
      <4>1. Active[s] \in Nat
        BY InitAssumption
      <4>2. up[s] \in Nat /\ up[s] <= Active[s] /\ up[s] > 0
        BY <1>4 DEF InstanceDies, InitInv, TypeOK
      <4> QED
        BY <4>1, <4>2
    <3>2. up' = [up EXCEPT ![s] = up[s] - 1]
      BY <1>4 DEF InstanceDies
    <3> QED
      BY <3>1, <3>2 DEF InitInv, TypeOK
  <2>3. TypeOK' /\ Settled'
    BY <2>1, <2>2 DEF InitInv, TypeOK, Settled, Known, Running, callerVars, managerVars
  <2>4. ASSUME NEW r \in Specs PROVE Driven(r)'
    BY <2>1, DrivenKept DEF InitInv, Asked, callerVars, managerVars
  <2> QED
    BY <2>3, <2>4 DEF InitInv
<1>5. CASE UNCHANGED vars
  BY <1>5 DEF vars, managerVars, poolVars, callerVars, InitInv, TypeOK, Settled, Known,
     Running, Driven, Waits, Asked, Ending, At
<1> QED
  BY <1>1, <1>2, <1>3, <1>4, <1>5 DEF Next

\* Type correctness; no pool is ever asked for more than the spec's active size.
THEOREM InitTypeCorrect == Spec => []TypeOK
<1>1. InitInv => TypeOK
  BY DEF InitInv
<1> QED
  BY <1>1, InitInvInit, InitInvStep, PTL DEF Spec

\* A spec that waits for instances has a worker or is about to be given one, but
\* for the specs whose worker was asked for in the window between the previous
\* worker's decision to end (manager.go:403, 556) and its deferred removal from
\* m.running (manager.go:389-393).
THEOREM PendingSpecsAreDriven == Spec => []PendingIsDriven
<1>1. InitInv => PendingIsDriven
  BY DEF InitInv, Driven, Waits, PendingIsDriven
<1> QED
  BY <1>1, InitInvInit, InitInvStep, PTL DEF Spec

================================================================================
