------------------------------- MODULE ServerInit -------------------------------
(***************************************************************************)
(* The server init manager (internal/app/bootstrap/serverinit): one worker *)
(* goroutine per spec asks the scheduler for the spec's target of ready    *)
(* instances, looks at the pool, and retries with a bound on consecutive   *)
(* failures.  Targets come from the catalog, from the client registry and  *)
(* from reloads; every critical section of Manager.mu is a step, so they   *)
(* change between any two steps of a worker.                               *)
(***************************************************************************)
EXTENDS Integers, FiniteSets

CONSTANTS
  Callers,      \* goroutines that call the manager
  Specs,        \* spec keys
  Active,       \* activation.ActiveMinReady, per spec
  Catalogs,     \* catalogs: [some specs -> {"always-on", "on-demand"}]
  MaxRetries,   \* serverInitMaxRetries
  MaxFailed,    \* bound: failed instances a snapshot can show
  NoStatus

ASSUME InitAssumption ==
  /\ Active \in [Specs -> Nat \ {0}]
  /\ Catalogs \subseteq UNION {[S -> {"always-on", "on-demand"}] : S \in SUBSET Specs}
  /\ MaxRetries \in Nat \ {0}
  /\ MaxFailed \in Nat

VARIABLES
  catalog,   \* m.specs
  phase,     \* "new", then "started", then "stopped" (ctx is cancelled)
  target,    \* m.targets; 0 for a spec without entry
  status,    \* m.statuses
  worker,    \* per spec: its goroutine and what that has read
  ensuring,  \* per caller: specs it has yet to call ensureWorker for
  stopping,  \* per caller: specs it deactivated and has yet to stop
  desired,   \* the scheduler's minReady of the spec's pool
  up,        \* the ready and busy instances of the spec's pool
  missed     \* history: specs whose worker had decided to end when it was
             \* asked for

managerVars == <<catalog, phase, target, status>>
poolVars == <<desired, up>>
callerVars == <<ensuring, stopping>>
vars == <<managerVars, worker, callerVars, poolVars, missed>>

States == {"pending", "starting", "ready", "degraded", "failed", "suspended"}
Errors == {"none", "retryable", "fatal"}
PCs == {"none", "start", "zero", "prev", "mark", "call", "calling", "snapshot",
        "result", "decide", "waiting", "ending"}

Counters == [ready : Nat, failed : Nat, retry : 0..MaxRetries]
Status == [state : States, ready : Nat, failed : Nat, retry : 0..MaxRetries]
Worker == [pc : PCs, target : Nat, prev : Counters, ready : Nat, failed : Nat, err : Errors]

ASSUME NoStatusAssumption == NoStatus \notin Status

Running == {s \in Specs : worker[s].pc # "none"}

\* No number of instances exceeds what an active spec is given.
TypeOK ==
  /\ catalog \in Catalogs
  /\ phase \in {"new", "started", "stopped"}
  /\ target \in [Specs -> Nat]
  /\ status \in [Specs -> Status \cup {NoStatus}]
  /\ worker \in [Specs -> Worker]
  /\ ensuring \in [Callers -> SUBSET Specs]
  /\ stopping \in [Callers -> SUBSET Specs]
  /\ desired \in [Specs -> Nat]
  /\ up \in [Specs -> Nat]
  /\ missed \subseteq Specs
  /\ \A s \in Specs : /\ target[s] <= Active[s] /\ worker[s].target <= Active[s]
                      /\ desired[s] <= Active[s] /\ up[s] <= Active[s]

Known == DOMAIN catalog
\* activation.BaselineMinReady.
Baseline(cat, s) == IF cat[s] = "always-on" THEN Active[s] ELSE 0

Fresh == [state |-> "pending", ready |-> 0, failed |-> 0, retry |-> 0]
Zero == [ready |-> 0, failed |-> 0, retry |-> 0]
NoWorker == [pc |-> "none", target |-> 0, prev |-> Zero,
             ready |-> 0, failed |-> 0, err |-> "none"]

Init ==
  /\ catalog \in Catalogs
  /\ phase = "new"
  /\ target = [s \in Specs |-> 0]
  /\ status = [s \in Specs |-> NoStatus]
  /\ worker = [s \in Specs |-> NoWorker]
  /\ ensuring = [c \in Callers |-> {}]
  /\ stopping = [c \in Callers |-> {}]
  /\ desired = [s \in Specs |-> 0]
  /\ up = [s \in Specs |-> 0]
  /\ missed = {}

--------------------------------------------------------------------------------
(* Callers.                                                                *)

Idle(c) == ensuring[c] = {} /\ stopping[c] = {}

\* updateStatus: a spec without status is left alone.
UpdateStatus(s, new) ==
  status' = [status EXCEPT ![s] = IF @ = NoStatus THEN NoStatus ELSE new]

Start(c) ==
  /\ Idle(c)
  /\ phase = "new"
  /\ phase' = "started"
  /\ target' = [s \in Specs |-> IF s \in Known THEN Baseline(catalog, s) ELSE target[s]]
  /\ status' = [s \in Specs |-> IF s \in Known THEN Fresh ELSE status[s]]
  /\ ensuring' = [ensuring EXCEPT ![c] = Known]
  /\ UNCHANGED <<catalog, worker, stopping, poolVars, missed>>

Stop ==
  /\ phase = "started"
  /\ phase' = "stopped"
  /\ UNCHANGED <<catalog, target, status, worker, callerVars, poolVars, missed>>

\* activateSpecs, for the first client of a spec.  The status stays as it is;
\* a worker is asked for only when the target changes.
Activate(c, s) ==
  /\ Idle(c)
  /\ phase # "new"
  /\ s \in Known
  /\ target' = [target EXCEPT ![s] = Active[s]]
  /\ ensuring' = [ensuring EXCEPT ![c] = IF target[s] # Active[s] THEN {s} ELSE {}]
  /\ UNCHANGED <<catalog, phase, status, worker, stopping, poolVars, missed>>

\* deactivateSpecs, for the last client of a spec: SetMinReady(0) here, then ...
Deactivate(c, s) ==
  /\ Idle(c)
  /\ phase # "new"
  /\ s \in Known
  /\ target' = [target EXCEPT ![s] = 0]
  /\ status' = [status EXCEPT ![s] = Fresh]
  /\ stopping' = [stopping EXCEPT ![c] = {s}]
  /\ UNCHANGED <<catalog, phase, worker, ensuring, poolVars, missed>>

\* ... StopSpec of the scheduler.
StopSpec(c, s) ==
  /\ s \in stopping[c]
  /\ stopping' = [stopping EXCEPT ![c] = @ \ {s}]
  /\ desired' = [desired EXCEPT ![s] = 0]
  /\ up' = [up EXCEPT ![s] = 0]
  /\ UNCHANGED <<managerVars, worker, ensuring, missed>>

RetryForgets(c, s) ==  \* mutant: the retry resets the status and starts no worker
  /\ Idle(c) /\ phase # "new" /\ s \in Known
  /\ status' = [status EXCEPT ![s] = [@ EXCEPT !.state = "pending", !.retry = 0]]
  /\ UNCHANGED <<catalog, phase, target, worker, callerVars, poolVars, missed>>
RetrySpec(c, s) ==
  /\ Idle(c)
  /\ phase # "new"
  /\ s \in Known
  /\ status' = [status EXCEPT ![s] = [@ EXCEPT !.state = "pending", !.retry = 0]]
  /\ ensuring' = [ensuring EXCEPT ![c] = IF target[s] > 0 THEN {s} ELSE {}]
  /\ UNCHANGED <<catalog, phase, target, worker, stopping, poolVars, missed>>

\* A reload puts every target back to its baseline, activated or not.
ApplyCatalogState(c, new) ==
  LET added == {s \in DOMAIN new : status[s] = NoStatus}
      activated == {s \in DOMAIN new : target[s] # Baseline(new, s) /\ Baseline(new, s) > 0}
  IN  /\ Idle(c)
      /\ catalog' = new
      /\ target' = [s \in Specs |-> IF s \in DOMAIN new THEN Baseline(new, s) ELSE 0]
      /\ status' = [s \in Specs |->
                      CASE s \notin DOMAIN new -> NoStatus
                        [] s \in added -> Fresh
                        [] OTHER -> IF Baseline(new, s) = 0 THEN Fresh ELSE status[s]]
      /\ ensuring' = [ensuring EXCEPT ![c] = IF phase = "new" THEN {} ELSE added \cup activated]
      /\ UNCHANGED <<phase, worker, stopping, poolVars, missed>>

\* A worker that ends will not look at the target again, nor set the state.
Ending(s) ==
  LET w == worker[s]
  IN  w.pc \in {"zero", "ending"} \/ (w.pc = "decide" /\ w.ready >= w.target)

EnsureWorker(c, s) ==
  /\ s \in ensuring[c]
  /\ ensuring' = [ensuring EXCEPT ![c] = @ \ {s}]
  /\ IF s \in Running
     THEN /\ missed' = IF Ending(s) THEN missed \cup {s} ELSE missed
          /\ UNCHANGED worker
     ELSE /\ worker' = [worker EXCEPT ![s].pc = "start"]
          /\ missed' = missed \ {s}
  /\ UNCHANGED <<managerVars, stopping, poolVars>>

--------------------------------------------------------------------------------
(* The worker: runSpec.                                                    *)

At(s, pc) == worker[s].pc = pc
Becomes(s, w) == worker' = [worker EXCEPT ![s] = w]
GoTo(s, pc) == Becomes(s, [worker[s] EXCEPT !.pc = pc])
\* Nothing read in this attempt is used in the next.
GoOn(s, pc) == Becomes(s, [NoWorker EXCEPT !.pc = pc])
OnlyWorker == UNCHANGED <<catalog, phase, target, callerVars, poolVars, missed>>

TargetUnread(s) ==  \* mutant: the worker goes for the active target whatever is wanted
  /\ At(s, "start")
  /\ Becomes(s, [worker[s] EXCEPT !.target = Active[s], !.pc = "prev"])
  /\ OnlyWorker /\ UNCHANGED status
ReadTarget(s) ==
  /\ At(s, "start")
  /\ Becomes(s, [worker[s] EXCEPT !.target = target[s],
                                  !.pc = IF target[s] = 0 THEN "zero" ELSE "prev"])
  /\ OnlyWorker /\ UNCHANGED status

\* Nothing is wanted: the worker ends.
WriteZero(s) ==
  /\ At(s, "zero")
  /\ UpdateStatus(s, Fresh)
  /\ GoTo(s, "ending")
  /\ OnlyWorker

ReadStatus(s) ==
  /\ At(s, "prev")
  /\ LET prev == IF status[s] = NoStatus THEN Zero
                 ELSE [ready |-> status[s].ready, failed |-> status[s].failed,
                       retry |-> status[s].retry]
     IN  Becomes(s, [worker[s] EXCEPT !.prev = prev, !.pc = "mark"])
  /\ OnlyWorker /\ UNCHANGED status

MarkStarting(s) ==
  /\ At(s, "mark")
  /\ UpdateStatus(s, [status[s] EXCEPT !.state = "starting"])
  /\ GoTo(s, "call")
  /\ OnlyWorker

\* The scheduler's catalog may be behind or ahead: it may not know the spec.
SchedulerRefuses(s) ==
  /\ At(s, "call")
  /\ Becomes(s, [worker[s] EXCEPT !.err = "fatal", !.pc = "snapshot"])
  /\ OnlyWorker /\ UNCHANGED status

\* SetDesiredMinReady sets the pool's minReady at once ...
CallScheduler(s) ==
  /\ At(s, "call")
  /\ desired' = [desired EXCEPT ![s] = worker[s].target]
  /\ GoTo(s, "calling")
  /\ UNCHANGED <<managerVars, callerVars, up, missed>>

StartsAnew(s) ==  \* mutant: the instances that run already are not counted
  /\ At(s, "calling")
  /\ GoTo(s, "snapshot")
  /\ up' = [up EXCEPT ![s] = @ + desired[s]]
  /\ UNCHANGED <<managerVars, callerVars, desired, missed>>
\* ... then starts what is missing; instances that come up after the pool was
\* stopped are stopped.  It may fail halfway, and it may find that other callers'
\* starts already make up the number.
CallReturns(s) ==
  /\ At(s, "calling")
  /\ \E e \in Errors :
       Becomes(s, [worker[s] EXCEPT !.err = e, !.pc = "snapshot"])
  /\ \E n \in 0..Active[s] :
       /\ n = up[s] \/ (up[s] < n /\ n <= desired[s])
       /\ up' = [up EXCEPT ![s] = n]
  /\ UNCHANGED <<managerVars, callerVars, desired, missed>>

\* An instance that dies leaves the pool.
InstanceDies(s) ==
  /\ up[s] > 0
  /\ up' = [up EXCEPT ![s] = @ - 1]
  /\ UNCHANGED <<managerVars, worker, callerVars, desired, missed>>

\* GetPoolStatus may fail: then nothing is ready, and that is the error unless
\* the call before had one.
Snapshot(s) ==
  /\ At(s, "snapshot")
  /\ \/ \E failed \in 0..MaxFailed :
          Becomes(s, [worker[s] EXCEPT !.ready = up[s], !.failed = failed, !.pc = "result"])
     \/ Becomes(s, [worker[s] EXCEPT !.ready = 0, !.failed = 0, !.pc = "result",
                                     !.err = IF @ = "none" THEN "retryable" ELSE @])
  /\ OnlyWorker /\ UNCHANGED status

ResultState(w) ==
  CASE w.ready >= w.target -> "ready"
    [] w.ready \in 1..w.target - 1 -> "degraded"
    [] w.ready = 0 /\ w.target > 0 /\ (w.err # "none" \/ w.failed > 0) -> "failed"
    [] OTHER -> "starting"

ApplyResult(s) ==
  LET w == worker[s]
  IN  /\ At(s, "result")
      /\ UpdateStatus(s, [status[s] EXCEPT !.state = ResultState(w),
                                           !.ready = w.ready, !.failed = w.failed])
      /\ GoTo(s, "decide")
      /\ OnlyWorker

\* nextRetryCount, against the status read before the attempt.  Counts from
\* MaxRetries on all mean the same and are one value here.
NextRetryCount(w) ==
  CASE w.ready > w.prev.ready -> 0
    [] w.ready <= w.prev.ready /\ (w.err # "none" \/ w.failed > w.prev.failed) ->
         IF w.prev.retry < MaxRetries THEN w.prev.retry + 1 ELSE MaxRetries
    [] OTHER -> w.prev.retry

GiveUp(w) == w.err = "fatal" \/ NextRetryCount(w) >= MaxRetries

Succeed(s) ==
  /\ At(s, "decide")
  /\ worker[s].ready >= worker[s].target
  /\ UpdateStatus(s, [status[s] EXCEPT !.retry = 0])
  /\ GoOn(s, "ending")
  /\ OnlyWorker

Suspend(s) ==
  LET w == worker[s]
  IN  /\ At(s, "decide")
      /\ w.ready < w.target
      /\ GiveUp(w)
      /\ UpdateStatus(s, [status[s] EXCEPT !.state = "suspended", !.retry = NextRetryCount(w)])
      /\ GoOn(s, "ending")
      /\ OnlyWorker

WaitToRetry(s) ==
  LET w == worker[s]
  IN  /\ At(s, "decide")
      /\ w.ready < w.target
      /\ ~GiveUp(w)
      /\ UpdateStatus(s, [status[s] EXCEPT !.retry = NextRetryCount(w)])
      /\ GoOn(s, "waiting")
      /\ OnlyWorker

\* The select at the end of the loop.
TimerFires(s) ==
  /\ At(s, "waiting")
  /\ GoTo(s, "start")
  /\ OnlyWorker /\ UNCHANGED status

CancelIgnored(s) == FALSE /\ UNCHANGED vars  \* mutant: only the timer ends the wait
Cancelled(s) ==
  /\ At(s, "waiting")
  /\ phase = "stopped"
  /\ UpdateStatus(s, [status[s] EXCEPT !.state = "failed"])
  /\ GoOn(s, "ending")
  /\ OnlyWorker

\* The deferred section that takes the worker out of m.running.
End(s) ==
  /\ At(s, "ending")
  /\ Becomes(s, NoWorker)
  /\ OnlyWorker /\ UNCHANGED status

--------------------------------------------------------------------------------
WorkerStep(s) ==
  \/ ReadTarget(s) \/ WriteZero(s) \/ ReadStatus(s) \/ MarkStarting(s)
  \/ SchedulerRefuses(s) \/ CallScheduler(s) \/ CallReturns(s)
  \/ Snapshot(s) \/ ApplyResult(s)
  \/ Succeed(s) \/ Suspend(s) \/ WaitToRetry(s)
  \/ TimerFires(s) \/ Cancelled(s) \/ End(s)

CallerStep(c) ==
  \/ Start(c)
  \/ \E s \in Specs : \/ Activate(c, s) \/ Deactivate(c, s) \/ StopSpec(c, s)
                      \/ RetrySpec(c, s) \/ EnsureWorker(c, s)
  \/ \E new \in Catalogs : ApplyCatalogState(c, new)

Next ==
  \/ \E c \in Callers : CallerStep(c)
  \/ Stop
  \/ \E s \in Specs : WorkerStep(s) \/ InstanceDies(s)

Spec == Init /\ [][Next]_vars

\* Goroutines run on; a call into the scheduler ends because starting an instance
\* has a timeout.  The retry delay is at least retryBase, so a cancelled context
\* is seen in the select in the end.
Fairness ==
  \A s \in Specs : WF_vars(WorkerStep(s)) /\ SF_vars(Cancelled(s))

LiveSpec == Spec /\ Fairness

--------------------------------------------------------------------------------
(* Safety.                                                                 *)

Asked(s) == \E c \in Callers : s \in ensuring[c]

\* A spec that waits for instances has a worker, or one is about to be asked for:
\* unless the worker was asked for when the previous one had decided to end but
\* was still in m.running.
PendingIsDriven ==
  \A s \in Specs :
    /\ phase # "new" /\ target[s] > 0
    /\ status[s] # NoStatus /\ status[s].state = "pending"
    => s \in Running \cup missed \/ Asked(s)

--------------------------------------------------------------------------------
(* Liveness.                                                               *)

\* Stop ends every worker, whatever it is doing.
StopEndsWorkers ==
  \A s \in Specs : phase = "stopped" /\ s \in Running ~> s \notin Running

\* A spec nobody wants any more is given up, also by a worker that retries.
UnwantedWorkerEnds ==
  \A s \in Specs : s \in Running /\ target[s] = 0 ~> s \notin Running \/ target[s] > 0

================================================================================
