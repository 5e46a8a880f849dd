--------------------------- MODULE MetadataBootstrap ---------------------------
(***************************************************************************)
(* The metadata bootstrap (app/bootstrap/metadata/manager.go) and the cache*)
(* it fills (domain/metadata_cache.go).  The full run starts once with the *)
(* application; a reload runs an incremental one for the specs it added or *)
(* changed and waits for it.  Both borrow an instance per spec and list its*)
(* tools, resources and prompts.                                           *)
(***************************************************************************)
EXTENDS Integers, Sequences, SequencesExt, FiniteSets

CONSTANTS
  SpecKeys,
  Kinds,            \* the lists asked for, in order: tools, resources, prompts
  MinReadySpecs,    \* specs for which shouldWaitForReady holds
  Limits,           \* the values of BootstrapConcurrency
  MaxReloads        \* bound: reloads

\* Where a goroutine can stand, apart from the list it asks for.
Phases == {"none", "queued", "acquire", "poll", "start", "release", "giveUp",
           "succeeded", "failed", "won", "lost"}

ASSUME MetadataBootstrapAssumption ==
  /\ MinReadySpecs \subseteq SpecKeys /\ Limits \subseteq Nat \ {0} /\ MaxReloads \in Nat
  /\ IsFiniteSet(SpecKeys)
  /\ Len(Kinds) \in Nat \ {0} /\ DOMAIN Kinds = 1..Len(Kinds)
  /\ ToSet(Kinds) \cap Phases = {}

VARIABLES
  config,      \* mode, concurrency and specs of the last ApplyCatalogState
  state, total, completed, errors,  \* m.state and m.progress
  active,      \* the runs under way
  slots,       \* the size of each run's semaphore
  job,         \* the goroutine of each run for each spec
  lease,       \* which of them hold an instance
  cached,      \* the lists in the cache
  expired,     \* specs whose cachedAt is older than the time to live
  reloads

progressVars == <<state, total, completed, errors>>
cacheVars == <<cached, expired>>
mbVars == <<config, progressVars, active, slots, job, lease, cacheVars, reloads>>

Runs == {"full", "incremental"}

\* Mutant: a goroutine that fails keeps its slot.
SlotKeptOnFailure == {"acquire", "poll", "start", "release", "giveUp", "failed", "lost"} \cup ToSet(Kinds)

Working == {"acquire", "poll", "start", "release", "giveUp"} \cup ToSet(Kinds)
Configs == [mode : {"metadata", "disabled"}, concurrency : Limits, specs : SUBSET SpecKeys]

MBInit ==
  /\ config \in Configs
  /\ state = "pending" /\ total = 0 /\ completed = 0 /\ errors = {}
  /\ active = {} /\ slots = [r \in Runs |-> 1]
  /\ job = [r \in Runs |-> [s \in SpecKeys |-> "none"]]
  /\ lease = [r \in Runs |-> {}]
  /\ cached = [s \in SpecKeys |-> {}] /\ expired = {} /\ reloads = 0

(***************************************************************************)
(* Bootstrap, ApplyCatalogState, BootstrapSpecKeys.                        *)
(***************************************************************************)

StartJobs(r, specs) ==
  /\ active' = active \cup {r}
  /\ slots' = [slots EXCEPT ![r] = config.concurrency]
  /\ job' = [job EXCEPT ![r] = [s \in SpecKeys |-> IF s \in specs THEN "queued" ELSE "none"]]

Bootstrap ==
  /\ state = "pending"
  /\ IF config.mode = "disabled"
     THEN state' = "completed" /\ UNCHANGED <<total, active, slots, job>>
     ELSE /\ state' = "running" /\ total' = Cardinality(config.specs)
          /\ StartJobs("full", config.specs)
  /\ UNCHANGED <<config, completed, errors, lease, cacheVars, reloads>>

\* One reload at a time: its incremental run ends before the next.
ApplyCatalogState ==
  /\ reloads < MaxReloads /\ "incremental" \notin active
  /\ reloads' = reloads + 1
  /\ config' \in Configs
  /\ UNCHANGED <<progressVars, active, slots, job, lease, cacheVars>>

BootstrapSpecKeys(keys) ==
  /\ "incremental" \notin active /\ reloads > 0
  /\ config.mode # "disabled" /\ keys \cap config.specs # {}
  /\ StartJobs("incremental", keys \cap config.specs)
  /\ UNCHANGED <<config, progressVars, lease, cacheVars, reloads>>

(***************************************************************************)
(* bootstrapOne.  Every call may fail with its context.                    *)
(***************************************************************************)

GoTo(r, s, to) == job' = [job EXCEPT ![r][s] = to]
Stays == UNCHANGED <<config, progressVars, active, slots, reloads>>

EnterSemaphore(r, s) ==
  /\ job[r][s] = "queued"
  /\ Cardinality({t \in SpecKeys : job[r][t] \in Working}) < slots[r]
  /\ GoTo(r, s, "acquire")
  /\ UNCHANGED <<lease, cacheVars>> /\ Stays

CancelledInQueue(r, s) ==
  /\ job[r][s] = "queued"
  /\ GoTo(r, s, "failed")
  /\ UNCHANGED <<lease, cacheVars>> /\ Stays

Acquired(r, s) ==
  /\ job[r][s] \in {"acquire", "poll", "start"}
  /\ lease' = [lease EXCEPT ![r] = @ \cup {s}]
  /\ \E conn \in BOOLEAN : GoTo(r, s, IF conn THEN Kinds[1] ELSE "giveUp")
  /\ UNCHANGED cacheVars /\ Stays

\* Only ErrNoReadyInstance leads on: to waiting for an instance that is being made
\* ready, then to starting one.
NotAcquired(r, s) ==
  /\ \/ job[r][s] = "acquire" /\ GoTo(r, s, IF s \in MinReadySpecs THEN "poll" ELSE "start")
     \/ job[r][s] = "poll" /\ GoTo(r, s, "start")
     \/ job[r][s] \in {"acquire", "start"} /\ GoTo(r, s, "failed")
  /\ UNCHANGED <<lease, cacheVars>> /\ Stays

\* A list that fails or is empty leaves the cache alone; the lists share a cachedAt.
Fetch(r, s, i) ==
  /\ job[r][s] = Kinds[i]
  /\ GoTo(r, s, IF i = Len(Kinds) THEN "release" ELSE Kinds[i + 1])
  /\ \/ cached' = [cached EXCEPT ![s] = @ \cup {Kinds[i]}] /\ expired' = expired \ {s}
     \/ UNCHANGED cacheVars
  /\ UNCHANGED lease /\ Stays

\* Mutant: an instance without a connection is not given back.
ReleaseAfterFetchOnly(r, s) ==
  /\ job[r][s] \in {"release", "giveUp"}
  /\ lease' = IF job[r][s] = "giveUp" THEN lease ELSE [lease EXCEPT ![r] = @ \ {s}]
  /\ GoTo(r, s, IF job[r][s] = "release" THEN "succeeded" ELSE "failed")
  /\ UNCHANGED cacheVars /\ Stays

ReleaseInstance(r, s) ==
  /\ job[r][s] \in {"release", "giveUp"}
  /\ lease' = [lease EXCEPT ![r] = @ \ {s}]
  /\ GoTo(r, s, IF job[r][s] = "release" THEN "succeeded" ELSE "failed")
  /\ UNCHANGED cacheVars /\ Stays

(***************************************************************************)
(* The results of a run.                                                   *)
(***************************************************************************)

RecordResult(r, s) ==
  /\ job[r][s] \in {"succeeded", "failed"}
  /\ GoTo(r, s, IF job[r][s] = "failed" THEN "lost" ELSE "won")
  /\ completed' = IF r = "full" /\ job[r][s] = "succeeded" THEN completed + 1 ELSE completed
  /\ errors' = IF r = "full" /\ job[r][s] = "failed" THEN errors \cup {s} ELSE errors
  /\ UNCHANGED <<config, state, total, active, slots, lease, cacheVars, reloads>>

\* run and BootstrapSpecKeys return when every goroutine's result has been read.
CompleteBootstrap(r) ==
  /\ r \in active /\ \A s \in SpecKeys : job[r][s] \in {"none", "won", "lost"}
  /\ active' = active \ {r}
  /\ state' = IF r = "full" THEN IF errors = {} THEN "completed" ELSE "failed" ELSE state
  /\ UNCHANGED <<config, total, completed, errors, slots, job, lease, cacheVars, reloads>>

(***************************************************************************)
(* The cache: a reader that meets an expired entry clears it.              *)
(***************************************************************************)

Expire(s) ==
  /\ cached[s] # {} /\ s \notin expired
  /\ expired' = expired \cup {s}
  /\ UNCHANGED <<config, progressVars, active, slots, job, lease, cached, reloads>>

ReadExpired(s) ==
  /\ s \in expired
  /\ cached' = [cached EXCEPT ![s] = {}] /\ expired' = expired \ {s}
  /\ UNCHANGED <<config, progressVars, active, slots, job, lease, reloads>>

JobStep(r, s) ==
  \/ EnterSemaphore(r, s) \/ Acquired(r, s) \/ NotAcquired(r, s)
  \/ \E i \in DOMAIN Kinds : Fetch(r, s, i)
  \/ ReleaseInstance(r, s) \/ RecordResult(r, s)

MBNext ==
  \/ Bootstrap \/ ApplyCatalogState
  \/ \E keys \in SUBSET SpecKeys : BootstrapSpecKeys(keys)
  \/ \E r \in Runs, s \in SpecKeys : JobStep(r, s) \/ CancelledInQueue(r, s)
  \/ \E r \in Runs : CompleteBootstrap(r)
  \/ \E s \in SpecKeys : Expire(s) \/ ReadExpired(s)

MBSpec == MBInit /\ [][MBNext]_mbVars

\* Every call ends, if only with the timeout of its spec.
MBFairness ==
  /\ \A r \in Runs, s \in SpecKeys : WF_mbVars(JobStep(r, s))
  /\ \A r \in Runs : WF_mbVars(CompleteBootstrap(r))

(***************************************************************************)
(* Properties.                                                             *)
(***************************************************************************)

\* The type invariant.
MBTypeOK ==
  /\ config \in Configs /\ state \in {"pending", "running", "completed", "failed"}
  /\ total \in 0..Cardinality(SpecKeys) /\ completed \in 0..Cardinality(SpecKeys)
  /\ errors \in SUBSET SpecKeys /\ active \in SUBSET Runs /\ slots \in [Runs -> Limits \cup {1}]
  /\ job \in [Runs -> [SpecKeys -> Phases \cup ToSet(Kinds)]]
  /\ lease \in [Runs -> SUBSET SpecKeys]
  /\ cached \in [SpecKeys -> SUBSET ToSet(Kinds)] /\ expired \in SUBSET SpecKeys
  /\ reloads \in 0..MaxReloads

\* What WaitForCompletion reports is the whole truth: the numbers add up to the targets
\* the run set out with though reloads replaced the specs meanwhile, it failed exactly
\* when a spec did, and no instance is still borrowed.
CompletionIsHonest ==
  state \in {"completed", "failed"} =>
    /\ completed + Cardinality(errors) = total
    /\ state = "completed" <=> errors = {}
    /\ lease["full"] = {}

\* That, and the type invariant.
BootstrapInv == MBTypeOK /\ CompletionIsHonest

\* A run ends, however few slots it has and whatever fails: the application's shutdown
\* waits for the full one and a reload, holding its lock, for the incremental one.
RunsEnded == active = {}
BootstrapEnds == []<>RunsEnded
================================================================================
