----------------------------- MODULE CatalogReload -----------------------------
(***************************************************************************)
(* The hot reload of the catalog: the provider that reads the config file  *)
(* and publishes revisions (internal/app/catalog), and the reload manager  *)
(* whose run loop applies each update to the other components as a         *)
(* transaction (internal/app/controlplane/reload.go and reload/).          *)
(*                                                                         *)
(* Two kinds of process reload the file: the watcher, after an edit, and   *)
(* the callers of ReloadManager.Reload.  reloadMu makes them take turns.   *)
(* The run loop runs beside them and takes updates from a channel of       *)
(* capacity one, into which the provider never blocks to send.             *)
(***************************************************************************)
EXTENDS Integers, Sequences

CONSTANTS
  Callers,      \* goroutines calling ReloadManager.Reload
  Watcher,      \* the goroutine of runWatcher
  Catalogs,     \* what the config file may say: records of the fields below
  FirstCatalog, \* what the file says when the core is built
  Broken,       \* a file that does not load
  Mixed,        \* a set of plugins that is neither the old nor the new one
  Faults,       \* the steps that may fail, and "undo", "ctxDone"
  MaxEdits,     \* bound: number of edits of the file
  NoProc

Reloaders == Callers \cup {Watcher}

\* servers: the spec registry; plugins: the plugin list; mode: reloadMode, a
\* runtime field that is applied while running; fixed: the runtime fields that
\* need a restart (rpc, subAgent).
ASSUME ReloadAssumption ==
  /\ Catalogs \subseteq [servers : STRING, plugins : STRING,
                         mode : {"lenient", "strict"}, fixed : STRING]
  /\ FirstCatalog \in Catalogs
  /\ Broken \notin Catalogs /\ Mixed \notin Catalogs
  /\ Watcher \notin Callers /\ NoProc \notin Reloaders
  /\ Faults \subseteq {"scheduler", "registry", "plugins", "undo", "ctxDone"}
  /\ MaxEdits \in Nat

\* The components that hold a part of the catalog, by the step that updates them.
Components == {"scheduler", "startup", "state", "indexes", "registry",
               "plugins", "pipeline", "settings"}

VARIABLES
  file,         \* the config file
  edits,        \* number of edits so far
  dirty,        \* the watcher's debounce timer runs
  snapshot,     \* the provider's catalog
  revision,     \* ... and its revision
  reloadMu,     \* who holds reloadMu
  pc,           \* per reloader: next step
  loaded,       \* per reloader: the catalog it parsed
  prev,         \* per reloader: the snapshot it compares that with
  rev,          \* per caller: the revision seen before, then the one waited for
  updates,      \* the channel of the reload manager
  stage,        \* the run loop: "off", "watching", "idle", "apply", "rollback"
  update,       \* the update being applied
  base,         \* the catalog to roll back to
  done,         \* number of steps applied
  given,        \* per component: the catalog it was given last
  appliedRev,
  published,    \* history: the catalogs published, by revision
  startRev,     \* history: the revision that Start took for applied
  lost,         \* history: an update was dropped, refused or rolled back
  skewed,       \* history: an update's diff was not against the state's catalog
  down          \* the strict mode ended the process

fileVars == <<file, edits, dirty>>
provVars == <<snapshot, revision, published>>
loopVars == <<stage, update, base, done, given, appliedRev, startRev, skewed>>
vars == <<fileVars, provVars, reloadMu, pc, loaded, prev, rev, updates,
          loopVars, lost, down>>

Revisions == Nat \ {0}
Updates == [from : Catalogs, cat : Catalogs, rev : Revisions]
NoUpdate == [from |-> FirstCatalog, cat |-> FirstCatalog, rev |-> 1]

TypeOK ==
  /\ file \in Catalogs \cup {Broken}
  /\ edits \in 0..MaxEdits
  /\ dirty \in BOOLEAN
  /\ snapshot \in Catalogs
  /\ revision \in Revisions
  /\ reloadMu \in Reloaders \cup {NoProc}
  /\ pc \in [Reloaders -> {"idle", "begun", "loaded", "published", "waiting"}]
  /\ loaded \in [Reloaders -> Catalogs \cup {Broken}]
  /\ prev \in [Reloaders -> Catalogs]
  /\ rev \in [Callers -> 1..revision]
  /\ updates \in Seq(Updates) /\ Len(updates) <= 1
  /\ stage \in {"off", "watching", "idle", "apply", "rollback"}
  /\ update \in Updates
  /\ base \in Catalogs
  /\ done \in 0..4
  /\ given \in [Components -> Catalogs \cup {Mixed}]
  /\ appliedRev \in 0..revision
  /\ published \in Seq(Catalogs) /\ Len(published) = revision
  /\ startRev \in 0..revision
  /\ lost \in BOOLEAN /\ skewed \in BOOLEAN /\ down \in BOOLEAN

\* The core is built from the provider's first snapshot, revision 1.
Init ==
  /\ file = FirstCatalog /\ edits = 0 /\ dirty = FALSE
  /\ snapshot = FirstCatalog /\ revision = 1 /\ published = <<FirstCatalog>>
  /\ reloadMu = NoProc
  /\ pc = [p \in Reloaders |-> "idle"]
  /\ loaded = [p \in Reloaders |-> FirstCatalog]
  /\ prev = [p \in Reloaders |-> FirstCatalog]
  /\ rev = [c \in Callers |-> 1]
  /\ updates = <<>>
  /\ stage = "off" /\ update = NoUpdate /\ base = FirstCatalog /\ done = 0
  /\ given = [x \in Components |-> FirstCatalog]
  /\ appliedRev = 0 /\ startRev = 0
  /\ lost = FALSE /\ skewed = FALSE /\ down = FALSE

--------------------------------------------------------------------------------
(* The catalog provider.                                                   *)

\* The editor or the user rewrites the file; the watcher, once it runs, starts
\* its debounce timer.
EditFile ==
  /\ edits < MaxEdits
  /\ file' \in (Catalogs \cup {Broken}) \ {file}
  /\ edits' = edits + 1
  /\ dirty' = (stage # "off")
  /\ UNCHANGED <<provVars, reloadMu, pc, loaded, prev, rev, updates, loopVars,
                 lost, down>>

NoLock == TRUE  \* mutant: reloads do not take turns
LockFree == reloadMu = NoProc

\* provider.reload enters the lock and reads the file.
LoadFile(p) ==
  /\ LockFree
  /\ reloadMu' = p
  /\ loaded' = [loaded EXCEPT ![p] = file]
  /\ prev' = [prev EXCEPT ![p] = snapshot]
  /\ pc' = [pc EXCEPT ![p] = "loaded"]

WatcherReloads ==
  /\ pc[Watcher] = "idle" /\ dirty
  /\ dirty' = FALSE
  /\ LoadFile(Watcher)
  /\ UNCHANGED <<file, edits, provVars, rev, updates, loopVars, lost, down>>

CallerLoads(c) ==
  /\ pc[c] = "begun"
  /\ LoadFile(c)
  /\ UNCHANGED <<fileVars, provVars, rev, updates, loopVars, lost, down>>

\* After its reload the watcher waits for the next event, a caller goes on.
AfterReload(p) == IF p = Watcher THEN "idle" ELSE "published"

LeaveReload(p) ==
  /\ reloadMu' = NoProc
  /\ loaded' = [loaded EXCEPT ![p] = FirstCatalog]
  /\ prev' = [prev EXCEPT ![p] = FirstCatalog]

\* The file does not load or says what the last snapshot says.
ReloadChangesNothing(p) ==
  /\ pc[p] = "loaded"
  /\ loaded[p] \in {Broken, prev[p]}
  /\ pc' = [pc EXCEPT ![p] = IF loaded[p] = Broken THEN "idle" ELSE AfterReload(p)]
  /\ LeaveReload(p)
  /\ UNCHANGED <<fileVars, provVars, rev, updates, loopVars, lost, down>>

\* broadcast sends to a subscriber whose channel has room; the others lose the
\* update.  Before Start nobody has subscribed.
CanSend == stage # "off" /\ updates = <<>>

Publish(p) ==
  /\ pc[p] = "loaded"
  /\ loaded[p] \notin {Broken, prev[p]}
  /\ snapshot' = loaded[p]
  /\ revision' = revision + 1
  /\ published' = Append(published, loaded[p])
  /\ LET u == [from |-> prev[p], cat |-> loaded[p], rev |-> revision + 1]
     IN  updates' = IF CanSend THEN <<u>> ELSE updates
  /\ lost' = (lost \/ ~CanSend)
  /\ pc' = [pc EXCEPT ![p] = AfterReload(p)]
  /\ LeaveReload(p)
  /\ UNCHANGED <<fileVars, rev, loopVars, down>>

--------------------------------------------------------------------------------
(* ReloadManager.Reload: reload the file, then wait for its application.   *)

ReloadBegins(c) ==
  /\ pc[c] = "idle"
  /\ rev' = [rev EXCEPT ![c] = revision]
  /\ pc' = [pc EXCEPT ![c] = "begun"]
  /\ UNCHANGED <<fileVars, provVars, reloadMu, loaded, prev, updates, loopVars,
                 lost, down>>

Started == stage \notin {"off", "watching"}

\* Success at once if the manager has not started or the revision is the one
\* seen before the reload; otherwise poll appliedRev.
ReloadDecides(c) ==
  /\ pc[c] = "published"
  /\ \/ /\ ~Started \/ revision = rev[c]
        /\ pc' = [pc EXCEPT ![c] = "idle"]
        /\ rev' = [rev EXCEPT ![c] = 1]
     \/ /\ Started /\ revision # rev[c]
        /\ pc' = [pc EXCEPT ![c] = "waiting"]
        /\ rev' = [rev EXCEPT ![c] = revision]
  /\ UNCHANGED <<fileVars, provVars, reloadMu, loaded, prev, updates, loopVars,
                 lost, down>>

\* The poll finds the revision, or the caller's context ends.
ReloadReturns(c) ==
  /\ pc[c] = "waiting"
  /\ appliedRev >= rev[c] \/ "ctxDone" \in Faults
  /\ pc' = [pc EXCEPT ![c] = "idle"]
  /\ rev' = [rev EXCEPT ![c] = 1]
  /\ UNCHANGED <<fileVars, provVars, reloadMu, loaded, prev, updates, loopVars,
                 lost, down>>

--------------------------------------------------------------------------------
(* The run loop of the reload manager.                                     *)

StartWatch ==
  /\ stage = "off"
  /\ stage' = "watching"
  /\ UNCHANGED <<fileVars, provVars, reloadMu, pc, loaded, prev, rev, updates, update,
                 base, done, given, appliedRev, startRev, skewed, lost, down>>

\* Start takes the provider's present revision for the applied one.
StartSnapshot ==
  /\ stage = "watching"
  /\ stage' = "idle"
  /\ appliedRev' = revision /\ startRev' = revision
  /\ UNCHANGED <<fileVars, provVars, reloadMu, pc, loaded, prev, rev, updates, update,
                 base, done, given, skewed, lost, down>>

SpecsChanged(u)   == u.from.servers # u.cat.servers
PluginsChanged(u) == u.from.plugins # u.cat.plugins
RuntimeChanged(u) == u.from.mode # u.cat.mode \/ u.from.fixed # u.cat.fixed
RequiresRestart(u) == u.from.fixed # u.cat.fixed
RuntimeOnly(u) == RuntimeChanged(u) /\ ~SpecsChanged(u)

\* buildReloadSteps
StepsOf(u) ==
  <<"scheduler", "registry">>
    \o (IF PluginsChanged(u) THEN <<"plugins">> ELSE <<>>)
    \o (IF RuntimeChanged(u) THEN <<"runtime">> ELSE <<>>)

\* The components that a step of update u gives a catalog to, in its Apply and
\* in its Rollback alike.
Touched(step, u) ==
  CASE step = "scheduler" -> {"startup"} \cup (IF RuntimeOnly(u) THEN {} ELSE {"scheduler"})
    [] step = "registry"  -> {"state", "registry"} \cup
                             (IF RuntimeChanged(u) \/ SpecsChanged(u) THEN {"indexes"} ELSE {})
    [] step = "plugins"   -> {"plugins", "pipeline"}
    [] step = "runtime"   -> {"settings"}

Give(S, cat) == given' = [x \in Components |-> IF x \in S THEN cat ELSE given[x]]

\* HandleApplyError: the strict mode of the new catalog ends the process.
Refused(u) ==
  /\ stage' = "idle"
  /\ lost' = TRUE
  /\ down' = (u.cat.mode = "strict")

\* applyUpdate up to the transaction: the rollback target is what the control
\* plane runs, the diff is the provider's.
ProvidersPrevious == Head(updates).from  \* mutant
RollbackTarget == given["state"]

Skew(u) == skewed' = (skewed \/ u.from # given["state"])

TakeUpdate ==
  /\ stage = "idle" /\ updates # <<>>
  /\ ~RequiresRestart(Head(updates))
  /\ update' = Head(updates)
  /\ updates' = Tail(updates)
  /\ base' = RollbackTarget
  /\ stage' = "apply"
  /\ Skew(Head(updates))
  /\ UNCHANGED <<fileVars, provVars, reloadMu, pc, loaded, prev, rev, done,
                 given, appliedRev, startRev, lost, down>>

\* ErrReloadRestartRequired: nothing is applied.
RefuseUpdate ==
  /\ stage = "idle" /\ updates # <<>>
  /\ RequiresRestart(Head(updates))
  /\ updates' = Tail(updates)
  /\ Refused(Head(updates))
  /\ Skew(Head(updates))
  /\ UNCHANGED <<fileVars, provVars, reloadMu, pc, loaded, prev, rev, update,
                 base, done, given, appliedRev, startRev>>

NextStep == StepsOf(update)[done + 1]

ApplyStep ==
  /\ stage = "apply" /\ done < Len(StepsOf(update))
  /\ Give(Touched(NextStep, update), update.cat)
  /\ done' = done + 1
  /\ UNCHANGED <<fileVars, provVars, reloadMu, pc, loaded, prev, rev, updates, stage,
                 update, base, appliedRev, startRev, skewed, lost, down>>

\* A failing step has given itself back to the old catalog before it returns its
\* error; only the plugins may fail at that too and keep what came up.
FailStep ==
  /\ stage = "apply" /\ done < Len(StepsOf(update))
  /\ NextStep \in Faults
  /\ NextStep = "scheduler" => ~RuntimeOnly(update)
  /\ \/ UNCHANGED <<given, skewed>>
     \/ /\ NextStep = "plugins" /\ "undo" \in Faults
        /\ Give({"plugins"}, Mixed)
        /\ skewed' = TRUE
  /\ stage' = "rollback"
  /\ UNCHANGED <<fileVars, provVars, reloadMu, pc, loaded, prev, rev, updates, update,
                 base, done, appliedRev, startRev, lost, down>>

\* rollbackSteps, last applied step first.
RestoredNoStartup(step, u) == Touched(step, u) \ {"startup"}  \* mutant
Restored(step, u) == Touched(step, u)

RollbackStep ==
  /\ stage = "rollback" /\ done > 0
  /\ Give(Restored(StepsOf(update)[done], update), base)
  /\ done' = done - 1
  /\ UNCHANGED <<fileVars, provVars, reloadMu, pc, loaded, prev, rev, updates, stage,
                 update, base, appliedRev, startRev, skewed, lost, down>>

\* The loop forgets the update it is done with.
Forget == update' = NoUpdate /\ base' = FirstCatalog /\ done' = 0

RolledBack ==
  /\ stage = "rollback" /\ done = 0
  /\ Refused(update)
  /\ Forget
  /\ UNCHANGED <<fileVars, provVars, reloadMu, pc, loaded, prev, rev, updates, given,
                 appliedRev, startRev, skewed>>

\* Every step succeeded: only now the revision counts as applied.
NotStored == appliedRev  \* mutant
StoredNext == update.rev + 1  \* mutant
StoredRev == update.rev

Commit ==
  /\ stage = "apply" /\ done = Len(StepsOf(update))
  /\ stage' = "idle"
  /\ appliedRev' = StoredRev
  /\ Forget
  /\ UNCHANGED <<fileVars, provVars, reloadMu, pc, loaded, prev, rev, updates, given,
                 startRev, skewed, lost, down>>

--------------------------------------------------------------------------------
ReloaderStep(p) == ReloadChangesNothing(p) \/ Publish(p)
WatcherStep == WatcherReloads \/ ReloaderStep(Watcher)
CallerStep(c) ==
  \/ ReloadBegins(c) \/ CallerLoads(c) \/ ReloaderStep(c)
  \/ ReloadDecides(c) \/ ReloadReturns(c)
LoopStep ==
  \/ StartWatch \/ StartSnapshot \/ TakeUpdate \/ RefuseUpdate
  \/ ApplyStep \/ FailStep \/ RollbackStep \/ RolledBack \/ Commit

Next ==
  /\ ~down
  /\ \/ EditFile
     \/ WatcherStep
     \/ LoopStep
     \/ \E c \in Callers : CallerStep(c)

Spec == Init /\ [][Next]_vars

(* Fairness.  The run loop and the watcher go on while the core runs, and a   *)
(* call that began goes on; nothing makes a call or an edit begin.           *)
Fairness ==
  /\ WF_vars(~down /\ LoopStep)
  /\ WF_vars(~down /\ WatcherStep)
  /\ \A c \in Callers : WF_vars(~down /\ pc[c] # "idle" /\ CallerStep(c))

FairSpec == Spec /\ Fairness

--------------------------------------------------------------------------------
(* Properties.                                                             *)

\* What each component holds agrees with the catalog of the control plane's state,
\* in the part that the component uses.
Agree ==
  LET cat == given["state"]
  IN  /\ given["scheduler"].servers = cat.servers
      /\ given["registry"].servers = cat.servers
      /\ given["startup"].servers = cat.servers
      /\ given["indexes"].servers = cat.servers /\ given["indexes"].mode = cat.mode
      /\ given["plugins"] # Mixed /\ given["plugins"].plugins = cat.plugins
      /\ given["pipeline"].plugins = cat.plugins
      /\ given["settings"].mode = cat.mode

\* A reload ends in the old or the new snapshot, wherever it fails: between two
\* updates the components agree, as long as each update's diff was computed
\* against the catalog that the control plane ran.
AgreeUnlessSkewed == stage = "idle" /\ ~skewed => Agree

\* A revision names one catalog, whoever published it: what is queued or being
\* applied is what was published under its revision, revisions are not reused,
\* and between two updates the control plane runs the revision it reports.
RevisionsName ==
  /\ snapshot = published[revision]
  /\ \A i \in 1..Len(updates) : updates[i].cat = published[updates[i].rev]
  /\ stage = "idle" /\ startRev = 1 => given["state"] = published[appliedRev]

\* Updates are handed over against the snapshot before them: two reloads that
\* overlap never publish a catalog that was read before the other one's.
DiffsChain ==
  \A i \in 1..Len(updates) :
    updates[i].from = published[updates[i].rev - 1]

\* Revisions mean the same to the provider, the queue and the run loop.
RevisionsAgree == RevisionsName /\ DiffsChain

\* A caller of Reload returns once its revision is applied, unless an update got
\* lost on the way.
ReloadEnds == \A c \in Callers : pc[c] = "waiting" ~> pc[c] # "waiting" \/ lost

================================================================================
