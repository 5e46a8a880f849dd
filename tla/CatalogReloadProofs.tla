-------------------------- MODULE CatalogReloadProofs --------------------------
(***************************************************************************)
(* The reload transaction: a revision names one catalog, diffs follow one  *)
(* another, and a reload ends with all components on one catalog if its    *)
(* diff was taken against the catalog that the core runs.  Then the table  *)
(* of pools, which a reload changes: no server is left without a way to    *)
(* stop it.  Then the editor of the config file: what calls asked for is   *)
(* kept.  For any catalogs, callers, specs, names, failures and number of  *)
(* edits.                                                                  *)
(***************************************************************************)
EXTENDS CatalogReload, PoolTable, CatalogEditor, SequenceTheorems, TLAPS

\* Only a set of plugins can be neither old nor new, and the core knows it.
Sound ==
  /\ \A x \in Components \ {"plugins"} : given[x] \in Catalogs
  /\ ~skewed => given["plugins"] \in Catalogs

\* Whoever is between reading the file and publishing holds reloadMu, and nobody
\* else has published since.
Locked ==
  \A p \in Reloaders : pc[p] = "loaded" => reloadMu = p /\ prev[p] = snapshot

\* An update is what was published, against what had been published before it.
Genuine(u) ==
  /\ u.rev \in 2..revision
  /\ u.cat = published[u.rev]
  /\ u.from = published[u.rev - 1]

Applying == stage \in {"apply", "rollback"}
NotStarted == stage \in {"off", "watching"}

History ==
  /\ snapshot = published[revision]
  /\ \A i \in 1..Len(updates) : Genuine(updates[i])
  /\ Applying => Genuine(update)
  /\ published[1] = FirstCatalog

\* The control plane runs the revision it reports, or is on its way from it.
Reported ==
  /\ NotStarted => given["state"] = FirstCatalog
  /\ startRev = 1 /\ ~NotStarted => appliedRev >= 1
  /\ startRev = 1 /\ stage = "idle" => given["state"] = published[appliedRev]
  /\ startRev = 1 /\ Applying => base = published[appliedRev]
  /\ Applying => given["state"] = IF done >= 2 THEN update.cat ELSE base

\* How far the transaction has brought each component, with k steps applied.
Progress(k) ==
  /\ given["scheduler"].servers = IF k >= 1 THEN update.cat.servers ELSE base.servers
  /\ given["startup"].servers = IF k >= 1 THEN update.cat.servers ELSE base.servers
  /\ given["registry"].servers = IF k >= 2 THEN update.cat.servers ELSE base.servers
  /\ given["indexes"].servers = IF k >= 2 THEN update.cat.servers ELSE base.servers
  /\ given["indexes"].mode = IF k >= 2 THEN update.cat.mode ELSE base.mode
  /\ given["plugins"].plugins = IF k >= 3 THEN update.cat.plugins ELSE base.plugins
  /\ given["pipeline"].plugins = IF k >= 3 THEN update.cat.plugins ELSE base.plugins
  /\ given["settings"].mode =
       IF k = Len(StepsOf(update)) THEN update.cat.mode ELSE base.mode

Transacting ==
  /\ Applying => done <= Len(StepsOf(update))
  /\ stage = "idle" \/ NotStarted => done = 0
  /\ ~skewed /\ ~Applying => Agree
  /\ ~skewed /\ Applying => update.from = base /\ Progress(done)

ReloadInv ==
  TypeOK /\ Sound /\ Locked /\ History /\ Reported /\ Transacting

--------------------------------------------------------------------------------
(* The operators.                                                          *)

\* The steps of an update, in order: two always, and two that it may need.
LEMMA StepsShape ==
  ASSUME NEW u
  PROVE  /\ Len(StepsOf(u)) \in 2..4
         /\ StepsOf(u)[1] = "scheduler" /\ StepsOf(u)[2] = "registry"
         /\ Len(StepsOf(u)) >= 3 =>
              StepsOf(u)[3] = IF PluginsChanged(u) THEN "plugins" ELSE "runtime"
         /\ Len(StepsOf(u)) = 4 =>
              PluginsChanged(u) /\ RuntimeChanged(u) /\ StepsOf(u)[4] = "runtime"
         /\ Len(StepsOf(u)) = 3 =>
              \/ PluginsChanged(u) /\ ~RuntimeChanged(u)
              \/ ~PluginsChanged(u) /\ RuntimeChanged(u)
         /\ Len(StepsOf(u)) = 2 => ~PluginsChanged(u) /\ ~RuntimeChanged(u)
<1> DEFINE two == <<"scheduler", "registry">>
<1>1. CASE PluginsChanged(u) /\ RuntimeChanged(u)
  <2>1. StepsOf(u) = (two \o <<"plugins">>) \o <<"runtime">>
    BY <1>1 DEF StepsOf
  <2> QED
    BY <1>1, <2>1
<1>2. CASE PluginsChanged(u) /\ ~RuntimeChanged(u)
  <2>1. StepsOf(u) = (two \o <<"plugins">>) \o <<>>
    BY <1>2 DEF StepsOf
  <2> QED
    BY <1>2, <2>1
<1>3. CASE ~PluginsChanged(u) /\ RuntimeChanged(u)
  <2>1. StepsOf(u) = (two \o <<>>) \o <<"runtime">>
    BY <1>3 DEF StepsOf
  <2> QED
    BY <1>3, <2>1
<1>4. CASE ~PluginsChanged(u) /\ ~RuntimeChanged(u)
  <2>1. StepsOf(u) = (two \o <<>>) \o <<>>
    BY <1>4 DEF StepsOf
  <2> QED
    BY <1>4, <2>1
<1> QED
  BY <1>1, <1>2, <1>3, <1>4

\* What a step gives to whom.
LEMMA TouchedSets ==
  ASSUME NEW u
  PROVE  /\ Touched("scheduler", u) =
              {"startup"} \cup (IF RuntimeOnly(u) THEN {} ELSE {"scheduler"})
         /\ Touched("registry", u) =
              {"state", "registry"} \cup
                (IF RuntimeChanged(u) \/ SpecsChanged(u) THEN {"indexes"} ELSE {})
         /\ Touched("plugins", u) = {"plugins", "pipeline"}
         /\ Touched("runtime", u) = {"settings"}
BY DEF Touched

\* What Give changes, component by component.
LEMMA GiveField ==
  ASSUME NEW S, NEW cat, Give(S, cat)
  PROVE  /\ \A x \in Components : given'[x] = IF x \in S THEN cat ELSE given[x]
         /\ DOMAIN given' = Components
BY DEF Give

\* The steps of the specification, with what their actors are.
LEMMA StepCases ==
  ASSUME [Next]_vars
  PROVE  \/ UNCHANGED vars
         \/ EditFile \/ WatcherReloads
         \/ \E p \in Reloaders : ReloadChangesNothing(p)
         \/ \E p \in Reloaders : Publish(p)
         \/ \E c \in Callers : ReloadBegins(c)
         \/ \E c \in Callers : CallerLoads(c)
         \/ \E c \in Callers : ReloadDecides(c)
         \/ \E c \in Callers : ReloadReturns(c)
         \/ StartWatch \/ StartSnapshot \/ TakeUpdate \/ RefuseUpdate
         \/ ApplyStep \/ FailStep \/ RollbackStep \/ RolledBack \/ Commit
BY DEF Next, WatcherStep, CallerStep, ReloaderStep, LoopStep, Reloaders

--------------------------------------------------------------------------------
(* The initial states.                                                     *)

\* The first state satisfies the invariant.
LEMMA InitReload == Init => ReloadInv
<1> SUFFICES ASSUME Init  PROVE ReloadInv
  OBVIOUS
<1> USE ReloadAssumption DEF Init
<1>1. TypeOK
  <2>1. <<FirstCatalog>> \in Seq(Catalogs) /\ Len(<<FirstCatalog>>) = 1
    OBVIOUS
  <2>2. NoUpdate \in Updates
    BY DEF NoUpdate, Updates, Revisions
  <2>3. published \in Seq(Catalogs) /\ Len(published) = revision /\ revision \in Revisions
    BY <2>1 DEF Revisions
  <2>4. updates \in Seq(Updates) /\ Len(updates) <= 1
    OBVIOUS
  <2>5. rev \in [Callers -> 1..revision] /\ appliedRev \in 0..revision
        /\ startRev \in 0..revision /\ done \in 0..4 /\ edits \in 0..MaxEdits
    OBVIOUS
  <2>6. pc \in [Reloaders -> {"idle", "begun", "loaded", "published", "waiting"}]
        /\ loaded \in [Reloaders -> Catalogs \cup {Broken}] /\ prev \in [Reloaders -> Catalogs]
        /\ given \in [Components -> Catalogs \cup {Mixed}]
    OBVIOUS
  <2> QED
    BY <2>2, <2>3, <2>4, <2>5, <2>6 DEF TypeOK
<1>2. Sound /\ Locked /\ Reported
  BY DEF Sound, Locked, Reported, Components, NotStarted, Applying
<1>3. History
  BY DEF History, Applying
<1>4. Transacting
  BY DEF Transacting, Applying, NotStarted, Agree, Components
<1> QED
  BY <1>1, <1>2, <1>3, <1>4 DEF ReloadInv

--------------------------------------------------------------------------------
(* Every step.                                                             *)

\* The variables keep their types.
LEMMA TypeNext ==
  ASSUME ReloadInv, [Next]_vars
  PROVE  TypeOK'
<1> USE DEF TypeOK, Revisions, fileVars, provVars, loopVars
<1>0. TypeOK /\ Sound /\ History
  BY DEF ReloadInv
<1>1. CASE UNCHANGED vars
  BY <1>0, <1>1 DEF vars
<1>2. CASE EditFile
  BY <1>0, <1>2, ReloadAssumption DEF EditFile
<1>3. CASE WatcherReloads
  BY <1>0, <1>3 DEF WatcherReloads, LoadFile, Reloaders
<1>4. ASSUME NEW p \in Reloaders, ReloadChangesNothing(p)  PROVE TypeOK'
  <2>1. pc' \in [Reloaders -> {"idle", "begun", "loaded", "published", "waiting"}]
    BY <1>0, <1>4 DEF ReloadChangesNothing, AfterReload
  <2>2. loaded' \in [Reloaders -> Catalogs \cup {Broken}] /\ prev' \in [Reloaders -> Catalogs]
        /\ reloadMu' \in Reloaders \cup {NoProc}
    BY <1>0, <1>4, ReloadAssumption DEF ReloadChangesNothing, LeaveReload
  <2> QED
    BY <1>0, <1>4, <2>1, <2>2 DEF ReloadChangesNothing
<1>5. ASSUME NEW p \in Reloaders, Publish(p)  PROVE TypeOK'
  <2> DEFINE u == [from |-> prev[p], cat |-> loaded[p], rev |-> revision + 1]
  <2>1. loaded[p] \in Catalogs /\ prev[p] \in Catalogs /\ revision + 1 \in Revisions
    BY <1>0, <1>5 DEF Publish
  <2>2. u \in Updates
    BY <2>1 DEF Updates
  <2>3. updates' \in Seq(Updates) /\ Len(updates') <= 1
    <3>1. CASE updates' = <<u>>
      <4> HIDE DEF u
      <4>1. <<u>> \in Seq(Updates) /\ Len(<<u>>) = 1
        BY <2>2
      <4> QED
        BY <3>1, <4>1
    <3>2. CASE updates' = updates
      BY <1>0, <3>2
    <3> QED
      BY <1>5, <3>1, <3>2 DEF Publish
  <2>4. published' \in Seq(Catalogs) /\ Len(published') = revision'
    BY <1>0, <1>5, <2>1 DEF Publish
  <2>5. pc' \in [Reloaders -> {"idle", "begun", "loaded", "published", "waiting"}]
    BY <1>0, <1>5 DEF Publish, AfterReload
  <2>6. revision' = revision + 1 /\ revision' \in Revisions
    BY <1>0, <1>5 DEF Publish
  <2>7. rev' \in [Callers -> 1..revision'] /\ appliedRev' \in 0..revision'
        /\ startRev' \in 0..revision'
    BY <1>0, <1>5, <2>6 DEF Publish
  <2>8. loaded' \in [Reloaders -> Catalogs \cup {Broken}] /\ prev' \in [Reloaders -> Catalogs]
        /\ reloadMu' \in Reloaders \cup {NoProc}
    BY <1>0, <1>5, ReloadAssumption DEF Publish, LeaveReload
  <2>9. lost' \in BOOLEAN
    BY <1>0, <1>5 DEF Publish
  <2>10. UNCHANGED <<fileVars, loopVars, down>> /\ snapshot' \in Catalogs
    BY <1>5, <2>1 DEF Publish
  <2> QED
    BY <1>0, <2>3, <2>4, <2>5, <2>6, <2>7, <2>8, <2>9, <2>10
<1>6. ASSUME NEW c \in Callers, ReloadBegins(c)  PROVE TypeOK'
  BY <1>0, <1>6 DEF ReloadBegins, Reloaders
<1>7. ASSUME NEW c \in Callers, CallerLoads(c)  PROVE TypeOK'
  BY <1>0, <1>7 DEF CallerLoads, LoadFile, Reloaders
<1>8. ASSUME NEW c \in Callers, ReloadDecides(c)  PROVE TypeOK'
  <2>1. 1 \in 1..revision /\ revision \in 1..revision
    BY <1>0
  <2>2. rev' \in [Callers -> 1..revision]
    BY <1>0, <1>8, <2>1 DEF ReloadDecides
  <2>3. pc' \in [Reloaders -> {"idle", "begun", "loaded", "published", "waiting"}]
    BY <1>0, <1>8 DEF ReloadDecides
  <2> QED
    BY <1>0, <1>8, <2>2, <2>3 DEF ReloadDecides
<1>9. ASSUME NEW c \in Callers, ReloadReturns(c)  PROVE TypeOK'
  BY <1>0, <1>9 DEF ReloadReturns, Reloaders
<1>10. CASE StartWatch
  BY <1>0, <1>10 DEF StartWatch
<1>11. CASE StartSnapshot
  BY <1>0, <1>11 DEF StartSnapshot
<1>12. CASE TakeUpdate
  <2>1. Head(updates) \in Updates /\ Tail(updates) \in Seq(Updates) /\ Len(Tail(updates)) <= 1
    BY <1>0, <1>12 DEF TakeUpdate
  <2>2. base' \in Catalogs
    BY <1>0, <1>12 DEF TakeUpdate, RollbackTarget, Sound, Components
  <2>3. skewed' \in BOOLEAN
    BY <1>0, <1>12 DEF TakeUpdate, Skew
  <2> QED
    BY <1>0, <1>12, <2>1, <2>2, <2>3 DEF TakeUpdate
<1>13. CASE RefuseUpdate
  <2>1. Tail(updates) \in Seq(Updates) /\ Len(Tail(updates)) <= 1
    BY <1>0, <1>13 DEF RefuseUpdate
  <2>2. skewed' \in BOOLEAN /\ down' \in BOOLEAN
    BY <1>0, <1>13 DEF RefuseUpdate, Skew, Refused
  <2> QED
    BY <1>0, <1>13, <2>1, <2>2 DEF RefuseUpdate, Refused
<1>14. CASE ApplyStep
  <2>1. update.cat \in Catalogs
    BY <1>0 DEF Updates
  <2>2. given' \in [Components -> Catalogs \cup {Mixed}]
    BY <1>0, <1>14, <2>1 DEF ApplyStep, Give
  <2>3. done' \in 0..4
    <3> DEFINE n == Len(StepsOf(update))
    <3>1. n \in 2..4
      BY StepsShape
    <3>2. done \in 0..4
      BY <1>0
    <3>3. done < n /\ done' = done + 1
      BY <1>14 DEF ApplyStep
    <3> HIDE DEF n
    <3> QED
      BY <3>1, <3>2, <3>3
  <2> QED
    BY <1>0, <1>14, <2>2, <2>3 DEF ApplyStep
<1>15. CASE FailStep
  <2>1. given' \in [Components -> Catalogs \cup {Mixed}]
    BY <1>0, <1>15 DEF FailStep, Give
  <2>2. skewed' \in BOOLEAN
    BY <1>0, <1>15 DEF FailStep
  <2> QED
    BY <1>0, <1>15, <2>1, <2>2 DEF FailStep
<1>16. CASE RollbackStep
  <2>1. given' \in [Components -> Catalogs \cup {Mixed}]
    BY <1>0, <1>16 DEF RollbackStep, Give
  <2> QED
    BY <1>0, <1>16, <2>1 DEF RollbackStep
<1>17. CASE RolledBack
  BY <1>0, <1>17, ReloadAssumption DEF RolledBack, Refused, Forget, NoUpdate, Updates
<1>18. CASE Commit
  <2>1. update.rev \in 0..revision
    BY <1>0, <1>18 DEF Commit, History, Applying, Genuine
  <2>2. update' \in Updates /\ base' \in Catalogs /\ done' \in 0..4
    BY <1>0, <1>18, ReloadAssumption DEF Commit, Forget, NoUpdate, Updates
  <2> QED
    BY <1>0, <1>18, <2>1, <2>2 DEF Commit, StoredRev
<1> QED
  BY <1>1, <1>2, <1>3, <1>4, <1>5, <1>6, <1>7, <1>8, <1>9, <1>10, <1>11, <1>12,
     <1>13, <1>14, <1>15, <1>16, <1>17, <1>18, StepCases

\* What Sound says of the revisions and catalogs stays true.
LEMMA SoundNext ==
  ASSUME ReloadInv, [Next]_vars
  PROVE  Sound'
<1> USE DEF Sound, fileVars, provVars, loopVars
<1>0. TypeOK /\ Sound
  BY DEF ReloadInv
<1>a. given \in [Components -> Catalogs \cup {Mixed}] /\ update.cat \in Catalogs
      /\ base \in Catalogs
  BY <1>0 DEF TypeOK, Updates
<1>1. CASE UNCHANGED <<given, skewed>>
  BY <1>0, <1>1
<1>2. CASE TakeUpdate \/ RefuseUpdate
  <2>1. UNCHANGED given /\ (~skewed' => ~skewed)
    BY <1>2 DEF TakeUpdate, RefuseUpdate, Skew
  <2> QED
    BY <1>0, <2>1
<1>3. CASE ApplyStep
  BY <1>0, <1>3, <1>a DEF ApplyStep, Give, Components
<1>4. CASE FailStep
  <2>1. CASE UNCHANGED <<given, skewed>>
    BY <1>0, <2>1
  <2>2. CASE skewed' = TRUE /\ Give({"plugins"}, Mixed)
    BY <1>0, <1>a, <2>2 DEF Give
  <2> QED
    BY <1>4, <2>1, <2>2 DEF FailStep
<1>5. CASE RollbackStep
  BY <1>0, <1>5, <1>a DEF RollbackStep, Give, Components
<1>6. UNCHANGED <<given, skewed>> \/ TakeUpdate \/ RefuseUpdate \/ ApplyStep
      \/ FailStep \/ RollbackStep
  BY StepCases
     DEF vars, EditFile, WatcherReloads, ReloadChangesNothing, Publish, ReloadBegins,
         CallerLoads, ReloadDecides, ReloadReturns, StartWatch, StartSnapshot, RolledBack,
         Commit
<1> QED
  BY <1>1, <1>2, <1>3, <1>4, <1>5, <1>6

\* Who has loaded holds the lock, and what it compares with is still published.
LEMMA LockedNext ==
  ASSUME ReloadInv, [Next]_vars
  PROVE  Locked'
<1> USE DEF Locked, fileVars, provVars, loopVars
<1>0. TypeOK /\ Locked
  BY DEF ReloadInv
<1>a. pc \in [Reloaders -> {"idle", "begun", "loaded", "published", "waiting"}]
      /\ prev \in [Reloaders -> Catalogs]
  BY <1>0 DEF TypeOK
<1>1. CASE UNCHANGED <<snapshot, reloadMu, pc, prev>>
  BY <1>0, <1>1
<1>2. ASSUME NEW p \in Reloaders, LoadFile(p), UNCHANGED snapshot
      PROVE  Locked'
  BY <1>0, <1>2, <1>a, ReloadAssumption DEF LoadFile, LockFree
<1>3. ASSUME NEW p \in Reloaders, pc[p] = "loaded", LeaveReload(p),
             pc' \in {[pc EXCEPT ![p] = "idle"], [pc EXCEPT ![p] = "published"]}
      PROVE  Locked'
  <2>1. \A q \in Reloaders : pc'[q] # "loaded"
    BY <1>0, <1>3, <1>a
  <2> QED
    BY <2>1
<1>4. ASSUME NEW c \in Callers, UNCHANGED <<snapshot, reloadMu, prev>>,
             \E l \in {"idle", "begun", "waiting"} : pc' = [pc EXCEPT ![c] = l]
      PROVE  Locked'
  BY <1>0, <1>4, <1>a
<1>5. CASE WatcherReloads
  BY <1>2, <1>5 DEF WatcherReloads, Reloaders
<1>6. ASSUME NEW p \in Reloaders, ReloadChangesNothing(p)  PROVE Locked'
  BY <1>3, <1>6 DEF ReloadChangesNothing, AfterReload
<1>7. ASSUME NEW p \in Reloaders, Publish(p)  PROVE Locked'
  BY <1>3, <1>7 DEF Publish, AfterReload
<1>8. ASSUME NEW c \in Callers, CallerLoads(c)  PROVE Locked'
  BY <1>2, <1>8 DEF CallerLoads, Reloaders
<1>9. ASSUME NEW c \in Callers, ReloadBegins(c) \/ ReloadDecides(c) \/ ReloadReturns(c)
      PROVE  Locked'
  BY <1>4, <1>9 DEF ReloadBegins, ReloadDecides, ReloadReturns
<1>10. \/ UNCHANGED <<snapshot, reloadMu, pc, prev>>
       \/ WatcherReloads
       \/ \E p \in Reloaders : ReloadChangesNothing(p)
       \/ \E p \in Reloaders : Publish(p)
       \/ \E c \in Callers : CallerLoads(c)
       \/ \E c \in Callers : ReloadBegins(c) \/ ReloadDecides(c) \/ ReloadReturns(c)
  BY StepCases
     DEF vars, EditFile, StartWatch, StartSnapshot, TakeUpdate, RefuseUpdate, ApplyStep,
         FailStep, RollbackStep, RolledBack, Commit
<1> QED
  BY <1>1, <1>5, <1>6, <1>7, <1>8, <1>9, <1>10

\* What was published stays published.
LEMMA PublishedGrows ==
  ASSUME TypeOK, [Next]_vars
  PROVE  /\ revision \in Revisions /\ revision' >= revision /\ revision' \in Revisions
         /\ \A k \in 1..revision : published'[k] = published[k]
<1> USE DEF fileVars, provVars, loopVars, Revisions
<1>1. CASE UNCHANGED provVars
  BY <1>1 DEF TypeOK
<1>2. ASSUME NEW p \in Reloaders, Publish(p)
      PROVE  /\ revision' \in Revisions /\ revision' >= revision
             /\ \A k \in 1..revision : published'[k] = published[k]
  <2>1. loaded[p] \in Catalogs
    BY <1>2 DEF Publish, TypeOK
  <2> QED
    BY <1>2, <2>1 DEF Publish, TypeOK
<1>3. UNCHANGED provVars \/ \E p \in Reloaders : Publish(p)
  BY StepCases
     DEF vars, EditFile, WatcherReloads, ReloadChangesNothing, ReloadBegins,
         CallerLoads, ReloadDecides, ReloadReturns, StartWatch, StartSnapshot, TakeUpdate,
         RefuseUpdate, ApplyStep, FailStep, RollbackStep, RolledBack, Commit
<1> QED
  BY <1>1, <1>2, <1>3 DEF TypeOK

\* Updates are what was published, and publishing does not rewrite the past.
LEMMA HistoryNext ==
  ASSUME ReloadInv, [Next]_vars
  PROVE  History'
<1> USE DEF fileVars, provVars, loopVars
<1>0. TypeOK /\ History /\ Locked
  BY DEF ReloadInv
<1>a. /\ revision \in Revisions /\ revision' >= revision /\ revision' \in Revisions
      /\ \A k \in 1..revision : published'[k] = published[k]
  BY <1>0, PublishedGrows
<1>b. \A u : Genuine(u) => /\ u.rev \in 2..revision'
                          /\ u.cat = published'[u.rev]
                          /\ u.from = published'[u.rev - 1]
  BY <1>a DEF Genuine, Revisions
<1>c. published'[1] = FirstCatalog
  BY <1>0, <1>a DEF History, Revisions
<1>d. updates \in Seq(Updates) /\ Len(updates) <= 1 /\ Len(updates) \in Nat
  BY <1>0 DEF TypeOK
<1>1. ASSUME NEW p \in Reloaders, Publish(p)  PROVE History'
  <2> DEFINE u == [from |-> prev[p], cat |-> loaded[p], rev |-> revision + 1]
  <2>1. revision' = revision + 1 /\ snapshot' = loaded[p] /\ loaded[p] \in Catalogs
    BY <1>0, <1>1 DEF Publish, TypeOK
  <2>2. published'[revision'] = loaded[p]
    BY <1>0, <1>1, <2>1 DEF Publish, TypeOK, Revisions
  <2>3. prev[p] = published'[revision]
    <3>1. prev[p] = snapshot
      BY <1>0, <1>1 DEF Publish, Locked
    <3>2. revision \in 1..revision
      BY <1>a DEF Revisions
    <3> QED
      BY <1>0, <1>a, <3>1, <3>2 DEF History
  <2>4. u.rev \in 2..revision' /\ u.cat = published'[u.rev] /\ u.from = published'[u.rev - 1]
    BY <2>1, <2>2, <2>3, <1>a DEF Revisions
  <2>5. \A i \in 1..Len(updates') : Genuine(updates[i])' 
    <3>1. CASE updates' = <<u>>
      <4>1. \A i \in 1..Len(updates') : updates'[i] = u
        BY <3>1
      <4> QED
        BY <4>1, <2>4 DEF Genuine
    <3>2. CASE updates' = updates
      BY <1>0, <1>b, <3>2 DEF History, Genuine
    <3> QED
      BY <1>1, <3>1, <3>2 DEF Publish
  <2>6. (Applying => Genuine(update))'
    BY <1>0, <1>1, <1>b DEF Publish, History, Genuine, Applying
  <2> QED
    BY <1>c, <2>1, <2>2, <2>5, <2>6 DEF History
<1>2. CASE UNCHANGED <<snapshot, revision, published, updates, stage, update>>
  BY <1>0, <1>2 DEF History, Genuine, Applying
<1>3. CASE /\ UNCHANGED <<snapshot, revision, published, updates>>
           /\ ~Applying' \/ (Applying /\ update' = update)
  BY <1>0, <1>3 DEF History, Genuine, Applying
<1>4. CASE TakeUpdate \/ RefuseUpdate
  <2>1. Len(updates) = 1 /\ updates' = <<>> /\ UNCHANGED provVars
    <3>1. updates # <<>> /\ updates' = Tail(updates) /\ UNCHANGED provVars
      BY <1>4 DEF TakeUpdate, RefuseUpdate
    <3> DEFINE n == Len(updates)
    <3>2. n \in Nat \ {0} /\ n <= 1
      BY <1>d, <3>1, EmptySeq
    <3>3. n = 1
      <4> HIDE DEF n
      <4> QED  BY <3>2
    <3>4. Tail(updates) \in Seq(Updates) /\ Len(Tail(updates)) = 0
      BY <1>d, <3>1, <3>3, HeadTailProperties
    <3>5. Tail(updates) = <<>>
      BY <3>4, EmptySeq
    <3> QED
      BY <3>1, <3>3, <3>5
  <2>2. ~Applying' \/ update' = updates[1]
    BY <1>4 DEF TakeUpdate, RefuseUpdate, Refused, Applying
  <2> QED
    BY <1>0, <2>1, <2>2 DEF History, Genuine
<1>5. \/ \E p \in Reloaders : Publish(p)
      \/ UNCHANGED <<snapshot, revision, published, updates, stage, update>>
      \/ TakeUpdate \/ RefuseUpdate \/ FailStep \/ RolledBack \/ Commit
      \/ StartWatch \/ StartSnapshot
  BY StepCases
     DEF vars, EditFile, WatcherReloads, ReloadChangesNothing, ReloadBegins, CallerLoads,
         ReloadDecides, ReloadReturns, ApplyStep, RollbackStep
<1>6. CASE FailStep \/ RolledBack \/ Commit \/ StartWatch \/ StartSnapshot
  BY <1>3, <1>6
     DEF FailStep, RolledBack, Refused, Commit, StartWatch, StartSnapshot, Applying
<1> QED
  BY <1>1, <1>2, <1>4, <1>5, <1>6

\* Which step gives a catalog to which component.
LEMMA StepTouches ==
  ASSUME NEW u, NEW k \in 1..Len(StepsOf(u))
  PROVE  LET T == Touched(StepsOf(u)[k], u)
         IN  /\ "state" \in T <=> k = 2
             /\ "registry" \in T <=> k = 2
             /\ "startup" \in T <=> k = 1
             /\ "scheduler" \in T <=> k = 1 /\ ~RuntimeOnly(u)
             /\ "indexes" \in T <=> k = 2 /\ (RuntimeChanged(u) \/ SpecsChanged(u))
             /\ "plugins" \in T <=> k = 3 /\ PluginsChanged(u)
             /\ "pipeline" \in T <=> k = 3 /\ PluginsChanged(u)
             /\ "settings" \in T <=> k = Len(StepsOf(u)) /\ RuntimeChanged(u)
<1> DEFINE n == Len(StepsOf(u))
<1>1. n \in 2..4
  BY StepsShape
<1>2. k \in {1, 2, 3, 4} /\ k <= n
  <2>1. k \in 1..n
    OBVIOUS
  <2> HIDE DEF n
  <2> QED
    BY <1>1, <2>1
<1>3. CASE k = 1
  <2>1. StepsOf(u)[k] = "scheduler" /\ k # n
    BY <1>1, <1>3, StepsShape
  <2> QED
    BY <1>3, <2>1, TouchedSets
<1>4. CASE k = 2
  <2>1. StepsOf(u)[k] = "registry"
    BY <1>4, StepsShape
  <2>2. k = n => ~RuntimeChanged(u)
    BY <1>4, StepsShape
  <2> QED
    BY <1>4, <2>1, <2>2, TouchedSets
<1>5. CASE k = 3 /\ PluginsChanged(u)
  <2>1. StepsOf(u)[k] = "plugins"
    <3>1. n >= 3
      BY <1>2, <1>5
    <3> QED
      BY <1>5, <3>1, StepsShape
  <2>2. k = n => ~RuntimeChanged(u)
    BY <1>5, StepsShape
  <2> QED
    BY <1>5, <2>1, <2>2, TouchedSets
<1>6. CASE k = 3 /\ ~PluginsChanged(u)
  <2>1. n >= 3
    BY <1>2, <1>6
  <2>2. StepsOf(u)[k] = "runtime"
    BY <1>6, <2>1, StepsShape
  <2>3. n = 3
    <3>1. n # 4 /\ n # 2
      BY <1>6, <2>1, StepsShape
    <3> HIDE DEF n
    <3> QED
      BY <1>1, <3>1
  <2>4. RuntimeChanged(u)
    BY <1>6, <2>3, StepsShape
  <2> QED
    BY <1>6, <2>2, <2>3, <2>4, TouchedSets
<1>7. CASE k = 4
  <2>1. n = 4
    <3> HIDE DEF n
    <3> QED
      BY <1>1, <1>2, <1>7
  <2>2. StepsOf(u)[k] = "runtime" /\ RuntimeChanged(u)
    BY <1>7, <2>1, StepsShape
  <2> QED
    BY <1>7, <2>1, <2>2, TouchedSets
<1> QED
  BY <1>2, <1>3, <1>4, <1>5, <1>6, <1>7

\* The control plane runs the revision it reports, or is on its way from it.
LEMMA ReportedNext ==
  ASSUME ReloadInv, [Next]_vars
  PROVE  Reported'
<1> USE DEF fileVars, provVars, loopVars, Applying, NotStarted
<1>0. TypeOK /\ History /\ Reported
  BY DEF ReloadInv
<1>a. /\ revision \in Nat \ {0} /\ appliedRev \in 0..revision /\ startRev \in 0..revision
      /\ done \in 0..4 /\ given \in [Components -> Catalogs \cup {Mixed}]
      /\ stage \in {"off", "watching", "idle", "apply", "rollback"}
  BY <1>0 DEF TypeOK, Revisions
<1>b. startRev = 1 /\ ~NotStarted => published'[appliedRev] = published[appliedRev]
  <2>1. revision \in Nat \ {0} /\ \A k \in 1..revision : published'[k] = published[k]
    BY <1>0, PublishedGrows DEF Revisions
  <2>2. startRev = 1 /\ ~NotStarted => appliedRev \in 1..revision
    BY <1>0, <1>a DEF Reported
  <2> QED
    BY <2>1, <2>2
<1>c. "state" \in Components
  BY DEF Components
<1>1. CASE UNCHANGED <<stage, base, done, given, appliedRev, startRev, update>>
  BY <1>0, <1>1, <1>b DEF Reported
<1>2. CASE StartWatch
  BY <1>0, <1>2, <1>a DEF Reported, StartWatch
<1>3. CASE StartSnapshot
  <2>1. revision' = revision /\ published' = published /\ stage' = "idle"
        /\ appliedRev' = revision /\ startRev' = revision /\ given' = given
        /\ given["state"] = FirstCatalog /\ published[1] = FirstCatalog
    BY <1>0, <1>3 DEF Reported, History, StartSnapshot
  <2> QED
    BY <2>1, <1>a DEF Reported
<1>4. CASE TakeUpdate
  <2>1. done = 0
    BY <1>4 DEF ReloadInv, Transacting, TakeUpdate
  <2> QED
    BY <1>0, <1>4, <2>1 DEF Reported, TakeUpdate, RollbackTarget
<1>5. CASE RefuseUpdate
  BY <1>0, <1>5 DEF Reported, RefuseUpdate, Refused
<1>6. CASE ApplyStep
  <2> DEFINE n == Len(StepsOf(update))
             k == done + 1
  <2>1. n \in 2..4
    BY StepsShape
  <2>2. done < n
    BY <1>6 DEF ApplyStep
  <2>3. k \in 1..n
    <3> HIDE DEF n
    <3> QED  BY <1>a, <2>1, <2>2
  <2>4. "state" \in Touched(NextStep, update) <=> k = 2
    <3> HIDE DEF k
    <3> QED  BY <2>3, StepTouches DEF NextStep, k
  <2>5. given'["state"] = IF k = 2 THEN update.cat ELSE given["state"]
    BY <1>6, <1>c, <2>4 DEF ApplyStep, Give
  <2>6. /\ done' = k
        /\ UNCHANGED <<stage, base, update, appliedRev, startRev, published>> /\ Applying
    BY <1>6 DEF ApplyStep
  <2> QED
    BY <1>0, <1>a, <2>5, <2>6 DEF Reported
<1>7. CASE FailStep
  <2>1. given'["state"] = given["state"]
    <3>1. CASE UNCHANGED <<given, skewed>>
      BY <3>1
    <3>2. CASE Give({"plugins"}, Mixed)
      BY <1>c, <3>2 DEF Give
    <3> QED
      BY <1>7, <3>1, <3>2 DEF FailStep
  <2> QED
    BY <1>0, <1>7, <2>1 DEF Reported, FailStep
<1>8. CASE RollbackStep
  <2> DEFINE n == Len(StepsOf(update))
  <2>1. done \in 1..n
    <3>1. n \in 2..4 /\ done > 0 /\ done <= n
      BY <1>8, StepsShape DEF RollbackStep, ReloadInv, Transacting
    <3> HIDE DEF n
    <3> QED  BY <1>a, <3>1
  <2>2. "state" \in Restored(StepsOf(update)[done], update) <=> done = 2
    BY <2>1, StepTouches DEF Restored
  <2>3. given'["state"] = IF done = 2 THEN base ELSE given["state"]
    BY <1>8, <1>c, <2>2 DEF RollbackStep, Give
  <2>4. /\ done' = done - 1
        /\ UNCHANGED <<stage, base, update, appliedRev, startRev, published>> /\ Applying
    BY <1>8 DEF RollbackStep
  <2> QED
    BY <1>0, <1>a, <2>3, <2>4 DEF Reported
<1>9. CASE RolledBack
  BY <1>0, <1>9, <1>a DEF Reported, RolledBack, Refused
<1>10. CASE Commit
  <2> DEFINE n == Len(StepsOf(update))
  <2>1. done >= 2
    <3>1. n \in 2..4 /\ done = n
      BY <1>10, StepsShape DEF Commit
    <3> HIDE DEF n
    <3> QED  BY <3>1
  <2>2. given["state"] = update.cat /\ update.cat = published[update.rev] /\ update.rev >= 1
    BY <1>0, <1>10, <2>1 DEF Commit, Reported, History, Genuine
  <2> QED
    BY <1>10, <2>2 DEF Reported, Commit, StoredRev
<1>11. \/ UNCHANGED <<stage, base, done, given, appliedRev, startRev, update>>
       \/ StartWatch \/ StartSnapshot \/ TakeUpdate \/ RefuseUpdate \/ ApplyStep
       \/ FailStep \/ RollbackStep \/ RolledBack \/ Commit
  BY StepCases
     DEF vars, EditFile, WatcherReloads, ReloadChangesNothing, Publish, ReloadBegins,
         CallerLoads, ReloadDecides, ReloadReturns
<1> QED
  BY <1>1, <1>2, <1>3, <1>4, <1>5, <1>6, <1>7, <1>8, <1>9, <1>10, <1>11

\* What an update does not change is the same in its old and its new catalog.
LEMMA SameParts ==
  ASSUME NEW u
  PROVE  /\ ~SpecsChanged(u) => u.cat.servers = u.from.servers
         /\ RuntimeOnly(u) => u.cat.servers = u.from.servers
         /\ ~PluginsChanged(u) => u.cat.plugins = u.from.plugins
         /\ ~RuntimeChanged(u) => u.cat.mode = u.from.mode
BY DEF SpecsChanged, RuntimeOnly, PluginsChanged, RuntimeChanged

\* Applying the k-th step brings the components from k - 1 steps to k steps.
LEMMA StepForward ==
  ASSUME NEW k \in 1..Len(StepsOf(update)), update.from = base, Progress(k - 1),
         Give(Touched(StepsOf(update)[k], update), update.cat),
         UNCHANGED <<update, base>>
  PROVE  Progress(k)'
<1> DEFINE T == Touched(StepsOf(update)[k], update)
           n == Len(StepsOf(update))
<1>1. \A x \in Components : given'[x] = IF x \in T THEN update.cat ELSE given[x]
  BY GiveField
<1>2. n \in 2..4 /\ k \in 1..n
  BY StepsShape
<1>3. n' = n
  BY DEF StepsOf, PluginsChanged, RuntimeChanged
<1>4. Len(StepsOf(update')) = n
  BY DEF StepsOf, PluginsChanged, RuntimeChanged
<1>5. k \in Int /\ k >= 1 /\ (k = 3 /\ ~PluginsChanged(update) => update.cat.plugins = base.plugins)
  BY <1>2, SameParts
<1>6. given'["scheduler"].servers = update.cat.servers
      /\ given'["startup"].servers = update.cat.servers
  BY <1>1, <1>5, StepTouches, SameParts DEF Progress, Components
<1>7. /\ given'["registry"].servers = IF k >= 2 THEN update.cat.servers ELSE base.servers
      /\ given'["indexes"].servers = IF k >= 2 THEN update.cat.servers ELSE base.servers
      /\ given'["indexes"].mode = IF k >= 2 THEN update.cat.mode ELSE base.mode
  BY <1>1, <1>5, StepTouches, SameParts DEF Progress, Components
<1>8. /\ given'["plugins"].plugins = IF k >= 3 THEN update.cat.plugins ELSE base.plugins
      /\ given'["pipeline"].plugins = IF k >= 3 THEN update.cat.plugins ELSE base.plugins
  BY <1>1, <1>5, StepTouches DEF Progress, Components
<1>9. given'["settings"].mode = IF k = n THEN update.cat.mode ELSE base.mode
  <2>1. k - 1 # n
    <3> HIDE DEF n
    <3> QED  BY <1>2
  <2>2. given["settings"].mode = base.mode
    BY <2>1 DEF Progress
  <2> QED
    BY <1>1, <2>2, StepTouches, SameParts DEF Components
<1> QED
  BY <1>4, <1>5, <1>6, <1>7, <1>8, <1>9 DEF Progress

\* Rolling the k-th step back brings them from k steps to k - 1 steps.
LEMMA StepBack ==
  ASSUME NEW k \in 1..Len(StepsOf(update)), update.from = base, Progress(k),
         Give(Touched(StepsOf(update)[k], update), base),
         UNCHANGED <<update, base>>
  PROVE  Progress(k - 1)'
<1> DEFINE T == Touched(StepsOf(update)[k], update)
           n == Len(StepsOf(update))
<1>1. \A x \in Components : given'[x] = IF x \in T THEN base ELSE given[x]
  BY GiveField
<1>2. n \in 2..4 /\ k \in 1..n
  BY StepsShape
<1>3. Len(StepsOf(update')) = n
  BY DEF StepsOf, PluginsChanged, RuntimeChanged
<1>4. k \in Int /\ k >= 1
  BY <1>2
<1>5. /\ given'["scheduler"].servers = IF k >= 2 THEN update.cat.servers ELSE base.servers
      /\ given'["startup"].servers = IF k >= 2 THEN update.cat.servers ELSE base.servers
  BY <1>1, <1>4, StepTouches, SameParts DEF Progress, Components
<1>6. /\ given'["registry"].servers = IF k >= 3 THEN update.cat.servers ELSE base.servers
      /\ given'["indexes"].servers = IF k >= 3 THEN update.cat.servers ELSE base.servers
      /\ given'["indexes"].mode = IF k >= 3 THEN update.cat.mode ELSE base.mode
  BY <1>1, <1>4, StepTouches, SameParts DEF Progress, Components
<1>7. /\ given'["plugins"].plugins = IF k >= 4 THEN update.cat.plugins ELSE base.plugins
      /\ given'["pipeline"].plugins = IF k >= 4 THEN update.cat.plugins ELSE base.plugins
  BY <1>1, <1>4, StepTouches, SameParts DEF Progress, Components
<1>8. given'["settings"].mode = base.mode /\ k - 1 # n
  <2>1. k - 1 # n
    <3> HIDE DEF n
    <3> QED  BY <1>2
  <2>2. k = n /\ ~RuntimeChanged(update) => given["settings"].mode = base.mode
    BY SameParts DEF Progress
  <2>3. k # n => given["settings"].mode = base.mode
    BY DEF Progress
  <2> QED
    BY <1>1, <2>1, <2>2, <2>3, StepTouches DEF Components
<1>9. /\ k - 1 >= 1 <=> k >= 2
      /\ k - 1 >= 2 <=> k >= 3
      /\ k - 1 >= 3 <=> k >= 4
  BY <1>4
<1> QED
  BY <1>3, <1>5, <1>6, <1>7, <1>8, <1>9 DEF Progress

\* A transaction has brought each component as far as its steps say.
LEMMA TransactingNext ==
  ASSUME ReloadInv, [Next]_vars
  PROVE  Transacting'
<1> USE DEF fileVars, provVars, loopVars, Applying, NotStarted
<1> DEFINE n == Len(StepsOf(update))
<1>0. TypeOK /\ Sound /\ Reported /\ Transacting /\ Sound'
  BY SoundNext DEF ReloadInv
<1>a. /\ done \in 0..4 /\ given \in [Components -> Catalogs \cup {Mixed}]
      /\ stage \in {"off", "watching", "idle", "apply", "rollback"}
      /\ n \in 2..4
  BY <1>0, StepsShape DEF TypeOK
<1>b. stage \in {"off", "watching", "idle"} => done = 0
  BY <1>0 DEF Transacting
<1>1. CASE UNCHANGED <<stage, update, base, done, given, skewed>>
  BY <1>0, <1>1 DEF Transacting, Agree, Progress, StepsOf, PluginsChanged, RuntimeChanged
<1>2. CASE StartWatch \/ StartSnapshot
  BY <1>0, <1>2, <1>b DEF StartWatch, StartSnapshot, Transacting, Agree
<1>3. CASE TakeUpdate
  <2>1. done' = 0 /\ stage' = "apply" /\ base' = given["state"] /\ given' = given
    BY <1>3, <1>b DEF TakeUpdate, RollbackTarget
  <2>2. Len(StepsOf(update')) \in 2..4
    BY StepsShape
  <2>3. 0 <= Len(StepsOf(update')) /\ 0 # Len(StepsOf(update'))
    <3> DEFINE m == Len(StepsOf(update'))
    <3> HIDE DEF m
    <3> QED  BY <2>2 DEF m
  <2>4. ASSUME ~skewed'
        PROVE  update'.from = base' /\ Agree
    <3>1. ~skewed /\ Head(updates).from = given["state"]
      BY <1>3, <2>4 DEF TakeUpdate, Skew
    <3> QED
      BY <1>0, <1>3, <2>1, <3>1 DEF TakeUpdate, Transacting
  <2>5. Agree => Progress(0)'
    BY <2>1, <2>3 DEF Agree, Progress
  <2> QED
    BY <2>1, <2>3, <2>4, <2>5 DEF Transacting
<1>4. CASE RefuseUpdate
  <2>1. done' = 0 /\ stage' = "idle" /\ given' = given /\ (~skewed' => ~skewed)
    BY <1>4, <1>b DEF RefuseUpdate, Refused, Skew
  <2>2. ~skewed => Agree
    BY <1>0, <1>4 DEF RefuseUpdate, Transacting
  <2> QED
    BY <2>1, <2>2 DEF Transacting, Agree
<1>5. CASE ApplyStep
  <2>1. done < n
    BY <1>5 DEF ApplyStep
  <2>2. done + 1 \in 1..n
    <3> HIDE DEF n
    <3> QED  BY <1>a, <2>1
  <2>3. PICK k \in 1..n : k = done + 1
    BY <2>2
  <2>4. k - 1 = done /\ k <= n
    <3>1. k \in 1..n
      OBVIOUS
    <3> HIDE DEF n
    <3> QED  BY <1>a, <2>3, <3>1
  <2>5. done' = k /\ UNCHANGED <<stage, update, base, skewed>> /\ stage = "apply"
    BY <1>5, <2>3 DEF ApplyStep
  <2>6. StepsOf(update') = StepsOf(update)
    BY <2>5 DEF StepsOf, PluginsChanged, RuntimeChanged
  <2>7. ASSUME ~skewed  PROVE update.from = base /\ Progress(done)'
    <3>1. update.from = base /\ Progress(k - 1)
      BY <1>0, <2>4, <2>5, <2>7 DEF Transacting
    <3>2. Give(Touched(StepsOf(update)[k], update), update.cat)
      BY <1>5, <2>3 DEF ApplyStep, NextStep
    <3>3. Progress(k)'
      BY <2>5, <3>1, <3>2, StepForward
    <3> QED
      BY <2>5, <3>1, <3>3 DEF Progress
  <2>8. done' <= Len(StepsOf(update'))
    BY <2>4, <2>5, <2>6
  <2> QED
    BY <2>5, <2>7, <2>8 DEF Transacting
<1>6. CASE FailStep
  <2>1. stage' = "rollback" /\ UNCHANGED <<update, base, done>> /\ stage = "apply"
    BY <1>6 DEF FailStep
  <2>2. StepsOf(update') = StepsOf(update)
    BY <2>1 DEF StepsOf, PluginsChanged, RuntimeChanged
  <2>3. CASE UNCHANGED <<given, skewed>>
    BY <1>0, <2>1, <2>2, <2>3 DEF Transacting, Progress
  <2>4. CASE skewed'
    BY <1>0, <2>1, <2>2, <2>4 DEF Transacting
  <2> QED
    BY <1>6, <2>3, <2>4 DEF FailStep
<1>7. CASE RollbackStep
  <2>1. done <= n /\ done > 0
    BY <1>0, <1>7 DEF RollbackStep, Transacting
  <2>2. done \in 1..n /\ done - 1 <= n
    <3> HIDE DEF n
    <3> QED  BY <1>a, <2>1
  <2>3. done' = done - 1 /\ UNCHANGED <<stage, update, base, skewed>> /\ stage = "rollback"
    BY <1>7 DEF RollbackStep
  <2>4. StepsOf(update') = StepsOf(update)
    BY <2>3 DEF StepsOf, PluginsChanged, RuntimeChanged
  <2>5. ASSUME ~skewed  PROVE update.from = base /\ Progress(done)'
    <3>1. update.from = base /\ Progress(done)
      BY <1>0, <2>3, <2>5 DEF Transacting
    <3>2. Give(Touched(StepsOf(update)[done], update), base)
      BY <1>7 DEF RollbackStep, Restored
    <3>3. PICK k \in 1..n : k = done
      BY <2>2
    <3>4. Progress(k - 1)'
      BY <2>3, <3>1, <3>2, <3>3, StepBack
    <3> QED
      BY <2>3, <3>1, <3>3, <3>4 DEF Progress
  <2>6. done' <= Len(StepsOf(update'))
    BY <2>2, <2>3, <2>4
  <2> QED
    BY <2>3, <2>5, <2>6 DEF Transacting
<1>8. CASE RolledBack
  <2>1. stage' = "idle" /\ done' = 0 /\ UNCHANGED <<given, skewed>>
        /\ stage = "rollback" /\ done = 0
    BY <1>8 DEF RolledBack, Refused, Forget
  <2>2. ASSUME ~skewed  PROVE Agree
    <3>1. Progress(0) /\ given["plugins"] # Mixed /\ 0 # n
      <4>1. 0 # n
        <5> HIDE DEF n
        <5> QED  BY <1>a
      <4> QED
        BY <1>0, <2>1, <2>2, <4>1, ReloadAssumption DEF Transacting, Sound
    <3>2. given["state"] = base
      BY <1>0, <2>1 DEF Reported
    <3> QED
      BY <3>1, <3>2 DEF Progress, Agree
  <2> QED
    BY <2>1, <2>2 DEF Transacting, Agree
<1>9. CASE Commit
  <2>1. stage' = "idle" /\ done' = 0 /\ UNCHANGED <<given, skewed>>
        /\ stage = "apply" /\ done = n
    BY <1>9 DEF Commit, Forget
  <2>2. ASSUME ~skewed  PROVE Agree
    <3>1. Progress(n) /\ update.from = base /\ given["plugins"] # Mixed
      BY <1>0, <2>1, <2>2, ReloadAssumption DEF Transacting, Sound
    <3>2. given["state"] = update.cat
      <4>1. done >= 2
        <5>1. n \in 2..4 /\ done = n
          BY <1>a, <2>1
        <5> HIDE DEF n
        <5> QED  BY <5>1
      <4> QED
        BY <1>0, <2>1, <4>1 DEF Reported
    <3>3. n >= 1 /\ n >= 2
      <4> HIDE DEF n
      <4> QED  BY <1>a
    <3>4. ~(n >= 3) => update.cat.plugins = base.plugins
      <4>1. ~(n >= 3) => n = 2
        <5> HIDE DEF n
        <5> QED  BY <1>a
      <4>2. n = 2 => ~PluginsChanged(update)
        BY StepsShape
      <4> QED
        BY <3>1, <4>1, <4>2, SameParts
    <3> QED
      BY <3>1, <3>2, <3>3, <3>4 DEF Progress, Agree
  <2> QED
    BY <2>1, <2>2 DEF Transacting, Agree
<1>10. \/ UNCHANGED <<stage, update, base, done, given, skewed>>
       \/ StartWatch \/ StartSnapshot \/ TakeUpdate \/ RefuseUpdate \/ ApplyStep
       \/ FailStep \/ RollbackStep \/ RolledBack \/ Commit
  BY StepCases
     DEF vars, EditFile, WatcherReloads, ReloadChangesNothing, Publish, ReloadBegins,
         CallerLoads, ReloadDecides, ReloadReturns
<1> QED
  BY <1>1, <1>2, <1>3, <1>4, <1>5, <1>6, <1>7, <1>8, <1>9, <1>10

\* The invariant holds in every state.
LEMMA ReloadInvHolds == Spec => []ReloadInv
<1>1. ReloadInv /\ [Next]_vars => ReloadInv'
  BY TypeNext, SoundNext, LockedNext, HistoryNext, ReportedNext, TransactingNext
     DEF ReloadInv
<1> QED
  BY <1>1, InitReload, PTL DEF Spec

--------------------------------------------------------------------------------
(* The theorems.                                                           *)

\* Provider, callers and run loop keep to their types: one update at most is queued,
\* and no more steps are applied than an update has.
THEOREM ReloadTypeCorrect == Spec => []TypeOK
<1>1. ReloadInv => TypeOK
  BY DEF ReloadInv
<1> QED
  BY <1>1, ReloadInvHolds, PTL

\* A revision names one catalog, and between two updates the core runs the revision
\* that it reports.
THEOREM RevisionsNameCatalogs == Spec => []RevisionsName
<1>1. ReloadInv => RevisionsName
  BY DEF ReloadInv, History, Genuine, Reported, RevisionsName, NotStarted
<1> QED
  BY <1>1, ReloadInvHolds, PTL

\* What provider.reload publishes follows on what was published before, because it
\* reads, compares and publishes under reloadMu.
THEOREM DiffsFollow == Spec => []DiffsChain
<1>1. ReloadInv => DiffsChain
  BY DEF ReloadInv, History, Genuine, DiffsChain
<1> QED
  BY <1>1, ReloadInvHolds, PTL

\* A reload, wherever it fails and is rolled back, ends with all components on one
\* catalog if its diff was taken against the catalog that the core ran.
THEOREM TransactionsAgree == Spec => []AgreeUnlessSkewed
<1>1. ReloadInv => AgreeUnlessSkewed
  BY DEF ReloadInv, Transacting, Applying, AgreeUnlessSkewed
<1> QED
  BY <1>1, ReloadInvHolds, PTL

\* The two together.
THEOREM RevisionsAreSound == Spec => []RevisionsAgree
<1>1. RevisionsName /\ DiffsChain => RevisionsAgree
  BY DEF RevisionsAgree
<1> QED
  BY <1>1, RevisionsNameCatalogs, DiffsFollow, PTL

--------------------------------------------------------------------------------
(* The table of pools.                                                     *)

\* Who has something in hand: a start its instance, StopSpec and StopAll, never both, what
\* they are going to stop.
HandsInv ==
  /\ \A c \in Leasers : lpc[c] = "start" => linst[c] \in Servers
  /\ hpc # "run" => apc = "idle"
  /\ toStop # {} => apc = "stopIdle" \/ hpc = "stop"
  /\ toDrain # {} => apc \in {"stopIdle", "drain"}

\* Unless the table let go of a pool somebody used, a caller that has looked its pool up
\* and not used it yet has the one in the table.
UsersHaveTable ==
  \A c \in Leasers : lpc[c] \in {"pool", "start"} => raced \/ (lpool[c] = table /\ table # NoPool)

TableStrong == PoolTableInv /\ HandsInv /\ UsersHaveTable

\* The first state.
LEMMA TableInit == PTInit => TableStrong
<1> SUFFICES ASSUME PTInit PROVE TableStrong
  OBVIOUS
<1> USE PoolTableAssumption DEF PTInit, Pools
<1>1. PTTypeOK
  <2>1. table \in Pools \cup {NoPool} /\ made \in 0..MaxPools /\ {apool, hpool} \subseteq {NoPool}
    OBVIOUS
  <2>2. /\ members \in [Pools -> SUBSET Servers] /\ draining \in [Pools -> SUBSET Servers]
        /\ server \in [Servers -> {"new", "live", "stopped"}]
    OBVIOUS
  <2> QED
    BY <2>1, <2>2 DEF PTTypeOK
<1>2. FoundUnlessRaced /\ HandsInv /\ UsersHaveTable
  BY DEF FoundUnlessRaced, HandsInv, UsersHaveTable
<1> QED
  BY <1>1, <1>2 DEF TableStrong, PoolTableInv

\* A pool that is looked up is there.
LEMMA FoundPool ==
  ASSUME PTTypeOK, FindPool
  PROVE  /\ table' \in Pools /\ table' = Found /\ table' # NoPool /\ made' \in 0..MaxPools
         /\ table # NoPool => table' = table
         /\ known' = known
BY PoolTableAssumption DEF PTTypeOK, FindPool, Found, Pools

\* The types and what is in hand, step by step.
LEMMA TableTypes ==
  TableStrong /\ [PTNext]_ptVars => (PTTypeOK /\ HandsInv)'
<1> SUFFICES ASSUME PTTypeOK, HandsInv, [PTNext]_ptVars PROVE (PTTypeOK /\ HandsInv)'
  BY DEF TableStrong, PoolTableInv
<1> USE PoolTableAssumption
    DEF PTTypeOK, HandsInv, tableVars, poolVars, leaserVars, applyVars,
        drainVars, haltVars, To, ATo,
    DTo, StopServer
<1>1. ASSUME NEW c \in Leasers, SpecKnown(c) \/ EndCall(c) PROVE (PTTypeOK /\ HandsInv)'
  BY <1>1 DEF SpecKnown, EndCall
<1>2. ASSUME NEW c \in Leasers, GetPool(c) PROVE (PTTypeOK /\ HandsInv)'
  <2>1. table' \in Pools /\ table' = Found /\ made' \in 0..MaxPools /\ known' = known
    BY <1>2, FoundPool DEF GetPool
  <2> QED
    BY <1>2, <2>1 DEF GetPool
<1>3. ASSUME NEW c \in Leasers, NEW i \in Servers, Lease(c, i) \/ StartServer(c, i)
      PROVE  (PTTypeOK /\ HandsInv)'
  BY <1>3 DEF Lease, StartServer
<1>4. ASSUME NEW c \in Leasers, Launched(c) PROVE (PTTypeOK /\ HandsInv)'
  <2>1. linst[c] \in Servers
    BY <1>4 DEF Launched
  <2>2. members' \in [Pools -> SUBSET Servers] /\ leased' \subseteq Servers
    BY <1>4, <2>1 DEF Launched
  <2>3. /\ server' \in [Servers -> {"new", "live", "stopped"}]
        /\ linst' \in [Leasers -> Servers \cup {NoServer}]
        /\ lpc' \in [Leasers -> {"idle", "get", "pool", "start", "leased", "release", "free"}]
    BY <1>4 DEF Launched
  <2>4. HandsInv'
    BY <1>4 DEF Launched
  <2> QED
    BY <1>4, <2>2, <2>3, <2>4 DEF Launched
<1>5. ASSUME NEW c \in Leasers, StartFails(c) PROVE (PTTypeOK /\ HandsInv)'
  BY <1>5 DEF StartFails
<1>6. ASSUME NEW c \in Leasers, Release(c) PROVE (PTTypeOK /\ HandsInv)'
  BY <1>6 DEF Release
<1>7. CASE ApplyDiff \/ FindRemoved
  BY <1>7 DEF ApplyDiff, FindRemoved
<1>8. CASE StopSpec
  BY <1>8 DEF StopSpec
<1>9. CASE StopIdle
  BY <1>9 DEF StopIdle
<1>10. ASSUME NEW i \in Servers, StartDrain(i) PROVE (PTTypeOK /\ HandsInv)'
  <2>1. table' \in Pools /\ made' \in 0..MaxPools /\ known' = known
    BY <1>10, FoundPool DEF StartDrain
  <2> QED
    BY <1>10, <2>1 DEF StartDrain
<1>11. CASE TryRemove
  BY <1>11 DEF TryRemove
<1>12. CASE RemovePool
  BY <1>12 DEF RemovePool, Drop
<1>13. ASSUME NEW i \in Servers, DrainTimeout(i) \/ LeaveDraining(i) \/ StopDrained(i)
       PROVE  (PTTypeOK /\ HandsInv)'
  BY <1>13 DEF DrainTimeout, LeaveDraining, StopDrained
<1>14. ASSUME NEW i \in Servers, DrainGetPool(i) PROVE (PTTypeOK /\ HandsInv)'
  <2>1. table' \in Pools /\ table' = Found /\ made' \in 0..MaxPools /\ known' = known
    BY <1>14, FoundPool DEF DrainGetPool
  <2> QED
    BY <1>14, <2>1 DEF DrainGetPool
<1>15. ASSUME NEW i \in Servers, DrainTryRemove(i) \/ DrainRemovePool(i)
       PROVE  (PTTypeOK /\ HandsInv)'
  <2>1. dpc' \in [Servers -> {"none", "wait", "get", "leave", "stop", "try", "remove", "done"}]
    BY <1>15 DEF DrainTryRemove, DrainRemovePool
  <2>2. table' \in Pools \cup {NoPool} /\ raced' \in BOOLEAN
    BY <1>15 DEF DrainTryRemove, DrainRemovePool, Drop
  <2> QED
    BY <1>15, <2>1, <2>2 DEF DrainTryRemove, DrainRemovePool
<1>16. CASE RaiseGeneration \/ CollectMembers
  BY <1>16 DEF RaiseGeneration, CollectMembers
<1>17. CASE StopMembers \/ ForgetPools
  <2>1. CASE StopMembers
    BY <2>1 DEF StopMembers
  <2>2. CASE ForgetPools
    BY <2>2 DEF ForgetPools
  <2> QED
    BY <1>17, <2>1, <2>2
<1>18. CASE UNCHANGED ptVars
  BY <1>18 DEF ptVars
<1> QED
  BY <1>1, <1>2, <1>3, <1>4, <1>5, <1>6, <1>7, <1>8, <1>9, <1>10, <1>11, <1>12, <1>13, <1>14, <1>15,
     <1>16, <1>17, <1>18 DEF PTNext, LeaserStep, DiffStep, DrainStep, HaltStep

\* The users of the table, step by step.
LEMMA UsersKeepTable == TableStrong /\ [PTNext]_ptVars => UsersHaveTable'
<1> SUFFICES ASSUME PTTypeOK, UsersHaveTable, [PTNext]_ptVars PROVE UsersHaveTable'
  BY DEF TableStrong, PoolTableInv
<1> USE PoolTableAssumption
    DEF PTTypeOK, UsersHaveTable, tableVars, poolVars, leaserVars, applyVars,
        drainVars, haltVars, To
<1>1. ASSUME NEW c \in Leasers, SpecKnown(c) \/ EndCall(c) PROVE UsersHaveTable'
  BY <1>1 DEF SpecKnown, EndCall
<1>2. ASSUME NEW c \in Leasers, GetPool(c) PROVE UsersHaveTable'
  BY <1>2, FoundPool DEF GetPool
<1>3. ASSUME NEW c \in Leasers, NEW i \in Servers, Lease(c, i) \/ StartServer(c, i)
      PROVE  UsersHaveTable'
  BY <1>3 DEF Lease, StartServer
<1>4. ASSUME NEW c \in Leasers, Launched(c) \/ StartFails(c) \/ Release(c) PROVE UsersHaveTable'
  BY <1>4 DEF Launched, StartFails, Release
<1>5. ASSUME NEW i \in Servers, StartDrain(i) \/ DrainGetPool(i) PROVE UsersHaveTable'
  <2>1. table' \in Pools /\ (table # NoPool => table' = table)
    BY <1>5, FoundPool DEF StartDrain, DrainGetPool
  <2> QED
    BY <1>5, <2>1 DEF StartDrain, DrainGetPool
<1>6. ASSUME Drop, UNCHANGED leaserVars PROVE UsersHaveTable'
  <2>1. ~raced' => ~raced /\ (table = NoPool \/ Using(table) = {})
    BY <1>6 DEF Drop
  <2> QED
    BY <1>6, <2>1 DEF Drop, Using
<1>7. CASE ForgetPools
  <2>1. ~raced' => ~raced /\ (table = NoPool \/ Using(table) = {})
    BY <1>7 DEF ForgetPools
  <2> QED
    BY <1>7, <2>1 DEF ForgetPools, Using
<1>8. ASSUME UNCHANGED <<table, leaserVars, raced>> PROVE UsersHaveTable'
  BY <1>8
<1>9. ASSUME NEW i \in Servers,
             DrainTimeout(i) \/ LeaveDraining(i) \/ StopDrained(i) \/ DrainTryRemove(i)
      PROVE  UNCHANGED <<table, leaserVars, raced>>
  BY <1>9 DEF DrainTimeout, LeaveDraining, StopDrained, DrainTryRemove
<1>10. ApplyDiff \/ FindRemoved \/ StopSpec \/ StopIdle \/ TryRemove
      \/ RaiseGeneration \/ CollectMembers \/ StopMembers
      \/ UNCHANGED ptVars
      => UNCHANGED <<table, leaserVars, raced>>
  BY DEF ApplyDiff, FindRemoved, StopSpec, StopIdle, TryRemove, RaiseGeneration, CollectMembers,
     StopMembers, ptVars
<1>11. ASSUME NEW i \in Servers, DrainRemovePool(i) PROVE Drop /\ UNCHANGED leaserVars
  BY <1>11 DEF DrainRemovePool
<1>12. RemovePool => Drop /\ UNCHANGED leaserVars
  BY DEF RemovePool
<1> QED
  BY <1>1, <1>2, <1>3, <1>4, <1>5, <1>6, <1>7, <1>8, <1>9, <1>10, <1>11, <1>12
     DEF PTNext, LeaserStep, DiffStep, DrainStep, HaltStep

\* The servers that can be found, step by step.
LEMMA FoundStays == TableStrong /\ [PTNext]_ptVars => FoundUnlessRaced'
<1> SUFFICES ASSUME PTTypeOK, HandsInv, UsersHaveTable, FoundUnlessRaced, [PTNext]_ptVars
             PROVE  FoundUnlessRaced'
  BY DEF TableStrong, PoolTableInv
<1> USE PoolTableAssumption
    DEF PTTypeOK, FoundUnlessRaced, tableVars, poolVars, leaserVars, applyVars,
        drainVars, haltVars,
    To, ATo, DTo, StopServer
<1>1. ASSUME NEW c \in Leasers, SpecKnown(c) \/ EndCall(c) PROVE FoundUnlessRaced'
  BY <1>1 DEF SpecKnown, EndCall
<1>2. ASSUME NEW c \in Leasers, GetPool(c) PROVE FoundUnlessRaced'
  BY <1>2, FoundPool DEF GetPool
<1>3. ASSUME NEW c \in Leasers, NEW i \in Servers, Lease(c, i) PROVE FoundUnlessRaced'
  BY <1>3 DEF Lease
<1>4. ASSUME NEW c \in Leasers, NEW i \in Servers, StartServer(c, i) PROVE FoundUnlessRaced'
  BY <1>4 DEF StartServer
<1>5. ASSUME NEW c \in Leasers, Launched(c) PROVE FoundUnlessRaced'
  <2>1. linst[c] \in Servers /\ lpc[c] = "start" /\ (raced \/ (lpool[c] = table /\ table # NoPool))
    BY <1>5 DEF Launched, HandsInv, UsersHaveTable
  <2> QED
    BY <1>5, <2>1 DEF Launched
<1>6. ASSUME NEW c \in Leasers, StartFails(c) PROVE FoundUnlessRaced'
  BY <1>6 DEF StartFails
<1>7. ASSUME NEW c \in Leasers, Release(c) PROVE FoundUnlessRaced'
  BY <1>7 DEF Release
<1>8. CASE ApplyDiff \/ FindRemoved
  BY <1>8 DEF ApplyDiff, FindRemoved
<1>9. CASE StopSpec
  BY <1>9 DEF StopSpec, HandsInv
<1>10. CASE StopIdle
  BY <1>10 DEF StopIdle
<1>11. ASSUME NEW i \in Servers, StartDrain(i) PROVE FoundUnlessRaced'
  BY <1>11, FoundPool DEF StartDrain
<1>12. CASE TryRemove
  BY <1>12 DEF TryRemove, HandsInv
<1>13. ASSUME Drop, UNCHANGED <<members, server, leaserVars, toStop, toDrain>>,
              \A i \in Servers : dpc[i] \in {"wait", "get", "leave", "stop"} => dpc'[i] = dpc[i]
       PROVE  FoundUnlessRaced'
  <2>1. ~raced' => ~raced /\ (table = NoPool \/ members[table] = {})
    BY <1>13 DEF Drop, Empty
  <2> QED
    BY <1>13, <2>1
<1>14. CASE RemovePool
  BY <1>13, <1>14 DEF RemovePool
<1>15. ASSUME NEW i \in Servers, DrainRemovePool(i) PROVE FoundUnlessRaced'
  <2>1. \A j \in Servers : dpc[j] \in {"wait", "get", "leave", "stop"} => dpc'[j] = dpc[j]
    BY <1>15 DEF DrainRemovePool
  <2> QED
    BY <1>13, <1>15, <2>1 DEF DrainRemovePool
<1>16. ASSUME NEW i \in Servers, DrainTimeout(i) \/ LeaveDraining(i) \/ DrainTryRemove(i)
       PROVE  FoundUnlessRaced'
  BY <1>16 DEF DrainTimeout, LeaveDraining, DrainTryRemove
<1>17. ASSUME NEW i \in Servers, StopDrained(i) PROVE FoundUnlessRaced'
  BY <1>17 DEF StopDrained
<1>18. ASSUME NEW i \in Servers, DrainGetPool(i) PROVE FoundUnlessRaced'
  BY <1>18, FoundPool DEF DrainGetPool
<1>19. CASE RaiseGeneration \/ CollectMembers
  BY <1>19 DEF RaiseGeneration, CollectMembers, HandsInv
<1>20. CASE StopMembers
  BY <1>20 DEF StopMembers
<1>21. CASE ForgetPools
  <2>1. ~raced' => ~raced /\ (table = NoPool \/ \A i \in members[table] : server[i] # "live")
    BY <1>21 DEF ForgetPools
  <2> QED
    BY <1>21, <2>1 DEF ForgetPools
<1>22. CASE UNCHANGED ptVars
  BY <1>22 DEF ptVars
<1> QED
  BY <1>1, <1>2, <1>3, <1>4, <1>5, <1>6, <1>7, <1>8, <1>9, <1>10, <1>11, <1>12, <1>14, <1>15,
     <1>16, <1>17, <1>18, <1>19, <1>20, <1>21, <1>22
  DEF PTNext, LeaserStep, DiffStep, DrainStep, HaltStep

\* A running server can be found, in the pool of the table or in somebody's hand, unless
\* the table let go of a pool in use (scheduler/catalog.go:74-90, lifecycle.go:204-242),
\* for any number of callers, servers, pools and updates.
THEOREM ServersCanBeFound == PTSpec => []PoolTableInv
<1>1. TableStrong /\ [PTNext]_ptVars => TableStrong'
  BY TableTypes, UsersKeepTable, FoundStays DEF TableStrong, PoolTableInv
<1>2. TableStrong => PoolTableInv
  BY DEF TableStrong
<1> QED
  BY <1>1, <1>2, TableInit, PTL DEF PTSpec

--------------------------------------------------------------------------------
(* The editor of the config file.                                          *)

\* What a document is, and one that differs in one entry.
LEMMA DocumentIs ==
  /\ \A doc \in Documents : /\ doc = [x \in Names |-> doc[x]]
                            /\ \A x \in Names : doc[x] # Absent => doc[x] \in Entries
  /\ \A doc \in Documents, x \in Names, e \in Entries \cup {Absent} :
       [doc EXCEPT ![x] = e] \in Documents
  /\ NoEntries \in Documents
  /\ Absent \notin Entries
BY EditorAssumption DEF Documents, NoEntries

\* The conversions keep the version and the flag of an entry.
LEMMA Converted ==
  ASSUME NEW e \in Entries
  PROVE  \A f \in {ServerYAML(ServerFromYAML(e)), PluginYAML(PluginFromYAML(e)),
                   ServerYAML(EditorServer(e)), PluginYAML(EditorPlugin(e)),
                   NormalizeServer(e), NormalizePlugin(e)} :
           f \in Entries /\ f.ver = e.ver /\ f.off = e.off
<1>1. ASSUME NEW o \in Written
      PROVE  /\ [e EXCEPT !.opt = o] \in Entries
             /\ [e EXCEPT !.opt = o].ver = e.ver /\ [e EXCEPT !.opt = o].off = e.off
             /\ [e EXCEPT !.opt = o].opt = o
  BY DEF Entries
<1>2. ServerFromYAML(e) \in {e, [e EXCEPT !.opt = "zero"]}
  BY DEF ServerFromYAML
<1>3. \A f \in Entries : ServerYAML(f) \in {f, [f EXCEPT !.opt = "unset"]}
  BY DEF ServerYAML
<1>4. \A f \in Entries : f.ver = e.ver /\ f.off = e.off =>
        /\ ServerYAML(f) \in Entries /\ ServerYAML(f).ver = e.ver /\ ServerYAML(f).off = e.off
  BY <1>3 DEF Entries, Written
<1>5. /\ ServerFromYAML(e) \in Entries
      /\ ServerFromYAML(e).ver = e.ver /\ ServerFromYAML(e).off = e.off
  BY <1>1, <1>2 DEF Written
<1>6. EditorServer(e) \in Entries /\ EditorServer(e).ver = e.ver /\ EditorServer(e).off = e.off
  BY <1>1 DEF EditorServer, Written
<1>7. /\ NormalizeServer(e) \in Entries
      /\ NormalizeServer(e).ver = e.ver /\ NormalizeServer(e).off = e.off
  BY <1>1 DEF NormalizeServer, Written
<1>8. /\ NormalizePlugin(e) \in Entries
      /\ NormalizePlugin(e).ver = e.ver /\ NormalizePlugin(e).off = e.off
  BY <1>1 DEF NormalizePlugin, Written
<1>9. LET f == PluginYAML(PluginFromYAML(e)) IN f \in Entries /\ f.ver = e.ver /\ f.off = e.off
  BY <1>1 DEF PluginYAML, PluginFromYAML, Written
<1>10. LET f == PluginYAML(EditorPlugin(e)) IN f \in Entries /\ f.ver = e.ver /\ f.off = e.off
  BY DEF PluginYAML, EditorPlugin
<1> QED
  BY <1>4, <1>5, <1>6, <1>7, <1>8, <1>9, <1>10

\* Documents that agree on everything but the optional field.
Alike(a, b) == \A x \in Names : SameBut(a[x], b[x])

\* Reading a list and writing it back, or loading it, changes the optional fields only.
LEMMA RereadAgrees ==
  ASSUME NEW doc \in Documents
  PROVE  /\ RereadServers(doc) \in Documents /\ Alike(RereadServers(doc), doc)
         /\ RereadPlugins(doc) \in Documents /\ Alike(RereadPlugins(doc), doc)
         /\ Loaded(doc) \in Documents /\ Alike(doc, Loaded(doc))
<1>1. \A x \in Names : doc[x] # Absent => doc[x] \in Entries
  BY DocumentIs
<1>2. ASSUME NEW x \in Names
      PROVE  /\ RereadServers(doc)[x] \in Entries \cup {Absent}
             /\ RereadPlugins(doc)[x] \in Entries \cup {Absent}
             /\ Loaded(doc)[x] \in Entries \cup {Absent}
             /\ SameBut(RereadServers(doc)[x], doc[x]) /\ SameBut(RereadPlugins(doc)[x], doc[x])
             /\ SameBut(doc[x], Loaded(doc)[x])
  <2>1. CASE doc[x] = Absent
    BY <2>1 DEF RereadServers, RereadPlugins, Loaded, SameBut
  <2>2. CASE doc[x] # Absent
    <3>1. doc[x] \in Entries
      BY <1>1, <2>2
    <3>2. \A f \in Entries : f # Absent
      BY DocumentIs
    <3>3. RereadServers(doc)[x] \in {doc[x], ServerYAML(ServerFromYAML(doc[x]))}
      BY DEF RereadServers
    <3>4. RereadPlugins(doc)[x] \in {doc[x], PluginYAML(PluginFromYAML(doc[x]))}
      BY DEF RereadPlugins
    <3>5. Loaded(doc)[x] \in {doc[x], NormalizeServer(doc[x]), NormalizePlugin(doc[x])}
      BY <2>2 DEF Loaded, Normalize
    <3> QED
      BY <2>2, <3>1, <3>2, <3>3, <3>4, <3>5, Converted DEF SameBut
  <2> QED
    BY <2>1, <2>2
<1>3. /\ RereadServers(doc) \in Documents /\ RereadPlugins(doc) \in Documents
      /\ Loaded(doc) \in Documents
  <2>1. /\ RereadServers(doc) = [x \in Names |-> RereadServers(doc)[x]]
        /\ RereadPlugins(doc) = [x \in Names |-> RereadPlugins(doc)[x]]
        /\ Loaded(doc) = [x \in Names |-> Loaded(doc)[x]]
    BY DEF RereadServers, RereadPlugins, Loaded
  <2> QED
    BY <1>2, <2>1 DEF Documents
<1> QED
  BY <1>2, <1>3 DEF Alike

\* A document with an entry in place of one of its own, and with the flag of one set.
Put(doc, x, e) == [doc EXCEPT ![x] = e]
PutFlag(doc, x, off) == [doc EXCEPT ![x].off = off]

\* One entry written over documents that agree.
LEMMA OneEntryAgrees ==
  ASSUME NEW a \in Documents, NEW b \in Documents, Alike(a, b), NEW x \in Names,
         NEW e \in Entries \cup {Absent}, NEW f \in Entries \cup {Absent}, SameBut(e, f)
  PROVE  /\ Put(a, x, e) \in Documents /\ Put(b, x, f) \in Documents
         /\ Alike(Put(a, x, e), Put(b, x, f))
<1>1. [a EXCEPT ![x] = e] \in Documents /\ [b EXCEPT ![x] = f] \in Documents
  BY DocumentIs
<1>2. a = [y \in Names |-> a[y]] /\ b = [y \in Names |-> b[y]]
  BY DocumentIs
<1>3. ASSUME NEW y \in Names PROVE SameBut([a EXCEPT ![x] = e][y], [b EXCEPT ![x] = f][y])
  <2>1. [a EXCEPT ![x] = e][y] = IF y = x THEN e ELSE a[y]
    BY <1>2
  <2>2. [b EXCEPT ![x] = f][y] = IF y = x THEN f ELSE b[y]
    BY <1>2
  <2> QED
    BY <2>1, <2>2 DEF Alike
<1> QED
  BY <1>1, <1>3 DEF Alike, Put

\* Agreement is transitive.
LEMMA AgreeTransitive ==
  ASSUME NEW a, NEW b, NEW c, Alike(a, b), Alike(b, c)
  PROVE  Alike(a, c)
BY DEF Alike, SameBut

\* The entry of a request, and the kinds of requests.
LEMMA RequestKinds ==
  /\ \A r \in ServerEdits : /\ r.do \in {"create", "update"} /\ r.name \in ServerNames
                            /\ r.spec \in Entries
  /\ \A r \in ServerChanges : r.do \in {"enable", "disable", "delete"} /\ r.name \in ServerNames
  /\ \A r \in PluginEdits : /\ r.do \in {"create", "update"} /\ r.name \in PluginNames
                            /\ r.spec \in Entries
  /\ \A r \in PluginChanges : r.do \in {"enable", "disable", "delete"} /\ r.name \in PluginNames
  /\ \A r \in SectionEdits : r.do = "runtime" /\ r.name \in Sections /\ r.spec \in Entries
  /\ \A r \in Imports : r.do = "import" /\ r.names \subseteq ServerNames
BY DEF ServerEdits, ServerChanges, PluginEdits, PluginChanges, SectionEdits, Imports, ServerSpecs,
   PluginSpecs, SectionSpecs, Entries, Written

\* A request is of one kind.
LEMMA OneKind ==
  ASSUME NEW r
  PROVE  /\ r \in ServerEdits => r \notin ServerChanges \cup PluginEdits \cup PluginChanges
         /\ r \in ServerChanges => r \notin PluginEdits \cup PluginChanges
         /\ r \in PluginEdits => r \notin PluginChanges
         /\ r \in ServerEdits \cup ServerChanges \cup PluginEdits \cup PluginChanges
            => r \notin SectionEdits \cup Imports
         /\ r \in SectionEdits => r \notin Imports
BY RequestKinds, EditorAssumption

\* The flag of an entry, written over documents that agree.
LEMMA FlagAgrees ==
  ASSUME NEW a \in Documents, NEW b \in Documents, Alike(a, b), NEW x \in Names, a[x] # Absent,
         NEW off \in BOOLEAN
  PROVE  /\ PutFlag(a, x, off) \in Documents /\ PutFlag(b, x, off) \in Documents
         /\ Alike(PutFlag(a, x, off), PutFlag(b, x, off))
<1> DEFINE e == [a[x] EXCEPT !.off = off]
           f == [b[x] EXCEPT !.off = off]
<1>1. a[x] \in Entries /\ b[x] \in Entries /\ SameBut(a[x], b[x])
  BY DocumentIs DEF Alike, SameBut
<1>2. /\ e \in Entries /\ e.off = off /\ e.ver = a[x].ver
      /\ f \in Entries /\ f.off = off /\ f.ver = b[x].ver
  BY <1>1 DEF Entries
<1>3. SameBut(e, f)
  BY <1>1, <1>2, DocumentIs DEF SameBut
<1>4. PutFlag(a, x, off) = Put(a, x, e) /\ PutFlag(b, x, off) = Put(b, x, f)
  BY DEF Put, PutFlag
<1> HIDE DEF e, f
<1> QED
  BY <1>2, <1>3, <1>4, OneEntryAgrees

\* What a call writes is, but for the optional fields, what it means to change in what
\* the calls before it meant.
Faithful(d, doc) == d \in Documents /\ Alike(d, Loaded(doc)) /\ Loaded(doc) \in Documents

\* A document that reads like another keeps what the other keeps.
LEMMA FaithfulIf ==
  ASSUME NEW d \in Documents, NEW doc \in Documents, Alike(d, doc)
  PROVE  Faithful(d, doc)
BY RereadAgrees, AgreeTransitive DEF Faithful

\* A request rewrites what it names and keeps the rest, read back from the file.
LEMMA RewriteIsFaithful ==
  ASSUME NEW doc \in Documents, NEW was \in Documents, Alike(doc, was), NEW r \in Requests,
         NEW d \in Rewrites(doc, r)
  PROVE  Faithful(d, Intended(was, r))
<1>1. /\ RereadServers(doc) \in Documents /\ Alike(RereadServers(doc), was)
      /\ RereadPlugins(doc) \in Documents /\ Alike(RereadPlugins(doc), was)
  BY RereadAgrees, AgreeTransitive
<1>2. /\ RereadServers(doc) = [x \in Names |-> RereadServers(doc)[x]]
      /\ \A x \in Names : doc[x] # Absent => /\ RereadServers(doc)[x] # Absent
                                            /\ RereadPlugins(doc)[x] # Absent
  BY RereadAgrees DEF Alike, SameBut, RereadServers
<1>3. SameBut(Absent, Absent) /\ Absent \in Entries \cup {Absent}
  BY DEF SameBut
<1>4. ASSUME NEW e \in Entries
      PROVE  /\ ServerYAML(EditorServer(e)) \in Entries /\ SameBut(ServerYAML(EditorServer(e)), e)
             /\ PluginYAML(EditorPlugin(e)) \in Entries /\ SameBut(PluginYAML(EditorPlugin(e)), e)
             /\ SameBut(e, e)
  BY Converted, DocumentIs DEF SameBut
<1>5. CASE r \in ServerEdits
  <2>1. r.do \in {"create", "update"} /\ r.name \in Names /\ r.spec \in Entries
    BY <1>5, RequestKinds DEF Names
  <2>2. d \in (IF r.do = "create" THEN CreateServer(doc, r.name, EditorServer(r.spec))
                                 ELSE UpdateServer(doc, r.name, EditorServer(r.spec)))
    BY <1>5, OneKind DEF Rewrites
  <2>3. d = [RereadServers(doc) EXCEPT ![r.name] = ServerYAML(EditorServer(r.spec))]
    BY <2>2 DEF CreateServer, UpdateServer
  <2>4. Intended(was, r) = [was EXCEPT ![r.name] = r.spec]
    BY <2>1 DEF Intended
  <2>5. d \in Documents /\ Intended(was, r) \in Documents /\ Alike(d, Intended(was, r))
    <3> DEFINE a == RereadServers(doc)
               x == r.name
               e == ServerYAML(EditorServer(r.spec))
               f == r.spec
    <3>1. /\ a \in Documents /\ Alike(a, was) /\ x \in Names
          /\ e \in Entries \cup {Absent} /\ f \in Entries \cup {Absent} /\ SameBut(e, f)
          /\ d = Put(a, x, e) /\ Intended(was, r) = Put(was, x, f)
      BY <1>1, <1>4, <2>1, <2>3, <2>4 DEF Put
    <3> HIDE DEF a, x, e, f
    <3> QED
      BY <3>1, OneEntryAgrees
  <2> QED
    BY <2>5, FaithfulIf
<1>6. CASE r \in ServerChanges
  <2>1. r.do \in {"enable", "disable", "delete"} /\ r.name \in Names
    BY <1>6, RequestKinds DEF Names
  <2>2. d \in (IF r.do = "delete" THEN DeleteServer(doc, r.name)
                                 ELSE SetServerDisabled(doc, r.name, r.do = "disable"))
    BY <1>6, OneKind DEF Rewrites
  <2>3. CASE r.do = "delete"
    <3>1. d = [RereadServers(doc) EXCEPT ![r.name] = Absent]
      BY <2>2, <2>3 DEF DeleteServer
    <3>2. Intended(was, r) = [was EXCEPT ![r.name] = Absent]
      BY <2>3 DEF Intended
    <3>3. d \in Documents /\ Intended(was, r) \in Documents /\ Alike(d, Intended(was, r))
      <4> DEFINE a == RereadServers(doc)
                 x == r.name
      <4>1. /\ a \in Documents /\ Alike(a, was) /\ x \in Names
            /\ d = Put(a, x, Absent) /\ Intended(was, r) = Put(was, x, Absent)
        BY <1>1, <2>1, <3>1, <3>2 DEF Put
      <4> HIDE DEF a, x
      <4> QED
        BY <1>3, <4>1, OneEntryAgrees
    <3> QED
      BY <3>3, FaithfulIf
  <2>4. CASE r.do # "delete"
    <3> DEFINE off == (r.do = "disable")
    <3>0. off \in BOOLEAN
      OBVIOUS
    <3>1. d = [RereadServers(doc) EXCEPT ![r.name].off = off] /\ doc[r.name] # Absent
      BY <2>2, <2>4 DEF SetServerDisabled
    <3>2. Intended(was, r) = [was EXCEPT ![r.name].off = off]
      BY <2>1, <2>4 DEF Intended
    <3> HIDE DEF off
    <3>3. d \in Documents /\ Intended(was, r) \in Documents /\ Alike(d, Intended(was, r))
      <4> DEFINE a == RereadServers(doc)
                 x == r.name
      <4>1. /\ a \in Documents /\ Alike(a, was) /\ x \in Names /\ a[x] # Absent
            /\ d = PutFlag(a, x, off) /\ Intended(was, r) = PutFlag(was, x, off)
        BY <1>1, <1>2, <2>1, <3>1, <3>2 DEF PutFlag
      <4> HIDE DEF a, x
      <4> QED
        BY <3>0, <4>1, FlagAgrees
    <3> QED
      BY <3>3, FaithfulIf
  <2> QED
    BY <2>3, <2>4
<1>7. CASE r \in PluginEdits
  <2>1. r.do \in {"create", "update"} /\ r.name \in Names /\ r.spec \in Entries
    BY <1>7, RequestKinds DEF Names
  <2>2. d \in (IF r.do = "create" THEN CreatePlugin(doc, r.name, EditorPlugin(r.spec))
                                 ELSE UpdatePlugin(doc, r.name, EditorPlugin(r.spec)))
    BY <1>7, OneKind DEF Rewrites
  <2>3. d = [RereadPlugins(doc) EXCEPT ![r.name] = PluginYAML(EditorPlugin(r.spec))]
    BY <2>2 DEF CreatePlugin, UpdatePlugin
  <2>4. Intended(was, r) = [was EXCEPT ![r.name] = r.spec]
    BY <2>1 DEF Intended
  <2>5. d \in Documents /\ Intended(was, r) \in Documents /\ Alike(d, Intended(was, r))
    <3> DEFINE a == RereadPlugins(doc)
               x == r.name
               e == PluginYAML(EditorPlugin(r.spec))
               f == r.spec
    <3>1. /\ a \in Documents /\ Alike(a, was) /\ x \in Names
          /\ e \in Entries \cup {Absent} /\ f \in Entries \cup {Absent} /\ SameBut(e, f)
          /\ d = Put(a, x, e) /\ Intended(was, r) = Put(was, x, f)
      BY <1>1, <1>4, <2>1, <2>3, <2>4 DEF Put
    <3> HIDE DEF a, x, e, f
    <3> QED
      BY <3>1, OneEntryAgrees
  <2> QED
    BY <2>5, FaithfulIf
<1>8. CASE r \in PluginChanges
  <2>1. r.do \in {"enable", "disable", "delete"} /\ r.name \in Names
    BY <1>8, RequestKinds DEF Names
  <2>2. d \in (IF r.do = "delete" THEN DeletePlugin(doc, r.name)
                                 ELSE SetPluginDisabled(doc, r.name, r.do = "disable"))
    BY <1>8, OneKind DEF Rewrites
  <2>3. CASE r.do = "delete"
    <3>1. d = [RereadPlugins(doc) EXCEPT ![r.name] = Absent]
      BY <2>2, <2>3 DEF DeletePlugin
    <3>2. Intended(was, r) = [was EXCEPT ![r.name] = Absent]
      BY <2>3 DEF Intended
    <3>3. d \in Documents /\ Intended(was, r) \in Documents /\ Alike(d, Intended(was, r))
      <4> DEFINE a == RereadPlugins(doc)
                 x == r.name
      <4>1. /\ a \in Documents /\ Alike(a, was) /\ x \in Names
            /\ d = Put(a, x, Absent) /\ Intended(was, r) = Put(was, x, Absent)
        BY <1>1, <2>1, <3>1, <3>2 DEF Put
      <4> HIDE DEF a, x
      <4> QED
        BY <1>3, <4>1, OneEntryAgrees
    <3> QED
      BY <3>3, FaithfulIf
  <2>4. CASE r.do # "delete"
    <3> DEFINE off == (r.do = "disable")
    <3>0. off \in BOOLEAN
      OBVIOUS
    <3>1. d = [RereadPlugins(doc) EXCEPT ![r.name].off = off] /\ doc[r.name] # Absent
      BY <2>2, <2>4 DEF SetPluginDisabled
    <3>2. Intended(was, r) = [was EXCEPT ![r.name].off = off]
      BY <2>1, <2>4 DEF Intended
    <3> HIDE DEF off
    <3>3. d \in Documents /\ Intended(was, r) \in Documents /\ Alike(d, Intended(was, r))
      <4> DEFINE a == RereadPlugins(doc)
                 x == r.name
      <4>1. /\ a \in Documents /\ Alike(a, was) /\ x \in Names /\ a[x] # Absent
            /\ d = PutFlag(a, x, off) /\ Intended(was, r) = PutFlag(was, x, off)
        BY <1>1, <1>2, <2>1, <3>1, <3>2 DEF PutFlag
      <4> HIDE DEF a, x
      <4> QED
        BY <3>0, <4>1, FlagAgrees
    <3> QED
      BY <3>3, FaithfulIf
  <2> QED
    BY <2>3, <2>4
<1>9. CASE r \in SectionEdits
  <2>1. r.do = "runtime" /\ r.name \in Names /\ r.spec \in Entries
    BY <1>9, RequestKinds DEF Names
  <2>2. d = [doc EXCEPT ![r.name] = r.spec]
    BY <1>9, OneKind DEF Rewrites, UpdateSection
  <2>3. Intended(was, r) = [was EXCEPT ![r.name] = r.spec]
    BY <2>1 DEF Intended
  <2>4. d \in Documents /\ Intended(was, r) \in Documents /\ Alike(d, Intended(was, r))
    <3> DEFINE x == r.name
               e == r.spec
    <3>1. /\ x \in Names /\ e \in Entries \cup {Absent} /\ SameBut(e, e)
          /\ d = Put(doc, x, e) /\ Intended(was, r) = Put(was, x, e)
      BY <1>4, <2>1, <2>2, <2>3 DEF Put
    <3> HIDE DEF x, e
    <3> QED
      BY <3>1, OneEntryAgrees
  <2> QED
    BY <2>4, FaithfulIf
<1>10. CASE r \in Imports
  <2>1. r.do = "import"
    BY <1>10, RequestKinds
  <2>2. d = [x \in Names |-> IF x \in r.names THEN ServerYAML(Imported) ELSE RereadServers(doc)[x]]
    BY <1>10, OneKind DEF Rewrites, MergeServers
  <2>3. Intended(was, r) = [x \in Names |-> IF x \in r.names THEN Imported ELSE was[x]]
    BY <2>1 DEF Intended
  <2>4. /\ ServerYAML(Imported) \in Entries /\ Imported \in Entries
        /\ ServerYAML(Imported).ver = Imported.ver /\ ServerYAML(Imported).off = Imported.off
    <3>1. Imported.opt = "zero" /\ Imported.ver = 1 /\ Imported.off = FALSE /\ Imported \in Entries
      BY DEF Imported, Entries, Versions, Written
    <3>2. /\ ServerYAML(Imported) = [ver |-> 1, off |-> FALSE, opt |-> "unset"]
          /\ ServerYAML(Imported).ver = 1 /\ ServerYAML(Imported).off = FALSE
      BY <3>1 DEF ServerYAML, Imported
    <3>3. [ver |-> 1, off |-> FALSE, opt |-> "unset"] \in Entries
      BY DEF Entries, Versions, Written
    <3> QED
      BY <3>1, <3>2, <3>3
  <2>5. SameBut(ServerYAML(Imported), Imported)
    BY <2>4, DocumentIs DEF SameBut
  <2>6. ASSUME NEW x \in Names
        PROVE  /\ d[x] \in Entries \cup {Absent} /\ Intended(was, r)[x] \in Entries \cup {Absent}
               /\ SameBut(d[x], Intended(was, r)[x])
    BY <1>1, <2>2, <2>3, <2>4, <2>5, DocumentIs DEF Alike
  <2>7. d \in Documents /\ Intended(was, r) \in Documents /\ Alike(d, Intended(was, r))
    BY <2>2, <2>3, <2>6 DEF Documents, Alike
  <2> QED
    BY <2>7, FaithfulIf
<1> QED
  BY <1>5, <1>6, <1>7, <1>8, <1>9, <1>10 DEF Requests

\* As long as no two calls overlapped and none was cut short, one call is on its way at
\* most, the file is a document that agrees with what the calls before it meant, or is
\* truncated while it is written, and the document to be written does with what it means.
OneCall == \A e, f \in Editors : e # f => epc[e] = "idle" \/ epc[f] = "idle"
FileHolds ==
  IF EditorRests THEN conf \in Documents /\ Alike(conf, wanted) ELSE conf = Truncated
CallsHold ==
  \A e \in Editors :
    epc[e] # "idle" => op[e] \in Requests /\ Faithful(merged[e], Intended(wanted, op[e]))
EditorStrong == EDTypeOK /\ (~disturbed => OneCall /\ FileHolds /\ CallsHold)

\* The first state.
LEMMA EditorInit == EDInit => EditorStrong
<1> SUFFICES ASSUME EDInit PROVE EditorStrong
  OBVIOUS
<1> USE EditorAssumption DEF EDInit
<1>1. conf \in Documents /\ wanted \in Documents /\ Alike(conf, wanted)
  BY RereadAgrees
<1>2. EDTypeOK
  <2>1. editCalls \in 0..MaxEditCalls
    OBVIOUS
  <2> QED
    BY <1>1, <2>1, DocumentIs DEF EDTypeOK
<1>3. OneCall /\ FileHolds /\ CallsHold
  BY <1>1 DEF OneCall, FileHolds, CallsHold, EditorRests
<1> QED
  BY <1>2, <1>3 DEF EditorStrong

\* A call begins.
LEMMA ReadHolds ==
  ASSUME EditorStrong, NEW e \in Editors, NEW r \in Requests, ReadConfig(e, r)
  PROVE  EditorStrong'
<1> DEFINE doc == IF conf = Truncated THEN NoEntries ELSE conf
<1>1. doc \in Documents
  BY DocumentIs DEF EditorStrong, EDTypeOK, ReadConfig
<1>2. PICK d \in Rewrites(doc, r) : merged' = [merged EXCEPT ![e] = d]
  BY DEF ReadConfig
<1>3. /\ epc[e] = "idle" /\ editCalls < MaxEditCalls /\ editCalls' = editCalls + 1
      /\ epc' = [epc EXCEPT ![e] = "read"] /\ op' = [op EXCEPT ![e] = r]
      /\ disturbed' = (disturbed \/ Busy(e)) /\ UNCHANGED <<conf, wanted>>
  BY DEF ReadConfig
<1>4. d \in Documents
  <2>1. Alike(doc, doc)
    BY DEF Alike, SameBut
  <2> QED
    BY <1>1, <1>2, <2>1, RewriteIsFaithful DEF Faithful
<1>5. EDTypeOK'
  <2>1. editCalls' \in 0..MaxEditCalls
    BY <1>3, EditorAssumption DEF EditorStrong, EDTypeOK
  <2>2. disturbed' \in BOOLEAN
    BY <1>3 DEF EditorStrong, EDTypeOK
  <2> QED
    BY <1>2, <1>3, <1>4, <2>1, <2>2 DEF EditorStrong, EDTypeOK
<1>6. ASSUME ~disturbed' PROVE (OneCall /\ FileHolds /\ CallsHold)'
  <2>1. ~disturbed /\ ~Busy(e)
    BY <1>3, <1>6
  <2>2. /\ OneCall /\ FileHolds /\ CallsHold /\ EDTypeOK
        /\ \A f \in Editors : epc[f] = "idle"
    BY <1>3, <2>1 DEF EditorStrong, Busy
  <2>3. conf \in Documents /\ Alike(conf, wanted) /\ wanted \in Documents
    BY <2>2 DEF FileHolds, EditorRests, EDTypeOK
  <2>4. doc = conf
    BY <2>3, EditorAssumption
  <2>5. Faithful(d, Intended(wanted, r))
    BY <1>2, <2>3, <2>4, RewriteIsFaithful
  <2>6. /\ \A f \in Editors : epc'[f] = IF f = e THEN "read" ELSE "idle"
        /\ merged'[e] = d /\ op'[e] = r
    BY <1>2, <1>3, <2>2 DEF EDTypeOK
  <2>7. OneCall' /\ EditorRests'
    BY <2>6 DEF OneCall, EditorRests
  <2>8. FileHolds'
    BY <1>3, <2>3, <2>7 DEF FileHolds
  <2>9. CallsHold'
    <3> SUFFICES ASSUME NEW f \in Editors, epc'[f] # "idle"
                 PROVE  op'[f] \in Requests /\ Faithful(merged'[f], Intended(wanted', op'[f]))
      BY DEF CallsHold
    <3>1. f = e
      BY <2>6
    <3> QED
      BY <1>3, <2>5, <2>6, <3>1
  <2> QED
    BY <2>7, <2>8, <2>9
<1> QED
  BY <1>5, <1>6 DEF EditorStrong

\* The file is truncated.
LEMMA TruncateHolds ==
  ASSUME EditorStrong, NEW e \in Editors, TruncateConfig(e)
  PROVE  EditorStrong'
<1>1. /\ epc[e] = "read" /\ conf' = Truncated /\ epc' = [epc EXCEPT ![e] = "truncated"]
      /\ UNCHANGED <<op, merged, editCalls, wanted, disturbed>>
  BY DEF TruncateConfig
<1>2. EDTypeOK'
  BY <1>1 DEF EditorStrong, EDTypeOK
<1>3. ASSUME ~disturbed' PROVE (OneCall /\ FileHolds /\ CallsHold)'
  <2>1. OneCall /\ CallsHold /\ EDTypeOK
    BY <1>1, <1>3 DEF EditorStrong
  <2>2. \A f \in Editors : epc'[f] = IF f = e THEN "truncated" ELSE epc[f]
    BY <1>1, <2>1 DEF EDTypeOK
  <2>3. OneCall' /\ FileHolds'
    BY <1>1, <2>1, <2>2 DEF OneCall, FileHolds, EditorRests
  <2>4. CallsHold'
    BY <1>1, <2>1, <2>2 DEF CallsHold
  <2> QED
    BY <2>3, <2>4
<1> QED
  BY <1>2, <1>3 DEF EditorStrong

\* It is written.
LEMMA WriteHolds ==
  ASSUME EditorStrong, NEW e \in Editors, WriteConfig(e)
  PROVE  EditorStrong'
<1>1. /\ epc[e] = "truncated" /\ UNCHANGED <<editCalls, disturbed>>
      /\ conf' \in {merged[e]} \cup (IF conf \in {Truncated, merged[e]} THEN {} ELSE {Unreadable})
      /\ wanted' = IF disturbed THEN wanted ELSE Loaded(Intended(wanted, op[e]))
      /\ epc' = [epc EXCEPT ![e] = "idle"] /\ op' = [op EXCEPT ![e] = NoRequest]
      /\ merged' = [merged EXCEPT ![e] = NoEntries]
  BY DEF WriteConfig, Ends
<1>2. ~disturbed => OneCall /\ FileHolds /\ CallsHold
  BY DEF EditorStrong
<1>3. ~disturbed => Faithful(merged[e], Intended(wanted, op[e]))
  BY <1>1, <1>2 DEF CallsHold
<1>4. EDTypeOK'
  <2>1. wanted' \in Documents
    BY <1>1, <1>3 DEF EditorStrong, EDTypeOK, Faithful
  <2>2. conf' \in Documents \cup {Truncated, Unreadable}
    BY <1>1 DEF EditorStrong, EDTypeOK
  <2> QED
    BY <1>1, <2>1, <2>2, DocumentIs DEF EditorStrong, EDTypeOK
<1>5. ASSUME ~disturbed' PROVE (OneCall /\ FileHolds /\ CallsHold)'
  <2>1. OneCall /\ FileHolds /\ ~disturbed /\ EDTypeOK
    BY <1>1, <1>2, <1>5 DEF EditorStrong
  <2>2. \A f \in Editors : epc'[f] = "idle"
    BY <1>1, <2>1 DEF EDTypeOK, OneCall
  <2>3. conf = Truncated
    BY <1>1, <2>1 DEF FileHolds, EditorRests
  <2>4. conf' = merged[e] /\ wanted' = Loaded(Intended(wanted, op[e]))
    BY <1>1, <2>1, <2>3
  <2>5. conf' \in Documents /\ Alike(conf', wanted')
    BY <1>3, <2>1, <2>4 DEF Faithful
  <2>6. EditorRests' /\ OneCall' /\ CallsHold'
    BY <2>2 DEF EditorRests, OneCall, CallsHold
  <2>7. FileHolds'
    BY <2>5, <2>6 DEF FileHolds, Alike
  <2> QED
    BY <2>6, <2>7
<1> QED
  BY <1>4, <1>5 DEF EditorStrong

\* All steps.
LEMMA EditorStep == EditorStrong /\ [EDNext]_edVars => EditorStrong'
<1> SUFFICES ASSUME EditorStrong, [EDNext]_edVars PROVE EditorStrong'
  OBVIOUS
<1>1. ASSUME NEW e \in Editors, WriteFails(e) PROVE EditorStrong'
  <2>1. disturbed' = TRUE /\ EDTypeOK'
    BY <1>1, DocumentIs DEF WriteFails, Ends, EditorStrong, EDTypeOK
  <2> QED
    BY <2>1 DEF EditorStrong
<1>2. CASE AppEnds
  <2>1. /\ disturbed' = (disturbed \/ \E e \in Editors : epc[e] = "truncated")
        /\ epc' = [e \in Editors |-> "idle"] /\ op' = [e \in Editors |-> NoRequest]
        /\ merged' = [e \in Editors |-> NoEntries] /\ UNCHANGED <<conf, editCalls, wanted>>
    BY <1>2 DEF AppEnds
  <2>2. EDTypeOK'
    BY <2>1, DocumentIs DEF EditorStrong, EDTypeOK
  <2>3. ASSUME ~disturbed' PROVE (OneCall /\ FileHolds /\ CallsHold)'
    <3>1. ~disturbed /\ EditorRests
      BY <2>1, <2>3 DEF EditorRests
    <3>2. FileHolds
      BY <3>1 DEF EditorStrong
    <3> QED
      BY <2>1, <3>1, <3>2 DEF FileHolds, EditorRests, OneCall, CallsHold, Alike
  <2> QED
    BY <2>2, <2>3 DEF EditorStrong
<1>3. CASE UNCHANGED edVars
  BY <1>3 DEF edVars, EditorStrong, EDTypeOK, OneCall, FileHolds, EditorRests, CallsHold, Alike
<1> QED
  BY <1>1, <1>2, <1>3, ReadHolds, TruncateHolds, WriteHolds DEF EDNext

\* As long as no two calls overlapped and none was cut short, the config file says of every
\* server, plugin and section what the calls that succeeded asked for, but for the
\* optional fields (catalog/editor/profile_editor.go), for any number of names, editors
\* and calls.
THEOREM EditsAreKept == EDSpec => []EditorInv
<1>1. EditorStrong => EditorInv
  BY DEF EditorStrong, EditorInv, EditsHold, FileHolds, Alike
<1> QED
  BY <1>1, EditorInit, EditorStep, PTL DEF EDSpec

================================================================================
