------------------------------ MODULE TaskManager ------------------------------
(***************************************************************************)
(* The in-memory task manager (infra/tasks/manager.go): tasks that run in  *)
(* goroutines of their own, expire, are cancelled, waited for and shown   *)
(* page by page.  Every method but Create and the end of a run begins with *)
(* the purge of what has expired.                                          *)
(***************************************************************************)
EXTENDS Integers, FiniteSets

CONSTANTS
  Tasks,      \* ids: newTaskID never gives one twice
  Owners,
  Waiters,    \* callers of Result
  PageSize,   \* the limit of List
  NoTask

ASSUME TaskManagerAssumption ==
  PageSize \in Nat \ {0} /\ NoTask \notin Tasks /\ Owners # {}

VARIABLES
  tasks,      \* m.tasks: the tasks the manager knows
  earlier,    \* m.order: the tasks created before each
  owner, status,
  tries,      \* how often the done channel of a task was closed
  running,    \* tasks whose runner has not returned
  taskCtxDone,    \* tasks whose context is cancelled
  late,       \* tasks whose expiresAt has passed
  waits,      \* the task each Result waits for
  cursor, reader, shown,  \* a client that lists its tasks: the next page, what it saw
  due,        \* ghost: its tasks when it began
  shifted     \* ghost: a purge between two pages moved the tasks under the cursor

pageVars == <<cursor, reader, shown, due>>
listVars == <<pageVars, shifted>>
taskTableVars == <<tasks, earlier>>
taskVars == <<owner, status, tries, running>>
tmVars == <<taskTableVars, taskVars, taskCtxDone, late, waits, listVars>>

Terminal == {"completed", "failed", "cancelled"}
AtRest == -1  \* the client is not listing

TMInit ==
  /\ tasks = {} /\ earlier = [t \in Tasks |-> {}]
  /\ owner = [t \in Tasks |-> CHOOSE o \in Owners : TRUE]
  /\ status = [t \in Tasks |-> "new"] /\ tries = [t \in Tasks |-> 0]
  /\ running = {} /\ taskCtxDone = {} /\ late = {}
  /\ waits = [w \in Waiters |-> NoTask]
  /\ cursor = AtRest /\ shown = {} /\ due = {} /\ reader = CHOOSE o \in Owners : TRUE
  /\ shifted = FALSE

\* purgeExpiredLocked: what has expired is cancelled and forgotten, its done channel
\* left as it is.
Kept == tasks \ late
Purge ==
  /\ tasks' = Kept
  /\ taskCtxDone' = taskCtxDone \cup (tasks \cap late)
  /\ shifted' = (shifted \/ (cursor > 0 /\ tasks # Kept))
  /\ UNCHANGED earlier
Seen(o, t) == t \in Kept /\ owner[t] = o

(***************************************************************************)
(* The life of a task.                                                     *)
(***************************************************************************)

Create(o, t) ==
  /\ status[t] = "new"
  /\ status' = [status EXCEPT ![t] = "working"] /\ owner' = [owner EXCEPT ![t] = o]
  /\ tasks' = tasks \cup {t} /\ earlier' = [earlier EXCEPT ![t] = tasks]
  /\ running' = running \cup {t}
  /\ UNCHANGED <<tries, taskCtxDone, late, waits, listVars>>

Finish(t, s) ==
  /\ status' = [status EXCEPT ![t] = s]
  /\ tries' = [tries EXCEPT ![t] = @ + 1]

\* Mutant: the end of a run whose context was cancelled is left to Cancel.
RunTaskUnlessCancelled(t, outcome) ==
  /\ t \in running
  /\ running' = running \ {t}
  /\ IF t \in tasks \ taskCtxDone /\ status[t] \notin Terminal
     THEN Finish(t, outcome)
     ELSE UNCHANGED <<status, tries>>
  /\ UNCHANGED <<taskTableVars, owner, taskCtxDone, late, waits, listVars>>

\* Mutant: the end of a run does not ask whether the task was cancelled meanwhile.
RunTaskAgain(t, outcome) ==
  /\ t \in running
  /\ running' = running \ {t}
  /\ IF t \in tasks
     THEN Finish(t, IF t \in taskCtxDone THEN "cancelled" ELSE outcome)
     ELSE UNCHANGED <<status, tries>>
  /\ UNCHANGED <<taskTableVars, owner, taskCtxDone, late, waits, listVars>>

\* runTask after the runner returned: a task that was purged or cancelled meanwhile is
\* left alone, one whose context was cancelled is cancelled whatever the runner says.
RunTask(t, outcome) ==
  /\ t \in running
  /\ running' = running \ {t}
  /\ IF t \in tasks /\ status[t] \notin Terminal
     THEN Finish(t, IF t \in taskCtxDone THEN "cancelled" ELSE outcome)
     ELSE UNCHANGED <<status, tries>>
  /\ UNCHANGED <<taskTableVars, owner, taskCtxDone, late, waits, listVars>>

\* A Cancel of a task that is terminal or not the caller's only purges.  The context of
\* the task is cancelled with its status.
Cancel(o, t) ==
  /\ Purge
  /\ Seen(o, t) /\ status[t] \notin Terminal
  /\ Finish(t, "cancelled")
  /\ UNCHANGED <<owner, running, late, waits, pageVars>>

\* backgroundPurge, Get, and the calls that are refused.
PurgeExpired ==
  /\ tasks \cap late # {}
  /\ Purge
  /\ UNCHANGED <<taskVars, late, waits, pageVars>>

Expire(t) ==
  /\ status[t] # "new" /\ t \notin late
  /\ late' = late \cup {t}
  /\ UNCHANGED <<taskTableVars, taskVars, taskCtxDone, waits, listVars>>

\* The context Create was given ends.
ContextEnds(t) ==
  /\ t \in running \ taskCtxDone
  /\ taskCtxDone' = taskCtxDone \cup {t}
  /\ UNCHANGED <<taskTableVars, taskVars, late, waits, listVars>>

(***************************************************************************)
(* Result waits without the lock for the done channel of the task it found.*)
(***************************************************************************)

Result(w, o, t) ==
  /\ waits[w] = NoTask /\ Seen(o, t)
  /\ Purge
  /\ waits' = [waits EXCEPT ![w] = t]
  /\ UNCHANGED <<taskVars, late, pageVars>>

ResultReady(w) ==
  /\ waits[w] # NoTask /\ tries[waits[w]] > 0
  /\ waits' = [waits EXCEPT ![w] = NoTask]
  /\ UNCHANGED <<taskTableVars, taskVars, taskCtxDone, late, listVars>>

ResultCancelled(w) ==
  /\ waits[w] # NoTask
  /\ waits' = [waits EXCEPT ![w] = NoTask]
  /\ UNCHANGED <<taskTableVars, taskVars, taskCtxDone, late, listVars>>

(***************************************************************************)
(* A client that lists from the first page to the last.                    *)
(***************************************************************************)

OwnedBy(o) == {t \in Kept : owner[t] = o}

BeginList(o) ==
  /\ cursor = AtRest
  /\ cursor' = 0 /\ shown' = {} /\ due' = OwnedBy(o) /\ reader' = o /\ shifted' = FALSE
  /\ UNCHANGED <<taskTableVars, taskVars, taskCtxDone, late, waits>>

\* The place of a task in the order, from which the purge takes what has expired.
Place(t) == Cardinality(earlier[t] \cap Kept)

\* The cursor is a place in the order.
List ==
  LET end == cursor + PageSize IN
  /\ cursor # AtRest
  /\ Purge
  /\ shown' = shown \cup {t \in OwnedBy(reader) : Place(t) \in cursor..(end - 1)}
  /\ cursor' = IF end < Cardinality(Kept) THEN end ELSE AtRest
  /\ UNCHANGED <<taskVars, late, waits, reader, due>>

TMNext ==
  \/ \E o \in Owners, t \in Tasks : Create(o, t) \/ Cancel(o, t)
  \/ \E t \in Tasks, outcome \in {"completed", "failed"} : RunTask(t, outcome)
  \/ \E t \in Tasks : Expire(t) \/ ContextEnds(t)
  \/ PurgeExpired \/ List
  \/ \E w \in Waiters, o \in Owners, t \in Tasks : Result(w, o, t)
  \/ \E w \in Waiters : ResultReady(w) \/ ResultCancelled(w)
  \/ \E o \in Owners : BeginList(o)

TMSpec == TMInit /\ [][TMNext]_tmVars

(***************************************************************************)
(* Properties.                                                             *)
(***************************************************************************)

\* The type invariant.
TMTypeOK ==
  /\ tasks \subseteq Tasks /\ earlier \in [Tasks -> SUBSET Tasks]
  /\ owner \in [Tasks -> Owners] /\ status \in [Tasks -> {"new", "working"} \cup Terminal]
  /\ tries \in [Tasks -> 0..1] /\ running \cup taskCtxDone \cup late \subseteq Tasks
  /\ waits \in [Waiters -> Tasks \cup {NoTask}]
  /\ cursor \in Nat \cup {AtRest} /\ shown \cup due \subseteq Tasks
  /\ reader \in Owners /\ shifted \in BOOLEAN

\* An outcome is final and told once: however the end of the run, Cancel and the purge
\* meet, the done channel of a task is closed exactly when it has an outcome, never
\* twice (which would end the program), and no step changes an outcome.
OutcomeIsFinal ==
  [][\A t \in Tasks :
       /\ tries'[t] = (IF status'[t] \in Terminal THEN 1 ELSE 0)
       /\ status[t] \in Terminal => status'[t] = status[t]]_tmVars

\* A caller of Result waits for a channel that somebody will close: the run that closes
\* it goes on or has ended with it closed, unless the task expired, which leaves its
\* callers waiting for nothing (manager.go:301).
ResultIsComing ==
  \A w \in Waiters :
    waits[w] # NoTask => waits[w] \in running \cup late \/ tries[waits[w]] > 0

\* Listing page by page shows every task of the client that was there when it began and
\* still is, though others are created meanwhile, unless a purge shifted the pages.
PagesAreComplete ==
  cursor = AtRest /\ ~shifted => due \cap Kept \subseteq shown

\* The two, and the type invariant.
TaskInv == TMTypeOK /\ ResultIsComing /\ PagesAreComplete
================================================================================
