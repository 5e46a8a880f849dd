------------------------------- MODULE StatusWatch -------------------------------
(***************************************************************************)
(* The statuses of the servers on their way to who watches them: the       *)
(* worker that polls (controlplane/observability), the index that          *)
(* remembers and broadcasts (aggregator/index/runtime_status_index.go and  *)
(* server_init_index.go, the same code over two types), and the goroutine  *)
(* that filters for one client.  One watch, from its first call to its     *)
(* end.                                                                    *)
(*                                                                         *)
(* A snapshot is its place in "snaps", the sequence of those stored.       *)
(***************************************************************************)
EXTENDS Integers, Sequences

CONSTANTS
  Keys, StatusStates, Failed,   \* spec keys; states of a server, one of them a failure
  Gone,                         \* what a client that is not registered may see
  MaxStatusChanges, MaxViews    \* bounds: changes of the servers, of what the client sees

ASSUME StatusWatchAssumption ==
  Failed \in StatusStates /\ StatusStates # {Failed} /\ {MaxStatusChanges, MaxViews} \subseteq Nat

VARIABLES
  statuses, bootErrors, changes,     \* the servers, the errors of the bootstrap
  snaps, workerAt,           \* the index, the goroutine that polls
  filtered, subAt, looked,           \* for one client; the call of Watch, what it read
  listed, updatesCh, updatesClosed,    \* the subscription
  view, views, events,               \* the registry
  last, outCh, outClosed, shown,       \* the goroutine of the watch, who receives from it
  ended,                             \* the context of the watch
  late, lostUpdate, lostOut          \* ghosts, see the properties

pollVars == <<statuses, bootErrors, changes, snaps, workerAt>>
subscription == <<listed, updatesCh, updatesClosed>>
currentVars == <<view, views>>
outVars == <<outCh, outClosed, shown>>
ghosts == <<late, lostUpdate, lostOut>>
swatchVars == <<pollVars, filtered, subAt, looked, subscription, currentVars, events, last, outVars, ended, ghosts>>

NothingYet == << >>
NoView == [n |-> 0, view |-> {}]

FirstStatuses == [k \in Keys |-> CHOOSE s \in StatusStates : s # Failed]

\* The index has this snapshot stored.
STStored(snap) ==
  /\ statuses = FirstStatuses /\ bootErrors = {} /\ changes = 0
  /\ snaps = <<snap>> /\ workerAt = "idle"
  /\ filtered \in BOOLEAN /\ subAt = "none" /\ looked = 0
  /\ listed = FALSE /\ updatesCh = << >> /\ updatesClosed = FALSE
  /\ view = Keys /\ views = 0 /\ events = 0
  /\ last = 0 /\ outCh = << >> /\ outClosed = FALSE /\ shown = NoView /\ ended = FALSE
  /\ late = FALSE /\ lostUpdate = FALSE /\ lostOut = FALSE

STInit == STStored(NothingYet)

Current == Len(snaps)

(***************************************************************************)
(* The worker.                                                             *)
(***************************************************************************)

\* A server whose bootstrap failed counts as failed whatever it is now.
GetServerInitStatus == [k \in Keys |-> IF k \in bootErrors THEN Failed ELSE statuses[k]]

ServerChanges ==
  /\ changes < MaxStatusChanges /\ changes' = changes + 1
  /\ \/ \E k \in Keys, s \in StatusStates : s # statuses[k] /\ statuses' = [statuses EXCEPT ![k] = s] /\ UNCHANGED bootErrors
     \/ \E k \in Keys \ bootErrors : bootErrors' = bootErrors \cup {k} /\ UNCHANGED statuses
  /\ UNCHANGED <<snaps, workerAt, filtered, subAt, looked, subscription, currentVars, events, last, outVars, ended, ghosts>>

pollRest == <<statuses, bootErrors, changes, filtered, subAt, looked, currentVars, events, last, outVars, ended>>

\* A tick: the present statuses are read, and stored if they are not those of the snapshot.
Refresh ==
  /\ workerAt = "idle" /\ GetServerInitStatus # snaps[Current]
  /\ snaps' = Append(snaps, GetServerInitStatus) /\ workerAt' = "send"
  /\ UNCHANGED <<subscription, ghosts, pollRest>>

\* A subscriber that has not taken the last snapshot misses this one.
Broadcasts ==
  /\ workerAt = "send" /\ workerAt' = "idle"
  /\ updatesCh' = IF listed /\ updatesCh = << >> THEN <<Current>> ELSE updatesCh
  /\ lostUpdate' = (listed /\ updatesCh # << >>)
  /\ UNCHANGED <<snaps, listed, updatesClosed, late, lostOut, pollRest>>

(***************************************************************************)
(* The subscription.                                                       *)
(***************************************************************************)

\* The snapshot is read before the lock is taken.
SubscribeLooks ==
  /\ subAt = "none" /\ ~ended /\ subAt' = "look"
  /\ looked' = Current
  /\ UNCHANGED <<pollVars, filtered, subscription, currentVars, events, last, outVars, ended, ghosts>>

SubscribeLists ==
  /\ subAt = "look" /\ subAt' = IF filtered THEN "watch" ELSE "done"
  /\ listed' = TRUE /\ updatesCh' = <<looked>>
  /\ late' = (looked # Current) /\ lostUpdate' = (looked # Current)
  /\ UNCHANGED <<pollVars, filtered, looked, updatesClosed, currentVars, events, last, outVars, ended, lostOut>>

SubscriptionCloses ==
  /\ listed /\ ended
  /\ listed' = FALSE /\ updatesClosed' = TRUE
  /\ UNCHANGED <<pollVars, filtered, subAt, looked, updatesCh, currentVars, events, last, outVars, ended, ghosts>>

WatchCancelled ==
  /\ ~ended /\ ended' = TRUE
  /\ UNCHANGED <<pollVars, filtered, subAt, looked, subscription, currentVars, events, last, outVars, ghosts>>

(***************************************************************************)
(* The goroutine that filters.                                             *)
(***************************************************************************)

\* What the client may see has changed, or the client has gone.
ViewChanges ==
  /\ views < MaxViews /\ views' = views + 1
  /\ view' \in ((SUBSET Keys) \cup {Gone}) \ {view}
  /\ events' = IF subAt = "loop" THEN events + 1 ELSE events
  /\ UNCHANGED <<pollVars, filtered, subAt, looked, subscription, last, outVars, ended, ghosts>>

\* Nothing is sent for a client that is not registered, or to a consumer that is behind.
SendFiltered(n) ==
  /\ outCh' = IF view # Gone /\ outCh = << >> THEN <<[n |-> n, view |-> view]>> ELSE outCh
  /\ lostOut' = IF view # Gone THEN outCh # << >> ELSE lostOut

watchRest == <<pollVars, filtered, listed, updatesClosed, currentVars, outClosed, shown, ended, lostUpdate>>

\* The goroutine subscribes to the registry, and begins with the current snapshot.
WatchBegins ==
  /\ subAt = "watch" /\ subAt' = "loop"
  /\ last' = Current /\ SendFiltered(Current)
  /\ late' = (late \/ looked # Current) /\ looked' = 0
  /\ UNCHANGED <<updatesCh, events, watchRest>>

\* Mutant: the goroutine forgets to keep what it has sent.
TakesUpdateOnly ==
  /\ subAt = "loop" /\ updatesCh # << >>
  /\ updatesCh' = << >> /\ SendFiltered(Head(updatesCh))
  /\ UNCHANGED <<subAt, looked, last, events, late, watchRest>>

TakesUpdate ==
  /\ subAt = "loop" /\ updatesCh # << >>
  /\ updatesCh' = << >> /\ last' = Head(updatesCh) /\ SendFiltered(last')
  /\ UNCHANGED <<subAt, looked, events, late, watchRest>>

\* Mutant: the event is taken for another client's.
TakesOthersEvent ==
  /\ subAt = "loop" /\ events > 0
  /\ events' = events - 1
  /\ UNCHANGED <<subAt, looked, updatesCh, last, outCh, lostOut, late, watchRest>>

TakesEvent ==
  /\ subAt = "loop" /\ events > 0
  /\ events' = events - 1 /\ SendFiltered(last)
  /\ UNCHANGED <<subAt, looked, updatesCh, last, late, watchRest>>

WatchEnds ==
  /\ subAt = "loop" /\ (ended \/ (updatesClosed /\ updatesCh = << >>))
  /\ subAt' = "done" /\ outClosed' = TRUE
  /\ UNCHANGED <<pollVars, filtered, looked, subscription, currentVars, events, last, outCh, shown, ended, ghosts>>

\* Who watches receives the next snapshot, from the subscription itself if it watches all.
Receives ==
  /\ IF filtered
     THEN outCh # << >> /\ shown' = Head(outCh) /\ outCh' = << >> /\ UNCHANGED updatesCh
     ELSE subAt = "done" /\ updatesCh # << >> /\ shown' = [n |-> Head(updatesCh), view |-> Keys] /\ updatesCh' = << >> /\ UNCHANGED outCh
  /\ UNCHANGED <<pollVars, filtered, subAt, looked, listed, updatesClosed, currentVars, events, last, outClosed, ended, ghosts>>

(***************************************************************************)
(* The specification.                                                      *)
(***************************************************************************)

STNext ==
  \/ ServerChanges \/ Refresh \/ Broadcasts \/ SubscribeLooks \/ SubscribeLists \/ SubscriptionCloses
  \/ WatchCancelled \/ ViewChanges \/ WatchBegins \/ TakesUpdate \/ TakesEvent \/ WatchEnds \/ Receives

\* The ticker goes on, and so do the goroutines; who watches keeps receiving.
STFairness ==
  /\ WF_swatchVars(Refresh \/ Broadcasts) /\ WF_swatchVars(SubscribeLists \/ WatchBegins)
  /\ WF_swatchVars(SubscriptionCloses) /\ WF_swatchVars(WatchEnds) /\ WF_swatchVars(Receives)
  /\ SF_swatchVars(TakesUpdate \/ TakesEvent)

STSpec == STInit /\ [][STNext]_swatchVars /\ STFairness

(***************************************************************************)
(* Properties.                                                             *)
(***************************************************************************)

\* The type invariant.
STTypeOK ==
  /\ statuses \in [Keys -> StatusStates] /\ bootErrors \subseteq Keys /\ changes \in 0..MaxStatusChanges
  /\ workerAt \in {"idle", "send"} /\ subAt \in {"none", "look", "watch", "loop", "done"}
  /\ Len(updatesCh) <= 1 /\ Len(outCh) <= 1 /\ events \in 0..MaxViews /\ view \in (SUBSET Keys) \cup {Gone}
  /\ {looked, last, shown.n} \subseteq 0..Current
  /\ {filtered, listed, updatesClosed, outClosed, ended, late, lostUpdate, lostOut} \subseteq BOOLEAN

\* Who watches never goes back to an older snapshot, unless a poll fell between the reading
\* of the snapshot and the subscription, or between that and the first one sent.
InOrder ==
  ~late => /\ \A i \in DOMAIN outCh : shown.n <= outCh[i].n /\ outCh[i].n <= last
           /\ \A i \in DOMAIN updatesCh : shown.n <= updatesCh[i] /\ last <= updatesCh[i]

\* A snapshot that is stored says something else than the one before it.
EachIsNews == \A i \in 2..Current : snaps[i] # snaps[i - 1]

\* The channel a broadcast may use is open: it is closed where it is taken off the list.
ListedIsOpen == listed => ~updatesClosed

\* The three, and the type invariant.
StatusInv == STTypeOK /\ InOrder /\ EachIsNews /\ ListedIsOpen

\* What is shown is what the servers are, of the servers the client may see; a client that is
\* gone is shown nothing new.
Fresh ==
  /\ snaps[Current] = GetServerInitStatus
  /\ (filtered /\ view = Gone) \/ shown = [n |-> Current, view |-> IF filtered THEN view ELSE Keys]

\* Who watches and goes on receiving sees the present statuses, of the servers it may see at
\* present, unless the last snapshot found a channel full: it is then not sent again.
CaughtUp == (listed /\ ~ended) => (Fresh \/ lostUpdate \/ lostOut)

\* A watch whose context is done has given up its subscription and closed its channel.
WatchIsOver == (ended /\ subAt # "none") => (~listed /\ (filtered => outClosed))

\* When the servers change no more, both hold from some time on.
StatusSettled == CaughtUp /\ WatchIsOver
StatusSettles == <>[]StatusSettled
================================================================================
