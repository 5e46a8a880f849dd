------------------------------ MODULE GatewaySync ------------------------------
(***************************************************************************)
(* One gateway runtime (gateway/core.go run): the syncers that list, watch *)
(* and mirror what the core offers (syncer.go, list_all.go), the log bridge*)
(* (log_bridge.go), the heartbeat that keeps the caller registered, and the*)
(* shutdown, over one shared connection to the core (client_manager.go,    *)
(* rpc/client.go) that any of them closes when a call of its own fails.    *)
(*                                                                         *)
(* What the core offers is a version; which snapshots a stream drops is the*)
(* subject of SnapshotWatch.tla.  fresh[p] says that the client p works    *)
(* with is the one the manager holds: every other client is closed.        *)
(***************************************************************************)
EXTENDS Integers

CONSTANTS
  Syncers,       \* mirrors of one kind of list
  Paged,         \* those that list in pages
  Bridge,        \* the log bridge
  MaxVersion,    \* bound: changes of what the core offers
  MaxCrashes,    \* bound: crashes of the core
  Nobody         \* no process holds the manager's mutex in a dial

ASSUME GatewaySyncAssumption ==
  /\ MaxVersion \in Nat /\ MaxCrashes \in Nat
  /\ Paged \subseteq Syncers /\ Bridge \notin Syncers
  /\ Syncers \cap {"beat", "main"} = {} /\ Bridge \notin {"beat", "main"}
  /\ Nobody \notin Syncers \cup {Bridge, "beat", "main"}

VARIABLES
  up, registered, version, crashes,  \* the core
  managed,      \* clientManager.client is not nil
  dialer,       \* who dials, holding clientManager.mu
  fresh,        \* whose client is the manager's
  at,           \* where each goroutine is
  stream,       \* the stream each one receives from
  paging,       \* the etag of the first page
  shown,        \* what each mirror shows
  gone          \* the runtime's context is cancelled

coreVars == <<up, registered, version, crashes>>
clientVars == <<managed, dialer, fresh>>
mirrorVars == <<paging, shown>>
gsVars == <<coreVars, clientVars, at, stream, mirrorVars, gone>>

Streamers == Syncers \cup {Bridge}
Workers == Streamers \cup {"beat"}
Members == Workers \cup {"main"}

GSInit ==
  /\ up = TRUE /\ registered = TRUE /\ version = 1 /\ crashes = 0
  /\ managed = TRUE /\ dialer = Nobody /\ fresh = [p \in Members |-> FALSE]
  /\ at = [p \in Members |-> "off"]
  /\ stream = [p \in Streamers |-> "none"]
  /\ paging = [p \in Paged |-> 0] /\ shown = [p \in Syncers |-> 0] /\ gone = FALSE

Move(p, l) == at' = [at EXCEPT ![p] = l]

\* run, once the caller is registered.
RunGateway ==
  /\ at["main"] = "off"
  /\ at' = [p \in Members |-> CASE p = "main" -> "run" [] p = "beat" -> "tick" [] OTHER -> "get"]
  /\ UNCHANGED <<coreVars, clientVars, stream, mirrorVars, gone>>

(***************************************************************************)
(* clientManager: get dials under the mutex until the core answers, reset  *)
(* closes whatever client there is, and with it everybody's streams.       *)
(***************************************************************************)

HasClient(p) ==
  Move(p, CASE at[p] \in {"reget", "redial"} -> "register"
            [] p = Bridge -> "stream"
            [] p = "main" -> "unregister"
            [] OTHER -> "list")

Get(p) ==
  /\ at[p] \in {"get", "reget"} /\ dialer = Nobody /\ managed
  /\ fresh' = [fresh EXCEPT ![p] = TRUE]
  /\ HasClient(p)
  /\ UNCHANGED <<coreVars, managed, dialer, stream, mirrorVars, gone>>

Dial(p) ==
  /\ at[p] \in {"get", "reget"} /\ dialer = Nobody /\ ~managed
  /\ dialer' = p
  /\ Move(p, IF at[p] = "get" THEN "dial" ELSE "redial")
  /\ UNCHANGED <<coreVars, managed, fresh, stream, mirrorVars, gone>>

DialReady(p) ==
  /\ at[p] \in {"dial", "redial"} /\ up
  /\ managed' = TRUE /\ dialer' = Nobody
  /\ fresh' = [fresh EXCEPT ![p] = TRUE]
  /\ HasClient(p)
  /\ UNCHANGED <<coreVars, stream, mirrorVars, gone>>

\* Only the context ends a dial; the shutdown dials with a context of its own.
DialCancelled(p) ==
  /\ at[p] \in {"dial", "redial"} /\ gone /\ p # "main"
  /\ dialer' = Nobody
  /\ Move(p, CASE p = "beat" -> "tick" [] at[p] = "dial" -> "sleep" [] OTHER -> "reset")
  /\ UNCHANGED <<coreVars, managed, fresh, stream, mirrorVars, gone>>

CloseClient ==
  /\ dialer = Nobody
  /\ managed' = FALSE
  /\ fresh' = [p \in Members |-> FALSE]
  /\ stream' = [p \in Streamers |-> IF stream[p] = "live" THEN "closed" ELSE stream[p]]
  /\ UNCHANGED dialer

\* registerCaller resets the client of a core that is unavailable, and its caller, a
\* syncer or the log bridge, resets it once more.
Reset(p) ==
  /\ at[p] \in {"reset", "rereset"}
  /\ CloseClient
  /\ Move(p, CASE p = "beat" -> "tick" [] p = "main" -> "done"
               [] at[p] = "rereset" -> "reset" [] OTHER -> "sleep")
  /\ UNCHANGED <<coreVars, mirrorVars, gone>>

\* A sleep takes a second or more, a local call much less: nobody wakes, and the
\* heartbeat does not tick, while another goroutine still has something to do or a closed
\* connection to notice.
Rests(q) ==
  \/ at[q] \in {"sleep", "tick", "run", "ended", "done"}
  \/ at[q] = "recv" /\ stream[q] = "live"
  \/ ~up /\ dialer # Nobody /\ at[q] \in {"dial", "redial", "get", "reget", "reset", "rereset"}

AllRest == \A q \in Members : Rests(q)

(***************************************************************************)
(* A call fails on a closed connection, on a core that is down, and when   *)
(* its context is cancelled.  A core that does not know the caller answers *)
(* FailedPrecondition: to a list at once, to a stream when it is read.     *)
(***************************************************************************)

CallFails(p) == ~fresh[p] \/ ~up \/ (gone /\ p # "main")
CallWorks(p) == ~CallFails(p)

ListOrWatchFails(p) ==
  /\ at[p] \in {"list", "page", "stream"} /\ CallFails(p)
  /\ Move(p, "reset")
  /\ UNCHANGED <<coreVars, clientVars, stream, mirrorVars, gone>>

ListRefused(p) ==
  /\ at[p] \in {"list", "page"} /\ CallWorks(p) /\ ~registered
  /\ Move(p, "reget")
  /\ UNCHANGED <<coreVars, clientVars, stream, mirrorVars, gone>>

List(p) ==
  /\ at[p] = "list" /\ CallWorks(p) /\ registered
  /\ IF p \in Paged
     THEN paging' = [paging EXCEPT ![p] = version] /\ Move(p, "page") /\ UNCHANGED shown
     ELSE shown' = [shown EXCEPT ![p] = version] /\ Move(p, "stream") /\ UNCHANGED paging
  /\ UNCHANGED <<coreVars, clientVars, stream, gone>>

\* A second page with another etag fails the list as a broken connection would.
ListPage(p) ==
  /\ at[p] = "page" /\ CallWorks(p) /\ registered
  /\ IF paging[p] = version
     THEN shown' = [shown EXCEPT ![p] = version] /\ Move(p, "stream")
     ELSE Move(p, "reset") /\ UNCHANGED shown
  /\ paging' = [paging EXCEPT ![p] = 0]
  /\ UNCHANGED <<coreVars, clientVars, stream, gone>>

OpenStream(p) ==
  /\ at[p] = "stream" /\ CallWorks(p)
  /\ stream' = [stream EXCEPT ![p] = IF registered THEN "live" ELSE "refused"]
  /\ Move(p, "recv")
  /\ UNCHANGED <<coreVars, clientVars, mirrorVars, gone>>

ReceiveVersion(p) ==
  /\ p \in Syncers /\ at[p] = "recv" /\ stream[p] = "live" /\ registered /\ ~gone
  /\ shown[p] # version
  /\ shown' = [shown EXCEPT ![p] = version]
  /\ UNCHANGED <<coreVars, clientVars, at, stream, paging, gone>>

StreamEnds(p, next) ==
  /\ at[p] = "recv"
  /\ stream' = [stream EXCEPT ![p] = "none"]
  /\ Move(p, next)
  /\ UNCHANGED <<coreVars, clientVars, mirrorVars, gone>>

\* Mutant: a stream that the core refused is waited on like one that it opened.
RefusalUnnoticed(p) == stream[p] \in {"lost", "closed"} /\ ~gone /\ StreamEnds(p, "reset")

RecvFails(p) == stream[p] \in {"lost", "refused", "closed"} /\ ~gone /\ StreamEnds(p, "reset")

\* The stream of a connection that the gateway closed ends with Unavailable or, as
\* here, with Canceled.
RecvCanceled(p) == stream[p] = "closed" /\ StreamEnds(p, "ended")
RecvCancelled(p) == gone /\ StreamEnds(p, "ended")

\* Mutant: a sleep that the context ended is followed by another attempt.
WakeAndRetry(p) ==
  /\ at[p] = "sleep"
  /\ gone \/ AllRest
  /\ Move(p, "get")
  /\ UNCHANGED <<coreVars, clientVars, stream, mirrorVars, gone>>

Wake(p) ==
  /\ at[p] = "sleep"
  /\ gone \/ AllRest
  /\ Move(p, IF gone THEN "ended" ELSE "get")
  /\ UNCHANGED <<coreVars, clientVars, stream, mirrorVars, gone>>

(***************************************************************************)
(* registerCaller, by the heartbeat or after a refusal, and the shutdown.  *)
(***************************************************************************)

Tick ==
  /\ at["beat"] = "tick"
  /\ gone \/ AllRest
  /\ Move("beat", IF gone THEN "ended" ELSE "reget")
  /\ UNCHANGED <<coreVars, clientVars, stream, mirrorVars, gone>>

Register(p) ==
  /\ at[p] = "register" /\ CallWorks(p)
  /\ registered' = TRUE
  /\ Move(p, IF p = "beat" THEN "tick" ELSE "get")
  /\ UNCHANGED <<up, version, crashes, clientVars, stream, mirrorVars, gone>>

RegisterFails(p) ==
  /\ at[p] = "register" /\ CallFails(p)
  /\ Move(p, CASE fresh[p] /\ ~up -> "rereset" [] p = "beat" -> "tick" [] OTHER -> "reset")
  /\ UNCHANGED <<coreVars, clientVars, stream, mirrorVars, gone>>

CloseRuntime ==
  /\ at["main"] = "run" /\ gone
  /\ CloseClient
  /\ Move("main", "get")
  /\ UNCHANGED <<coreVars, mirrorVars, gone>>

Unregister ==
  /\ at["main"] = "unregister"
  /\ IF CallWorks("main") THEN registered' = FALSE ELSE UNCHANGED registered
  /\ Move("main", IF fresh["main"] /\ ~up THEN "reset" ELSE "done")
  /\ UNCHANGED <<up, version, crashes, clientVars, stream, mirrorVars, gone>>

(***************************************************************************)
(* The core, and the end of the runtime's context.                         *)
(***************************************************************************)

Publish ==
  /\ at["main"] # "off" /\ up /\ version < MaxVersion
  /\ version' = version + 1
  /\ UNCHANGED <<up, registered, crashes, clientVars, at, stream, mirrorVars, gone>>

Crash ==
  /\ at["main"] # "off" /\ up /\ crashes < MaxCrashes
  /\ up' = FALSE /\ registered' = FALSE /\ crashes' = crashes + 1
  /\ stream' = [p \in Streamers |-> IF stream[p] = "live" THEN "lost" ELSE stream[p]]
  /\ UNCHANGED <<version, clientVars, at, mirrorVars, gone>>

RestartCore ==
  /\ ~up
  /\ up' = TRUE
  /\ UNCHANGED <<registered, version, crashes, clientVars, at, stream, mirrorVars, gone>>

CancelRuntime ==
  /\ at["main"] # "off" /\ ~gone
  /\ gone' = TRUE
  /\ UNCHANGED <<coreVars, clientVars, at, stream, mirrorVars>>

LockStep(p) == Get(p) \/ Dial(p) \/ Reset(p)
CallStep(p) ==
  \/ DialReady(p) \/ DialCancelled(p) \/ ListOrWatchFails(p) \/ ListRefused(p) \/ List(p)
  \/ ListPage(p) \/ OpenStream(p)
RecvStep(p) == ReceiveVersion(p) \/ RecvFails(p) \/ RecvCanceled(p) \/ RecvCancelled(p)
RegisterStep(p) == Register(p) \/ RegisterFails(p)

GSNext ==
  \/ \E p \in Members : LockStep(p) \/ CallStep(p) \/ RegisterStep(p)
  \/ \E p \in Streamers : RecvStep(p) \/ Wake(p)
  \/ RunGateway \/ Tick \/ CloseRuntime \/ Unregister \/ Publish \/ Crash \/ RestartCore \/ CancelRuntime

\* Every runnable goroutine runs, sleeps end, and a core that crashed is started again.
GSFairness ==
  /\ \A p \in Members : WF_gsVars(LockStep(p) \/ CallStep(p) \/ RegisterStep(p))
  /\ \A p \in Streamers : WF_gsVars(RecvStep(p)) /\ SF_gsVars(Wake(p))
  /\ WF_gsVars(Tick) /\ WF_gsVars(CloseRuntime) /\ WF_gsVars(Unregister) /\ WF_gsVars(RestartCore)

(***************************************************************************)
(* Properties.                                                             *)
(***************************************************************************)

\* The type invariant.
GSTypeOK ==
  /\ {up, registered, managed, gone} \subseteq BOOLEAN
  /\ version \in 1..(MaxVersion + 1) /\ crashes \in 0..MaxCrashes
  /\ dialer \in Members \cup {Nobody} /\ fresh \in [Members -> BOOLEAN]
  /\ stream \in [Streamers -> {"none", "live", "lost", "refused", "closed"}]
  /\ paging \in [Paged -> 0..(MaxVersion + 1)] /\ shown \in [Syncers -> 0..(MaxVersion + 1)]
  /\ \A p \in Members : at[p] \in {"dial", "redial"} <=> dialer = p
  /\ (\E p \in Members : fresh[p]) => managed

\* Crashes of the core, failed calls and the connections that the goroutines close
\* under each other settle: a mirror ends up showing what the core offers, unless its
\* goroutine gave up (syncer.go runSnapshotSync, core.go heartbeat).
MirrorsShow == \A p \in Syncers : gone \/ at[p] \in {"off", "ended"} \/ shown[p] = version
MirrorsCatchUp == <>[]MirrorsShow

\* A runtime that is told to stop stops: every goroutine returns, whatever it was
\* doing, and the caller is unregistered or the attempt has failed.
RuntimeOver == gone => \A p \in Members : at[p] \in {"ended", "done"}
RuntimeStops == <>[]RuntimeOver
================================================================================
