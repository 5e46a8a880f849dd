----------------------------- MODULE SnapshotWatch -----------------------------
(***************************************************************************)
(* How a change of an index reaches a gateway: the broadcast of the index  *)
(* (aggregator/core/index_core.go), the discovery service that filters it  *)
(* for one client (controlplane/discovery), the client-change events of    *)
(* the registry, the RPC stream (rpc/control_service_list_watch.go) and    *)
(* the gateway's mirror (gateway/syncer.go, gateway/tool_registry.go).     *)
(*                                                                         *)
(* Every channel on the way holds one snapshot and a sender that finds it  *)
(* full drops its own.  A snapshot is its etag; Empty, the snapshot of a   *)
(* client that sees nothing, is the one whose etag is the empty string.    *)
(* Absent stands for an index that holds no list of the client's servers:  *)
(* its breaker is open, it was removed or it has not been asked yet.       *)
(***************************************************************************)
EXTENDS Integers, Sequences

CONSTANTS
  Versions,       \* etags of non-empty snapshots
  Empty, Absent,  \* the empty snapshot; no list at all
  Nothing,        \* no snapshot
  MaxPublishes,   \* bound: snapshots the index stores
  MaxFlips,       \* bound: changes of what the client may see
  MaxWatches      \* bound: streams the gateway opens

ASSUME SnapshotWatchAssumption ==
  /\ MaxPublishes \in Nat /\ MaxFlips \in Nat /\ MaxWatches \in Nat \ {0}
  /\ Empty \notin Versions /\ Absent \notin Versions \cup {Empty}
  /\ Nothing \notin Versions \cup {Empty, Absent}

VARIABLES
  byServer,                       \* the client selects a server, not tags
  published, unsent, publishes,   \* the index: stored, not yet broadcast
  inView, flips, notice,         \* the registry; where its broadcast is
  changeSubs, closedSubs, held,   \* channels: subscribed, closed, copied for a broadcast
  crashed,                        \* a send on a closed channel
  watches, ended,                 \* streams opened; those whose context is done
  wpc, subscribed, indexQ, eventQ, last, outQ,  \* the discovery service's goroutine
  streamEtag, sending, wire,      \* guardedWatch and the stream
  gpc, mirror, lastEtag,          \* the gateway
  missed                          \* history: a newer snapshot was dropped on the way

indexVars == <<byServer, published, unsent, publishes>>
noticeVars == <<inView, flips, notice, held, crashed>>
subVars == <<changeSubs, closedSubs, watches, ended>>
watchVars == <<wpc, subscribed, indexQ, eventQ, last, outQ>>
streamVars == <<streamEtag, sending, wire>>
gatewayVars == <<gpc, mirror, lastEtag>>
swVars == <<indexVars, noticeVars, subVars, watchVars, streamVars, gatewayVars, missed>>

Snapshots == Versions \cup {Empty}
Lists == Snapshots \cup {Absent}
Streams == 1..MaxWatches

SWInit ==
  /\ byServer \in BOOLEAN /\ published = Absent /\ unsent = Nothing /\ publishes = 0
  /\ inView = TRUE /\ flips = 0 /\ notice = "idle" /\ held = {} /\ crashed = FALSE
  /\ changeSubs = {} /\ closedSubs = {} /\ watches = 0 /\ ended = {}
  /\ wpc = "off" /\ subscribed = FALSE /\ indexQ = << >> /\ eventQ = FALSE
  /\ last = Empty /\ outQ = << >>
  /\ streamEtag = Empty /\ sending = Nothing /\ wire = << >>
  /\ gpc = "list" /\ mirror = Empty /\ lastEtag = Empty /\ missed = FALSE

(***************************************************************************)
(* The index and the registry.                                             *)
(***************************************************************************)

StoreVersion(v) ==
  /\ unsent = Nothing /\ publishes < MaxPublishes /\ v # published
  /\ published' = v /\ unsent' = v /\ publishes' = publishes + 1
  /\ UNCHANGED <<byServer, noticeVars, subVars, watchVars, streamVars, gatewayVars, missed>>

\* broadcast and sendSnapshot: a full channel keeps the older snapshot.
Broadcast ==
  /\ unsent # Nothing
  /\ unsent' = Nothing
  /\ indexQ' = IF subscribed /\ indexQ = << >> THEN <<unsent>> ELSE indexQ
  /\ missed' = (missed \/ (subscribed /\ indexQ \notin {<< >>, <<unsent>>}))
  /\ UNCHANGED <<byServer, published, publishes, noticeVars, subVars, wpc, subscribed, eventQ,
                 last, outQ, streamVars, gatewayVars>>

\* The client's tags, or those of a server, change; the event is broadcast later.
ChangeVisibility ==
  /\ notice = "idle" /\ flips < MaxFlips
  /\ inView' = ~inView /\ flips' = flips + 1
  /\ notice' = "copy"
  /\ UNCHANGED <<indexVars, held, crashed, subVars, watchVars, streamVars, gatewayVars, missed>>

\* broadcastClientChange copies the channels under the lock and sends without it.
CopyChangeSubs ==
  /\ notice = "copy"
  /\ held' = changeSubs
  /\ notice' = "send"
  /\ UNCHANGED <<indexVars, inView, flips, crashed, subVars, watchVars, streamVars, gatewayVars,
                 missed>>

SendChange(i) ==
  /\ notice = "send" /\ i \in held
  /\ held' = held \ {i}
  /\ crashed' = (crashed \/ i \in closedSubs)
  /\ eventQ' = (eventQ \/ (i = watches /\ i \notin ended))
  /\ UNCHANGED <<indexVars, inView, flips, notice, subVars, wpc, subscribed, indexQ, last, outQ,
                 streamVars, gatewayVars, missed>>

ChangeSent ==
  /\ notice = "send" /\ held = {}
  /\ notice' = "idle"
  /\ UNCHANGED <<indexVars, inView, flips, held, crashed, subVars, watchVars, streamVars,
                 gatewayVars, missed>>

\* WatchClientChanges: when the stream's context is done its channel leaves the map
\* and is then closed, outside the lock.
RemoveChangeSub(i) ==
  /\ i \in ended \cap changeSubs
  /\ changeSubs' = changeSubs \ {i}
  /\ UNCHANGED <<indexVars, noticeVars, closedSubs, watches, ended, watchVars, streamVars,
                 gatewayVars, missed>>

CloseChangeSub(i) ==
  /\ i \in ended \ (changeSubs \cup closedSubs)
  /\ closedSubs' = closedSubs \cup {i}
  /\ UNCHANGED <<indexVars, noticeVars, changeSubs, watches, ended, watchVars, streamVars,
                 gatewayVars, missed>>

(***************************************************************************)
(* WatchSnapshots: subscribe, send what the index shows, then follow.      *)
(***************************************************************************)

Shown(v) == IF v = Absent THEN Empty ELSE v

\* The filtered snapshot: of a server, read from the index now; of the visible
\* servers, made from the snapshot given.
Filtered(v) == IF byServer THEN Shown(published) ELSE IF inView THEN Shown(v) ELSE Empty

\* What the gateway will mirror once everything on the way has arrived.
InFlight == IF wire # << >> THEN Head(wire) ELSE mirror
Latest ==
  IF outQ # << >> THEN Head(outQ) ELSE IF sending # Nothing THEN sending ELSE InFlight

\* Nothing is sent for a server the index has no list of.
SendFiltered(v) ==
  LET silent == byServer /\ published = Absent IN
  /\ outQ' = IF outQ = << >> /\ ~silent THEN <<Filtered(v)>> ELSE outQ
  /\ missed' = (missed \/ ((silent \/ outQ # << >>) /\ Latest # Filtered(v)))

SubscribeIndex ==
  /\ wpc = "subscribe"
  /\ subscribed' = TRUE
  /\ wpc' = "initial"
  /\ UNCHANGED <<indexVars, noticeVars, subVars, indexQ, eventQ, last, outQ, streamVars,
                 gatewayVars, missed>>

SendInitial ==
  /\ wpc = "initial"
  /\ indexQ' = IF indexQ = << >> THEN <<published>> ELSE indexQ
  /\ missed' = (missed \/ indexQ \notin {<< >>, <<published>>})
  /\ wpc' = "changes"
  /\ UNCHANGED <<indexVars, noticeVars, subVars, subscribed, eventQ, last, outQ, streamVars,
                 gatewayVars>>

SubscribeChanges ==
  /\ wpc = "changes"
  /\ changeSubs' = changeSubs \cup {watches}
  /\ wpc' = "first"
  /\ UNCHANGED <<indexVars, noticeVars, closedSubs, watches, ended, subscribed, indexQ, eventQ,
                 last, outQ, streamVars, gatewayVars, missed>>

SendFirst ==
  /\ wpc = "first"
  /\ last' = published
  /\ SendFiltered(published)
  /\ wpc' = "run"
  /\ UNCHANGED <<indexVars, noticeVars, subVars, subscribed, indexQ, eventQ, streamVars, gatewayVars>>

FollowIndex ==
  /\ wpc = "run" /\ indexQ # << >>
  /\ last' = Head(indexQ) /\ indexQ' = << >>
  /\ SendFiltered(Head(indexQ))
  /\ UNCHANGED <<indexVars, noticeVars, subVars, wpc, subscribed, eventQ, streamVars, gatewayVars>>

\* Mutant: the event is taken and nothing sent.
ChangeIgnored ==
  /\ wpc = "run" /\ eventQ
  /\ eventQ' = FALSE
  /\ UNCHANGED <<indexVars, noticeVars, subVars, wpc, subscribed, indexQ, last, outQ, streamVars,
                 gatewayVars, missed>>

FollowChange ==
  /\ wpc = "run" /\ eventQ
  /\ eventQ' = FALSE
  /\ SendFiltered(last)
  /\ UNCHANGED <<indexVars, noticeVars, subVars, wpc, subscribed, indexQ, last, streamVars,
                 gatewayVars>>

(***************************************************************************)
(* guardedWatch, which skips the snapshot whose etag was sent last, and    *)
(* the gateway: list, watch from the last etag, mirror what arrives.       *)
(***************************************************************************)

TakeUpdate ==
  LET v == Head(outQ) IN
  /\ sending = Nothing /\ outQ # << >>
  /\ outQ' = << >>
  /\ IF streamEtag # Empty /\ streamEtag = v
     THEN sending' = Nothing /\ missed' = (missed \/ InFlight # v)
     ELSE sending' = v /\ UNCHANGED missed
  /\ UNCHANGED <<indexVars, noticeVars, subVars, wpc, subscribed, indexQ, eventQ, last, streamEtag,
                 wire, gatewayVars>>

\* The stream's flow control blocks a sender whose message is not taken.
SendUpdate ==
  /\ sending # Nothing /\ wire = << >>
  /\ wire' = <<sending>> /\ streamEtag' = sending /\ sending' = Nothing
  /\ UNCHANGED <<indexVars, noticeVars, subVars, watchVars, gatewayVars, missed>>

\* applyFn returns an etag that replaces the last one unless it is empty.
Mirror(v) ==
  /\ mirror' = v
  /\ lastEtag' = IF v = Empty THEN lastEtag ELSE v

ListOnce ==
  /\ gpc = "list"
  /\ Mirror(Filtered(published))
  /\ gpc' = "watch" /\ missed' = FALSE
  /\ UNCHANGED <<indexVars, noticeVars, subVars, watchVars, streamVars>>

OpenWatch ==
  /\ gpc = "watch" /\ watches < MaxWatches
  /\ watches' = watches + 1
  /\ streamEtag' = lastEtag
  /\ wpc' = "subscribe" /\ gpc' = "recv"
  /\ UNCHANGED <<indexVars, noticeVars, changeSubs, closedSubs, ended, subscribed, indexQ, eventQ,
                 last, outQ, sending, wire, mirror, lastEtag, missed>>

ReceiveUpdate ==
  /\ gpc = "recv" /\ wire # << >>
  /\ Mirror(Head(wire))
  /\ wire' = << >>
  /\ UNCHANGED <<indexVars, noticeVars, subVars, watchVars, streamEtag, sending, gpc, missed>>

\* The stream breaks: what was on the way is lost, the watch's context is done.
BreakStream ==
  /\ gpc = "recv" /\ wpc \in {"first", "run"}
  /\ ended' = ended \cup {watches}
  /\ gpc' = "list"
  /\ wpc' = "off" /\ subscribed' = FALSE /\ indexQ' = << >> /\ eventQ' = FALSE
  /\ last' = Empty /\ outQ' = << >>
  /\ streamEtag' = Empty /\ sending' = Nothing /\ wire' = << >>
  /\ UNCHANGED <<indexVars, noticeVars, changeSubs, closedSubs, watches, mirror, lastEtag, missed>>

ServiceStep ==
  \/ SubscribeIndex \/ SendInitial \/ SubscribeChanges \/ SendFirst \/ FollowIndex \/ FollowChange
StreamStep == TakeUpdate \/ SendUpdate
GatewayStep == ListOnce \/ OpenWatch \/ ReceiveUpdate
NoticeStep == CopyChangeSubs \/ ChangeSent \/ \E i \in Streams : SendChange(i)

SWNext ==
  \/ \E v \in Lists : StoreVersion(v)
  \/ Broadcast \/ ChangeVisibility \/ NoticeStep
  \/ \E i \in Streams : RemoveChangeSub(i) \/ CloseChangeSub(i)
  \/ ServiceStep \/ StreamStep \/ GatewayStep \/ BreakStream

SWSpec == SWInit /\ [][SWNext]_swVars

(***************************************************************************)
(* Properties.                                                             *)
(***************************************************************************)

\* The type invariant.
SWTypeOK ==
  /\ {mirror, lastEtag, streamEtag} \subseteq Snapshots /\ {published, last} \subseteq Lists
  /\ unsent \in Lists \cup {Nothing} /\ sending \in Snapshots \cup {Nothing}
  /\ publishes \in 0..MaxPublishes /\ flips \in 0..MaxFlips /\ watches \in 0..MaxWatches
  /\ {byServer, inView, crashed, subscribed, eventQ, missed} \subseteq BOOLEAN
  /\ ended \cup changeSubs \cup closedSubs \cup held \subseteq Streams
  /\ \A q \in {indexQ, outQ, wire} : Len(q) <= 1
  /\ wpc \in {"off", "subscribe", "initial", "changes", "first", "run"}
  /\ gpc \in {"list", "watch", "recv"} /\ notice \in {"idle", "copy", "send"}

\* Nothing is on its way from the index or the registry to the gateway.
WatchQuiet ==
  /\ unsent = Nothing /\ notice = "idle" /\ wpc = "run" /\ ~eventQ
  /\ indexQ = << >> /\ outQ = << >> /\ sending = Nothing /\ wire = << >>

\* A gateway whose stream is quiet mirrors exactly what its client may see, whatever
\* publications, tag changes and broken streams came before, unless a sender found a
\* full channel, an etag was taken for already sent or there was no list to send
\* (index_core.go:445, discovery_service.go:115-171, control_service_list_watch.go:78).
MirrorAgreesUnlessMissed == (WatchQuiet /\ ~missed) => mirror = Filtered(published)

\* That, and the type invariant.
StreamInv == SWTypeOK /\ MirrorAgreesUnlessMissed
================================================================================
