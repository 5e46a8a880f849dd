------------------------------- MODULE LogStream -------------------------------
(***************************************************************************)
(* The log on its way to the window: the broadcaster behind the logger     *)
(* (telemetry/log_broadcaster.go), the relay that drops what is below the  *)
(* level of a stream (controlplane/observability), the session of the log  *)
(* page with its buffer and its emitter (ui/services/log_service.go); and  *)
(* the ring that keeps the last entries for diagnostics.                   *)
(*                                                                         *)
(* An entry is its place in "entries", the sequence of levels published.   *)
(***************************************************************************)
EXTENDS Integers, Sequences, SequencesExt

CONSTANTS
  MaxEntries, MaxSessions,     \* bounds: entries published, streams started
  Levels, BroadcastMin, Warn,  \* ranks of levels; the broadcaster's least; that of warnings
  SourceCap, OutCap, EmitCap,  \* capacities of the three channels of a stream
  RingCap, QueueCap            \* of the ring and of the queue before it

Sessions == 1..MaxSessions

ASSUME LogStreamAssumption ==
  /\ {MaxEntries, MaxSessions, BroadcastMin, Warn} \subseteq Nat /\ Levels \subseteq Nat /\ Warn >= BroadcastMin
  /\ {SourceCap, OutCap, EmitCap, RingCap, QueueCap} \subseteq Nat \ {0}

VARIABLES
  entries,
  logSession, minLevel, sessionCancelled,   \* the present session, 0 is nil; levels; contexts
  subs, source, since,               \* the broadcaster; entries there were at Subscribe
  relay, held, out,                  \* the goroutine of streamLogs, its entry, its channel
  handler, emitCh, emitted, \* the goroutines of a session, what the window got
  overflown,                         \* ghost: sessions that missed an entry
  queue, ring, next, size, added     \* the diagnostics buffer; ghost: what reached the ring

sessionVars == <<logSession, minLevel, sessionCancelled>>
streamVars == <<subs, source, since, relay, held, out>>
emitVars == <<handler, emitCh, emitted>>
logVars == <<entries, sessionVars, streamVars, emitVars, overflown>>
hubVars == <<queue, ring, next, size, added>>

PerSession(x) == [s \in Sessions |-> x]

LogInit ==
  /\ entries = << >> /\ logSession = 0 /\ minLevel = PerSession(0) /\ sessionCancelled = {}
  /\ subs = {} /\ source = PerSession(<< >>) /\ since = PerSession(0)
  /\ relay = PerSession("none") /\ held = PerSession(0) /\ out = PerSession(<< >>)
  /\ handler = PerSession("none") /\ emitCh = PerSession(<< >>)
  /\ emitted = PerSession(<< >>) /\ overflown = {}

HubInit == queue = << >> /\ ring = [i \in 1..RingCap |-> 0] /\ next = 1 /\ size = 0 /\ added = << >>

(***************************************************************************)
(* The broadcaster.                                                        *)
(***************************************************************************)

\* An entry goes to every subscriber that has room; the others miss it, as "missed" do.
Published(level, missed) ==
  LET full == {s \in subs : Len(source[s]) = SourceCap} IN
  IF Len(entries) = MaxEntries THEN overflown' = overflown \cup missed /\ UNCHANGED <<entries, source>>
  ELSE
    /\ entries' = Append(entries, level)
    /\ source' = [s \in Sessions |-> IF s \in subs \ full THEN Append(source[s], Len(entries')) ELSE source[s]]
    /\ overflown' = overflown \cup full \cup missed

Write ==
  /\ Len(entries) < MaxEntries
  /\ \E level \in Levels : level >= BroadcastMin /\ Published(level, {})
  /\ UNCHANGED <<sessionVars, subs, since, relay, held, out, emitVars>>

\* Mutant: the channel is closed, but stays in the map.
SourceStaysListed(s) ==
  /\ s \in subs /\ s \in sessionCancelled /\ relay[s] = "recv"
  /\ relay' = [relay EXCEPT ![s] = "done"]
  /\ UNCHANGED <<entries, sessionVars, subs, source, since, held, out, emitVars, overflown>>

\* The context is done: the channel is deleted and closed in one critical section.
SourceCloses(s) ==
  /\ s \in subs /\ s \in sessionCancelled
  /\ subs' = subs \ {s}
  /\ UNCHANGED <<entries, sessionVars, source, since, relay, held, out, emitVars, overflown>>

SourceClosed(s) == relay[s] # "none" /\ s \notin subs

(***************************************************************************)
(* Sessions: a new one takes the place of the present one.                 *)
(***************************************************************************)

StartLogStream(s) ==
  /\ handler[s] = "none" /\ \A q \in Sessions : q < s => handler[q] # "none"
  /\ \E level \in Levels : minLevel' = [minLevel EXCEPT ![s] = level]
  /\ logSession' = s /\ sessionCancelled' = sessionCancelled \cup ({logSession} \ {0})
  /\ handler' = [handler EXCEPT ![s] = "subscribe"]
  /\ UNCHANGED <<entries, streamVars, emitCh, emitted, overflown>>

\* StreamLogsAllServers; then the emitter and the handler are started.
Subscribe(s) ==
  /\ handler[s] = "subscribe"
  /\ subs' = subs \cup {s} /\ since' = [since EXCEPT ![s] = Len(entries)]
  /\ relay' = [relay EXCEPT ![s] = "recv"]
  /\ handler' = [handler EXCEPT ![s] = "recv"]
  /\ UNCHANGED <<entries, sessionVars, source, held, out, emitCh, emitted, overflown>>

StopLogStream ==
  /\ logSession \notin sessionCancelled \cup {0}
  /\ sessionCancelled' = sessionCancelled \cup {logSession}
  /\ UNCHANGED <<entries, logSession, minLevel, streamVars, emitVars, overflown>>

(***************************************************************************)
(* The relay.                                                              *)
(***************************************************************************)

relayRest == <<entries, sessionVars, subs, since, emitVars, overflown>>

RelayTakes(s) ==
  /\ relay[s] = "recv" /\ source[s] # << >>
  /\ source' = [source EXCEPT ![s] = Tail(source[s])]
  /\ IF entries[Head(source[s])] < minLevel[s] THEN UNCHANGED <<relay, held>>
     ELSE relay' = [relay EXCEPT ![s] = "send"] /\ held' = [held EXCEPT ![s] = Head(source[s])]
  /\ UNCHANGED <<out, relayRest>>

RelaySends(s) ==
  /\ relay[s] = "send" /\ Len(out[s]) < OutCap
  /\ out' = [out EXCEPT ![s] = Append(out[s], held[s])]
  /\ relay' = [relay EXCEPT ![s] = "recv"] /\ held' = [held EXCEPT ![s] = 0]
  /\ UNCHANGED <<source, relayRest>>

RelayEnds(s) ==
  /\ \/ relay[s] \in {"recv", "send"} /\ s \in sessionCancelled
     \/ relay[s] = "recv" /\ source[s] = << >> /\ SourceClosed(s)
  /\ relay' = [relay EXCEPT ![s] = "done"] /\ held' = [held EXCEPT ![s] = 0]
  /\ UNCHANGED <<source, out, relayRest>>

(***************************************************************************)
(* The handler and the emitter of a session.                               *)
(***************************************************************************)

handlerRest == <<sessionVars, subs, since, relay, held, emitted>>

\* An entry that finds the buffer full is dropped, and the drop is logged.
HandlerTakes(s) ==
  /\ handler[s] = "recv" /\ out[s] # << >>
  /\ out' = [out EXCEPT ![s] = Tail(out[s])]
  /\ IF Len(emitCh[s]) < EmitCap
     THEN emitCh' = [emitCh EXCEPT ![s] = Append(emitCh[s], Head(out[s]))] /\ UNCHANGED <<entries, source, overflown>>
     ELSE Published(Warn, {s}) /\ UNCHANGED emitCh
  /\ UNCHANGED <<handler, handlerRest>>

\* The session is over: it clears the field if it is still its own, and closes the buffer.
FinishLogSession(s) ==
  /\ handler[s] = "recv"
  /\ s \in sessionCancelled \/ (relay[s] = "done" /\ out[s] = << >>)
  /\ handler' = [handler EXCEPT ![s] = "wait"]
  /\ logSession' = IF logSession = s THEN 0 ELSE logSession
  /\ UNCHANGED <<entries, minLevel, sessionCancelled, streamVars, emitCh, emitted, overflown>>

EmitLogEntry(s) ==
  /\ handler[s] \in {"recv", "wait"} /\ emitCh[s] # << >>
  /\ emitted' = [emitted EXCEPT ![s] = Append(emitted[s], Head(emitCh[s]))]
  /\ emitCh' = [emitCh EXCEPT ![s] = Tail(emitCh[s])]
  /\ UNCHANGED <<entries, sessionVars, streamVars, handler, overflown>>

\* Mutant: the session ends with what is in its buffer.
EmitterLeaves(s) == handler[s] = "wait"

\* The emitter ends when the closed buffer is empty.
EmitterLast(s) == handler[s] = "wait" /\ emitCh[s] = << >>

SessionDone(s) ==
  /\ EmitterLast(s)
  /\ handler' = [handler EXCEPT ![s] = "done"]
  /\ UNCHANGED <<entries, sessionVars, streamVars, emitCh, emitted, overflown>>

(***************************************************************************)
(* The buffer for diagnostics.                                             *)
(***************************************************************************)

\* An entry that finds the queue full is counted as dropped.
BufferAdd ==
  /\ Len(added) + Len(queue) < MaxEntries /\ Len(queue) < QueueCap
  /\ queue' = Append(queue, Len(added) + Len(queue) + 1)
  /\ UNCHANGED <<ring, next, size, added>>

\* Mutant: the ring counts one entry less than it holds.
RingAddShort ==
  /\ ring' = [ring EXCEPT ![next] = Head(queue)]
  /\ next' = (next % RingCap) + 1
  /\ size' = IF size < RingCap - 1 THEN size + 1 ELSE size

RingAdd ==
  /\ ring' = [ring EXCEPT ![next] = Head(queue)]
  /\ next' = (next % RingCap) + 1
  /\ size' = IF size < RingCap THEN size + 1 ELSE size

BufferDrain ==
  /\ queue # << >>
  /\ RingAdd
  /\ queue' = Tail(queue) /\ added' = Append(added, Head(queue))

\* Snapshot: the oldest is where the next one goes, once the ring is full.
Snapshot == IF size < RingCap THEN SubSeq(ring, 1, size) ELSE SubSeq(ring, next, RingCap) \o SubSeq(ring, 1, next - 1)

(***************************************************************************)
(* The specification.                                                      *)
(***************************************************************************)

StreamStep(s) ==
  \/ Subscribe(s) \/ SourceCloses(s) \/ RelayTakes(s) \/ RelaySends(s) \/ RelayEnds(s) \/ HandlerTakes(s)
  \/ FinishLogSession(s) \/ EmitLogEntry(s) \/ SessionDone(s)

LogNext == Write \/ StopLogStream \/ \E s \in Sessions : StartLogStream(s) \/ StreamStep(s)
HubNext == BufferAdd \/ BufferDrain

\* The goroutines of a session go on, each on its own; so does the one that waits for its
\* context to be done.
LogFairness ==
  \A s \in Sessions :
    /\ WF_logVars(Subscribe(s)) /\ WF_logVars(FinishLogSession(s)) /\ WF_logVars(SessionDone(s))
    /\ WF_logVars(RelayEnds(s)) /\ WF_logVars(EmitLogEntry(s))

LogSpec == LogInit /\ [][LogNext]_logVars /\ LogFairness
HubSpec == HubInit /\ [][HubNext]_hubVars

(***************************************************************************)
(* Properties.                                                             *)
(***************************************************************************)

\* The type invariant.
LSTypeOK ==
  /\ Len(entries) <= MaxEntries /\ logSession \in 0..MaxSessions /\ sessionCancelled \cup subs \cup overflown \subseteq Sessions
  /\ \A s \in Sessions :
       /\ relay[s] \in {"none", "recv", "send", "done"}
       /\ handler[s] \in {"none", "subscribe", "recv", "wait", "done"}
       /\ Len(source[s]) <= SourceCap /\ Len(out[s]) <= OutCap /\ Len(emitCh[s]) <= EmitCap
  /\ next \in 1..RingCap /\ size \in 0..RingCap

\* The log of a session on its way, from the window back to the broadcaster.
InFlight(s) == emitted[s] \o emitCh[s] \o out[s] \o (IF held[s] = 0 THEN << >> ELSE <<held[s]>>) \o source[s]


\* What a session is to show: published since it subscribed, and of its level.
Wanted(s, k) == k > since[s] /\ entries[k] >= minLevel[s]

\* What a session shows is in the order of the log, nothing twice and nothing below its
\* level, and as long as no buffer was full and nobody stopped it nothing is left out.
LogIsFaithful ==
  \A s \in Sessions :
    /\ \A i, j \in DOMAIN InFlight(s) : i < j => InFlight(s)[i] < InFlight(s)[j]
    /\ \A k \in ToSet(emitted[s]) : k \in DOMAIN entries /\ Wanted(s, k)
    /\ (relay[s] # "none" /\ s \notin overflown \cup sessionCancelled) =>
         {k \in ToSet(InFlight(s)) : Wanted(s, k)} = {k \in DOMAIN entries : Wanted(s, k)}

\* The session the page would stop is the last one that was started, until it is over, and
\* every other is cancelled or over: two streams never go on side by side.
OneSession ==
  \A s \in Sessions : handler[s] \in {"subscribe", "recv"} => s = logSession \/ s \in sessionCancelled

\* Nothing is sent to a channel that may be closed, or received by nobody: a subscriber is
\* listed only while its relay or its context can still give it up.
ListedAreLive == \A s \in subs : relay[s] = "done" => s \in sessionCancelled

\* A snapshot for diagnostics holds the last entries that were added, in their order.
SnapshotIsLatest ==
  Snapshot = SubSeq(added, IF Len(added) > RingCap THEN Len(added) - RingCap + 1 ELSE 1, Len(added))

\* The four, and the type invariant.
LogInv == LSTypeOK /\ LogIsFaithful /\ OneSession /\ ListedAreLive /\ SnapshotIsLatest

\* A session that was stopped or replaced comes to its end, and shows before what it had
\* taken into its buffer.
SessionsOver == \A s \in sessionCancelled : handler[s] = "done" /\ emitCh[s] = << >>
SessionsEnd == <>[]SessionsOver
================================================================================
