----------------------------- MODULE ServersProofs -----------------------------
(***************************************************************************)
(* What lies between the scheduler and a server, for any number of calls,  *)
(* instances, specs and goroutines: the connection never loses the answer  *)
(* of a call, the lifecycle never loses a process, and the bootstrap       *)
(* reports what it did.                                                    *)
(***************************************************************************)
EXTENDS ServerConnection, InstanceProcess, MetadataBootstrap, FiniteSetTheorems, TLAPS

--------------------------------------------------------------------------------
(* The connection to a server.                                             *)

\* The table files every call under its own id; a call with an id that no other
\* has receives its own reply or the failure of the connection.
TableInv ==
  /\ \A i \in Ids : pending[i] # NoCall => Id(pending[i]) = i
  /\ \A c \in Own : inbox[c] \in {NoCall, c, "failed"}

\* From its registration on such a call is in the table until a result is there.
RegisteredInv ==
  \A c \in Own : call[c] = "write" => inbox[c] # NoCall \/ (~failed /\ pending[c] = c)

ConnectionStrong == ConnectionInv /\ TableInv /\ RegisteredInv

\* An id of its own is nobody else's.
LEMMA OwnId ==
  ASSUME NEW c \in Own
  PROVE  /\ Id(c) = c /\ c \in Ids /\ c \in Calls /\ c # NoCall
         /\ \A d \in Calls : Id(d) = c <=> d = c
BY ServerConnectionAssumption DEF Own, Id, Ids

\* No call is open at first.
LEMMA ConnectionInit == SCInit => ConnectionStrong
<1> SUFFICES ASSUME SCInit PROVE ConnectionStrong
  OBVIOUS
<1> USE ServerConnectionAssumption DEF SCInit, Returns, Own
<1>1. SCTypeOK
  <2>1. asks \in 0..MaxAsks
    OBVIOUS
  <2>2. /\ call \in [Calls -> {"new", "register", "write", "wait", "done"}]
        /\ inbox \in [Calls -> Calls \cup {NoCall, "failed"}]
        /\ outcome \in [Calls -> Calls \cup Returns]
        /\ pending \in [Ids -> Calls \cup {NoCall}]
    OBVIOUS
  <2> QED
    BY <2>1, <2>2 DEF SCTypeOK
<1>2. WaiterIsReachable /\ OwnReply
  BY DEF WaiterIsReachable, OwnReply
<1>3. TableInv /\ RegisteredInv
  BY DEF TableInv, RegisteredInv
<1> QED
  BY <1>1, <1>2, <1>3 DEF ConnectionStrong, ConnectionInv

\* A step that gives nobody a result and leaves the table alone.
LEMMA TableKept ==
  ASSUME ConnectionStrong, SCTypeOK',
         UNCHANGED <<inbox, pending, failed>>,
         asked \subseteq asked',
         \A c \in Own : /\ call'[c] = "write" => call[c] = "write"
                        /\ call'[c] = "wait" => call[c] = "wait" \/ (call[c] = "write" /\ c \in asked')
                        /\ outcome'[c] \in Calls => outcome'[c] \in {outcome[c], inbox[c]}
  PROVE  ConnectionStrong'
<1>1. TableInv'
  BY DEF ConnectionStrong, TableInv
<1>2. RegisteredInv'
  BY DEF ConnectionStrong, RegisteredInv
<1>3. WaiterIsReachable'
  BY DEF ConnectionStrong, ConnectionInv, RegisteredInv, WaiterIsReachable
<1>4. OwnReply'
  BY ServerConnectionAssumption
     DEF ConnectionStrong, ConnectionInv, OwnReply, TableInv, Returns
<1> QED
  BY <1>1, <1>2, <1>3, <1>4 DEF ConnectionStrong, ConnectionInv

\* A step in which one call leaves the table and returns without a reply.
LEMMA CallGivesUp ==
  ASSUME ConnectionStrong, SCTypeOK', NEW c \in Calls, NEW o \in Returns,
         RemovePending(c), Return(c, o), UNCHANGED <<inbox, failed, asked>>
  PROVE  ConnectionStrong'
<1>1. SCTypeOK
  BY DEF ConnectionStrong, ConnectionInv
<1>2. /\ \A d \in Calls : d # c => call'[d] = call[d] /\ outcome'[d] = outcome[d]
      /\ call'[c] = "done" /\ outcome'[c] = o
      /\ \A i \in Ids : pending'[i] = pending[i] \/ (pending'[i] = NoCall /\ i = Id(c))
  BY <1>1 DEF Return, RemovePending, SCTypeOK
<1>3. \A d \in Own : d # c => pending'[d] = pending[d]
  BY <1>2, OwnId
<1>4. TableInv'
  BY <1>2 DEF ConnectionStrong, TableInv
<1>5. RegisteredInv' /\ WaiterIsReachable'
  BY <1>2, <1>3
     DEF ConnectionStrong, ConnectionInv, RegisteredInv, WaiterIsReachable, Own
<1>6. OwnReply'
  BY <1>2, ServerConnectionAssumption DEF ConnectionStrong, ConnectionInv, OwnReply, Own
<1> QED
  BY <1>4, <1>5, <1>6 DEF ConnectionStrong, ConnectionInv

\* failPending.
LEMMA FailPendingKeeps ==
  ASSUME ConnectionStrong, SCTypeOK', FailPending, UNCHANGED <<callVars, asked>>
  PROVE  ConnectionStrong'
<1> USE ServerConnectionAssumption
<1>1. \A c \in Calls : inbox'[c] = IF ~failed /\ pending[Id(c)] = c THEN "failed" ELSE inbox[c]
  BY DEF FailPending
<1>2. "failed" # NoCall /\ failed' /\ pending' = pending
  BY DEF FailPending, Returns
<1>3. TableInv'
  BY <1>1, <1>2 DEF ConnectionStrong, TableInv, Own
<1>4. RegisteredInv'
  BY <1>1, <1>2, OwnId DEF ConnectionStrong, RegisteredInv, callVars
<1>5. WaiterIsReachable'
  BY <1>1, <1>2, OwnId DEF ConnectionStrong, ConnectionInv, WaiterIsReachable, callVars
<1>6. OwnReply'
  BY DEF ConnectionStrong, ConnectionInv, OwnReply, callVars
<1> QED
  BY <1>3, <1>4, <1>5, <1>6 DEF ConnectionStrong, ConnectionInv

\* The type invariant.
LEMMA ConnectionTypes == SCTypeOK /\ [SCNext]_scVars => SCTypeOK'
<1> SUFFICES ASSUME SCTypeOK, [SCNext]_scVars PROVE SCTypeOK'
  OBVIOUS
<1> USE ServerConnectionAssumption DEF SCTypeOK, callVars, tableVars, Return, RemovePending
<1>1. \A c \in Calls : Id(c) \in Ids
  BY DEF Ids
<1>2. ASSUME NEW c \in Calls, CheckClosed(c) PROVE SCTypeOK'
  BY <1>2 DEF CheckClosed, Returns
<1>3. ASSUME NEW c \in Calls, AddPending(c) PROVE SCTypeOK'
  BY <1>1, <1>3 DEF AddPending, Returns
<1>4. ASSUME NEW c \in Calls, Write(c) PROVE SCTypeOK'
  BY <1>4 DEF Write
<1>5. ASSUME NEW c \in Calls, WriteFails(c) PROVE SCTypeOK'
  BY <1>1, <1>5 DEF WriteFails, Returns
<1>6. ASSUME NEW c \in Calls, Receive(c) PROVE SCTypeOK'
  BY <1>6 DEF Receive, Returns
<1>7. ASSUME NEW c \in Calls, Timeout(c) PROVE SCTypeOK'
  BY <1>1, <1>7 DEF Timeout, Returns
<1>8. ASSUME NEW c \in Calls, ReadReply(c) PROVE SCTypeOK'
  BY <1>1, <1>8 DEF ReadReply, Addressee
<1>9. CASE ReadAsk
  BY <1>9 DEF ReadAsk
<1>10. CASE ServeAsk \/ ServerGone \/ CloseConn
  BY <1>10 DEF ServeAsk, ServerGone, CloseConn
<1>11. CASE ReadFails \/ CloseFails
  BY <1>11 DEF ReadFails, CloseFails, FailPending
<1>12. CASE UNCHANGED scVars
  BY <1>12 DEF scVars
<1> QED
  BY <1>2, <1>3, <1>4, <1>5, <1>6, <1>7, <1>8, <1>9, <1>10, <1>11, <1>12
     DEF SCNext, CallStep

\* Every step of callers, the read loop and Close keeps the connection sound.
LEMMA ConnectionStep == ConnectionStrong /\ [SCNext]_scVars => ConnectionStrong'
<1> SUFFICES ASSUME ConnectionStrong, [SCNext]_scVars PROVE ConnectionStrong'
  OBVIOUS
<1>1. SCTypeOK /\ SCTypeOK'
  BY ConnectionTypes DEF ConnectionStrong, ConnectionInv
<1>2. ASSUME NEW c \in Calls, CheckClosed(c) PROVE ConnectionStrong'
  <2>1. /\ UNCHANGED <<inbox, pending, failed, asked>>
        /\ \A d \in Own : d # c => call'[d] = call[d] /\ outcome'[d] = outcome[d]
        /\ call'[c] \in {"register", "done"}
        /\ outcome'[c] \in {"closed", outcome[c]}
    BY <1>1, <1>2 DEF CheckClosed, Return, SCTypeOK, tableVars, Own
  <2>2. "closed" \notin Calls
    BY ServerConnectionAssumption DEF Returns
  <2> QED
    BY <1>1, <2>1, <2>2, TableKept
<1>3. ASSUME NEW c \in Calls, AddPending(c) PROVE ConnectionStrong'
  <2>1. CASE failed
    <3>1. /\ UNCHANGED <<inbox, pending, failed, asked>>
          /\ \A d \in Own : d # c => call'[d] = call[d] /\ outcome'[d] = outcome[d]
          /\ call'[c] = "done" /\ outcome'[c] = "closed"
      BY <1>1, <1>3, <2>1 DEF AddPending, Return, SCTypeOK, Own
    <3>2. "closed" \notin Calls
      BY ServerConnectionAssumption DEF Returns
    <3> QED
      BY <1>1, <3>1, <3>2, TableKept
  <2>2. CASE ~failed
    <3>1. /\ UNCHANGED <<inbox, failed, asked, outcome>> /\ ~failed
          /\ \A d \in Calls : d # c => call'[d] = call[d]
          /\ call'[c] = "write"
          /\ \A i \in Ids : pending'[i] = IF i = Id(c) THEN c ELSE pending[i]
      BY <1>1, <1>3, <2>2 DEF AddPending, SCTypeOK, Ids
    <3>2. \A d \in Own : pending'[d] = IF d = c THEN c ELSE pending[d]
      BY <3>1, OwnId
    <3>3. TableInv'
      BY <3>1 DEF ConnectionStrong, TableInv
    <3>4. RegisteredInv'
      BY <3>1, <3>2 DEF ConnectionStrong, RegisteredInv, Own
    <3>5. WaiterIsReachable' /\ OwnReply'
      BY <3>1, <3>2
         DEF ConnectionStrong, ConnectionInv, WaiterIsReachable, OwnReply, Own
    <3> QED
      BY <1>1, <3>3, <3>4, <3>5 DEF ConnectionStrong, ConnectionInv
  <2> QED
    BY <2>1, <2>2
<1>4. ASSUME NEW c \in Calls, Write(c) PROVE ConnectionStrong'
  <2>1. /\ UNCHANGED <<inbox, pending, failed, outcome>> /\ asked' = asked \cup {c}
        /\ \A d \in Own : d # c => call'[d] = call[d]
        /\ call[c] = "write" /\ call'[c] = "wait"
    BY <1>1, <1>4 DEF Write, SCTypeOK, tableVars, Own
  <2> QED
    BY <1>1, <2>1, TableKept
<1>5. ASSUME NEW c \in Calls, WriteFails(c) PROVE ConnectionStrong'
  BY <1>1, <1>5, CallGivesUp DEF WriteFails, Returns
<1>6. ASSUME NEW c \in Calls, Receive(c) PROVE ConnectionStrong'
  <2>1. /\ UNCHANGED <<inbox, pending, failed, asked>>
        /\ \A d \in Own : d # c => call'[d] = call[d] /\ outcome'[d] = outcome[d]
        /\ call'[c] = "done" /\ outcome'[c] = inbox[c]
    BY <1>1, <1>6 DEF Receive, Return, SCTypeOK, tableVars, Own
  <2> QED
    BY <1>1, <2>1, TableKept
<1>7. ASSUME NEW c \in Calls, Timeout(c) PROVE ConnectionStrong'
  BY <1>1, <1>7, CallGivesUp DEF Timeout, Returns
<1>8. ASSUME NEW c \in Calls, ReadReply(c) PROVE ConnectionStrong'
  <2>1. UNCHANGED <<call, outcome, failed>> /\ asked' = asked \ {c} /\ Id(c) \in Ids
    BY <1>8 DEF ReadReply, callVars, Ids
  <2>2. CASE failed
    <3>1. UNCHANGED <<inbox, pending>>
      BY <1>8, <2>2 DEF ReadReply
    <3> QED
      BY <1>1, <2>1, <2>2, <3>1 DEF ConnectionStrong, ConnectionInv, WaiterIsReachable,
         OwnReply, TableInv, RegisteredInv
  <2>3. CASE ~failed
    <3>1. /\ \A i \in Ids : pending'[i] = IF i = Id(c) THEN NoCall ELSE pending[i]
          /\ \A d \in Calls :
               inbox'[d] = IF pending[Id(c)] = d /\ d # NoCall THEN c ELSE inbox[d]
      BY <1>1, <1>8, <2>1, <2>3, ServerConnectionAssumption
         DEF ReadReply, Addressee, SCTypeOK
    <3>2. \A d \in Own : pending[Id(c)] = d => c = d
      BY <2>1, OwnId DEF ConnectionStrong, TableInv
    <3>3. \A d \in Own : /\ inbox'[d] = inbox[d] \/ (inbox'[d] = d /\ d # NoCall)
                         /\ d = c /\ pending[d] = d => inbox'[d] = d
                         /\ d # c => pending'[d] = pending[d]
      BY <3>1, <3>2, OwnId
    <3>4. TableInv'
      BY <3>1, <3>3 DEF ConnectionStrong, TableInv
    <3>5. RegisteredInv' /\ WaiterIsReachable' /\ OwnReply'
      BY <2>1, <3>3, OwnId DEF ConnectionStrong, ConnectionInv, RegisteredInv,
         WaiterIsReachable, OwnReply
    <3> QED
      BY <1>1, <3>4, <3>5 DEF ConnectionStrong, ConnectionInv
  <2> QED
    BY <2>2, <2>3
<1>9. CASE ReadAsk \/ ServeAsk \/ ServerGone \/ CloseConn
  BY <1>1, <1>9, TableKept
     DEF ReadAsk, ServeAsk, ServerGone, CloseConn, callVars, tableVars
<1>10. CASE ReadFails \/ CloseFails
  BY <1>1, <1>10, FailPendingKeeps DEF ReadFails, CloseFails
<1>11. CASE UNCHANGED scVars
  BY <1>1, <1>11, TableKept DEF scVars, callVars, tableVars
<1> QED
  BY <1>2, <1>3, <1>4, <1>5, <1>6, <1>7, <1>8, <1>9, <1>10, <1>11 DEF SCNext, CallStep

\* A call that waits can always be reached, and gets its own reply, as long as no
\* other call has its id (connection.go:73-118, 137-146, 155-190, 292-308).
THEOREM CallsAreAnswered == SCSpec => []ConnectionInv
<1>1. ConnectionStrong => ConnectionInv
  BY DEF ConnectionStrong
<1> QED
  BY <1>1, ConnectionInit, ConnectionStep, PTL DEF SCSpec

--------------------------------------------------------------------------------
(* The life of an instance.                                                *)

\* What a start has made when it stands at each of its steps.
StartMakes ==
  \A i \in Instances :
    /\ start[i] \in {"none", "refused", "launch"} => proc[i] = "none"
    /\ start[i] \in {"none", "refused", "launch", "connect"} => conn[i] = "none"
    /\ start[i] = "stop" => conn[i] # "open"
    /\ start[i] = "failed" => proc[i] # "alive" /\ conn[i] # "open"
    /\ start[i] = "ready" /\ i \notin tables /\ (\A s \in Stoppers : stops[s] # i)
         => conn[i] # "open" /\ Ended(i)

\* Retries are left until the last initialize has failed.
RetriesLeft ==
  \A i \in Instances :
    start[i] \in {"none", "launch", "connect", "initialize"} => attempt[i] < MaxAttempts

\* The tables hold what was published, a stop works on what it took from them.
StopsTake ==
  /\ \A i \in tables : start[i] \in {"detach", "return", "ready"}
  /\ \A i \in Instances : start[i] \in {"detach", "return"} => i \in tables
  /\ \A s \in Stoppers :
       /\ stopper[s] = "idle" <=> stops[s] = NoInstance
       /\ stops[s] # NoInstance => start[stops[s]] = "ready"
       /\ stopper[s] = "stop" => conn[stops[s]] # "open"

\* A callback that will cancel has read the flag before it was set.
BridgeKnows ==
  \A i \in Instances :
    start[i] \in {"return", "ready"} =>
      i \in detached /\ (bridge[i] = "cancel" => i \in crossed)

ProcessStrong == IPTypeOK /\ RetriesLeft /\ StartMakes /\ StopsTake /\ BridgeKnows

\* Nothing has been started.
LEMMA ProcessInit == IPInit => ProcessStrong
<1> SUFFICES ASSUME IPInit PROVE ProcessStrong
  OBVIOUS
<1> USE InstanceProcessAssumption DEF IPInit
<1>1. IPTypeOK
  BY DEF IPTypeOK
<1>2. RetriesLeft /\ StartMakes /\ StopsTake /\ BridgeKnows
  BY DEF RetriesLeft, StartMakes, StopsTake, BridgeKnows
<1> QED
  BY <1>1, <1>2 DEF ProcessStrong

\* A step that concerns one instance only, and no stop.
LEMMA OneInstance ==
  ASSUME ProcessStrong, IPTypeOK', RetriesLeft', NEW i \in Instances,
         UNCHANGED stopVars, appCtx' => appCtx,
         \A j \in Instances \ {i} :
           /\ start'[j] = start[j] /\ startCtx'[j] = startCtx[j] /\ bridge'[j] = bridge[j]
           /\ proc'[j] = proc[j] /\ conn'[j] = conn[j]
           /\ j \in detached' <=> j \in detached
           /\ j \in crossed' <=> j \in crossed
           /\ j \in tables' <=> j \in tables,
         start[i] = "ready" => start'[i] = "ready",
         conn[i] # "open" /\ (\E s \in Stoppers : stops[s] = i) => conn'[i] # "open",
         i \in tables' => start'[i] \in {"detach", "return", "ready"},
         start'[i] \in {"detach", "return"} => i \in tables',
         start'[i] \in {"return", "ready"} =>
           i \in detached' /\ (bridge'[i] = "cancel" => i \in crossed'),
         start'[i] \in {"none", "refused", "launch"} => proc'[i] = "none",
         start'[i] \in {"none", "refused", "launch", "connect"} => conn'[i] = "none",
         start'[i] = "stop" => conn'[i] # "open",
         start'[i] = "failed" => proc'[i] # "alive" /\ conn'[i] # "open",
         start'[i] = "ready" /\ i \notin tables' /\ (\A s \in Stoppers : stops[s] # i)
           => conn'[i] # "open" /\ Ended(i)'
  PROVE  ProcessStrong'
<1>1. StartMakes'
  <2> SUFFICES ASSUME NEW j \in Instances
               PROVE  /\ start'[j] \in {"none", "refused", "launch"} => proc'[j] = "none"
                      /\ start'[j] \in {"none", "refused", "launch", "connect"} => conn'[j] = "none"
                      /\ start'[j] = "stop" => conn'[j] # "open"
                      /\ start'[j] = "failed" => proc'[j] # "alive" /\ conn'[j] # "open"
                      /\ start'[j] = "ready" /\ j \notin tables'
                           /\ (\A s \in Stoppers : stops'[s] # j)
                           => conn'[j] # "open" /\ Ended(j)'
    BY DEF StartMakes
  <2>1. CASE j = i
    BY <2>1 DEF stopVars
  <2>2. CASE j # i
    BY <2>2 DEF ProcessStrong, StartMakes, stopVars, Ended
  <2> QED
    BY <2>1, <2>2
<1>2. StopsTake'
  <2>1. /\ \A j \in tables' : start'[j] \in {"detach", "return", "ready"}
        /\ \A j \in Instances : start'[j] \in {"detach", "return"} => j \in tables'
    BY DEF ProcessStrong, StopsTake, IPTypeOK
  <2>2. ASSUME NEW s \in Stoppers
        PROVE  /\ stopper'[s] = "idle" <=> stops'[s] = NoInstance
               /\ stops'[s] # NoInstance => start'[stops'[s]] = "ready"
               /\ stopper'[s] = "stop" => conn'[stops'[s]] # "open"
    <3>1. stops' = stops /\ stopper' = stopper /\ stops[s] \in Instances \cup {NoInstance}
      BY DEF stopVars, ProcessStrong, IPTypeOK
    <3>2. CASE stops[s] = i
      BY <3>1, <3>2 DEF ProcessStrong, StopsTake
    <3>3. CASE stops[s] # i
      BY <3>1, <3>3 DEF ProcessStrong, StopsTake
    <3> QED
      BY <3>2, <3>3
  <2> QED
    BY <2>1, <2>2 DEF StopsTake
<1>3. BridgeKnows'
  BY DEF ProcessStrong, BridgeKnows
<1> QED
  BY <1>1, <1>2, <1>3 DEF ProcessStrong

\* The type invariant.
LEMMA ProcessTypes == IPTypeOK /\ RetriesLeft /\ [IPNext]_ipVars => IPTypeOK' /\ RetriesLeft'
<1> SUFFICES ASSUME IPTypeOK, RetriesLeft, [IPNext]_ipVars PROVE IPTypeOK' /\ RetriesLeft'
  OBVIOUS
<1> USE InstanceProcessAssumption DEF IPTypeOK, RetriesLeft, startVars, ctxVars, stopVars, To,
      CancelStart, RemoveBridge, Kill,
        Fail, Starting
<1>1. ASSUME NEW i \in Instances, StartInstance(i) PROVE IPTypeOK' /\ RetriesLeft'
  BY <1>1 DEF StartInstance
<1>2. ASSUME NEW i \in Instances, Launch(i) PROVE IPTypeOK' /\ RetriesLeft'
  <2>1. RetriesLeft'
    BY <1>2 DEF Launch
  <2>2. start' \in [Instances -> Starting \cup {"none", "refused", "failed", "ready"}]
    BY <1>2 DEF Launch
  <2>3. startCtx' \in [Instances -> BOOLEAN]
    BY <1>2 DEF Launch
  <2>4. bridge' \in [Instances -> {"none", "armed", "removed", "check", "cancel", "done"}]
    BY <1>2, SMTT(30) DEF Launch
  <2>5. proc' \in [Instances -> {"none", "alive", "dead"}]
    BY <1>2 DEF Launch
  <2> QED
    BY <1>2, <2>1, <2>2, <2>3, <2>4, <2>5 DEF Launch
<1>3. ASSUME NEW i \in Instances, Connect(i) PROVE IPTypeOK' /\ RetriesLeft'
  <2>1. RetriesLeft'
    BY <1>3 DEF Connect
  <2>2. start' \in [Instances -> Starting \cup {"none", "refused", "failed", "ready"}]
    BY <1>3 DEF Connect
  <2>3. /\ startCtx' \in [Instances -> BOOLEAN]
        /\ bridge' \in [Instances -> {"none", "armed", "removed", "check", "cancel", "done"}]
    BY <1>3 DEF Connect
  <2>4. conn' \in [Instances -> {"none", "open", "closed"}]
    BY <1>3 DEF Connect
  <2> QED
    BY <1>3, <2>1, <2>2, <2>3, <2>4 DEF Connect
<1>4. ASSUME NEW i \in Instances, Initialized(i) \/ CloseAfterFailure(i) PROVE IPTypeOK' /\ RetriesLeft'
  BY <1>4 DEF Initialized, CloseAfterFailure
<1>5. ASSUME NEW i \in Instances, InitializeFails(i) PROVE IPTypeOK' /\ RetriesLeft'
  <2>1. attempt[i] \in 0..MaxAttempts /\ attempt[i] < MaxAttempts
    BY <1>5 DEF InitializeFails
  <2>2. attempt' \in [Instances -> 0..MaxAttempts]
    BY <1>5, <2>1 DEF InitializeFails
  <2>3. start'[i] \in {"none", "launch", "connect", "initialize"} => attempt'[i] < MaxAttempts
    BY <1>5, <2>1 DEF InitializeFails
  <2> QED
    <3>1. /\ UNCHANGED <<kind, callerCtx, appCtx, bridge, detached, crossed, proc, conn, tables, stopVars>>
          /\ \A j \in Instances : j # i => attempt'[j] = attempt[j] /\ start'[j] = start[j]
      BY <1>5 DEF InitializeFails
    <3>2. RetriesLeft'
      BY <2>3, <3>1
    <3>3. start' \in [Instances -> Starting \cup {"none", "refused", "failed", "ready"}]
      BY <1>5 DEF InitializeFails
    <3>4. startCtx' \in [Instances -> BOOLEAN]
      BY <1>5 DEF InitializeFails
    <3> QED
      BY <2>2, <3>1, <3>2, <3>3, <3>4
<1>6. ASSUME NEW i \in Instances, StopAfterFailure(i) PROVE IPTypeOK' /\ RetriesLeft'
  BY <1>6 DEF StopAfterFailure
<1>7. ASSUME NEW i \in Instances, Publish(i) PROVE IPTypeOK' /\ RetriesLeft'
  BY <1>7 DEF Publish
<1>8. ASSUME NEW i \in Instances, Detach(i) PROVE IPTypeOK' /\ RetriesLeft'
  BY <1>8 DEF Detach, NoteCrossed
<1>9. ASSUME NEW i \in Instances, ReturnReady(i) PROVE IPTypeOK' /\ RetriesLeft'
  BY <1>9 DEF ReturnReady
<1>10. ASSUME NEW i \in Instances, CallerCancels(i) \/ BridgeStep(i) PROVE IPTypeOK' /\ RetriesLeft'
  <2>1. CASE CallerCancels(i)
    BY <2>1 DEF CallerCancels
  <2>2. CASE BridgeChecks(i)
    BY <2>2 DEF BridgeChecks
  <2>3. CASE BridgeCancels(i)
    BY <2>3 DEF BridgeCancels
  <2> QED
    BY <1>10, <2>1, <2>2, <2>3 DEF BridgeStep
<1>11. ASSUME NEW i \in Instances, ContextKills(i) \/ ProcessExits(i) PROVE IPTypeOK' /\ RetriesLeft'
  BY <1>11 DEF ContextKills, ProcessExits
<1>12. ASSUME NEW s \in Stoppers, NEW i \in Instances, StopInstance(s, i) PROVE IPTypeOK' /\ RetriesLeft'
  BY <1>12 DEF StopInstance
<1>13. ASSUME NEW s \in Stoppers, StopStep(s) PROVE IPTypeOK' /\ RetriesLeft'
  <2>1. CASE CloseConnection(s)
    BY <2>1 DEF CloseConnection
  <2>2. CASE StopProcess(s)
    BY <2>2 DEF StopProcess
  <2> QED
    BY <1>13, <2>1, <2>2 DEF StopStep
<1>14. CASE ApplicationEnds
  BY <1>14 DEF ApplicationEnds
<1>15. CASE UNCHANGED ipVars
  BY <1>15 DEF ipVars
<1> QED
  BY <1>1, <1>2, <1>3, <1>4, <1>5, <1>6, <1>7, <1>8, <1>9, <1>10, <1>11, <1>12, <1>13,
     <1>14, <1>15 DEF IPNext, StartStep

\* The steps of StartInstance, of the contexts and of the process itself.
LEMMA InstanceSteps ==
  ASSUME ProcessStrong, IPTypeOK', RetriesLeft', NEW i \in Instances,
         \/ StartInstance(i) \/ StartStep(i) \/ CallerCancels(i) \/ BridgeStep(i)
         \/ ContextKills(i) \/ ProcessExits(i)
  PROVE  ProcessStrong'
<1>1. IPTypeOK /\ StartMakes /\ StopsTake /\ BridgeKnows
  BY DEF ProcessStrong
<1>2. ASSUME NEW s \in Stoppers, stops[s] = i PROVE start[i] = "ready"
  BY <1>1, <1>2, InstanceProcessAssumption DEF StopsTake
<1> DEFINE Now ==
  /\ start[i] \in {"none", "refused", "launch"} => proc[i] = "none"
  /\ start[i] \in {"none", "refused", "launch", "connect"} => conn[i] = "none"
  /\ start[i] = "stop" => conn[i] # "open"
  /\ start[i] = "failed" => proc[i] # "alive" /\ conn[i] # "open"
  /\ start[i] = "ready" /\ i \notin tables /\ (\A s \in Stoppers : stops[s] # i)
       => conn[i] # "open" /\ Ended(i)
  /\ i \in tables => start[i] \in {"detach", "return", "ready"}
  /\ start[i] \in {"detach", "return"} => i \in tables
  /\ start[i] \in {"return", "ready"} =>
       i \in detached /\ (bridge[i] = "cancel" => i \in crossed)
  /\ \A s \in Stoppers : stops[s] = i => start[i] = "ready"
  /\ proc[i] \in {"none", "alive", "dead"}
<1>3. Now
  BY <1>1, <1>2 DEF StartMakes, StopsTake, BridgeKnows, IPTypeOK
<1> USE <1>1, <1>3 DEF IPTypeOK, startVars, ctxVars, To, CancelStart, RemoveBridge, Kill,
        Fail, Ended
<1>4. CASE StartInstance(i)
  BY <1>4, OneInstance DEF StartInstance
<1>5. CASE Launch(i)
  BY <1>5, OneInstance DEF Launch
<1>6. CASE Connect(i)
  BY <1>6, OneInstance DEF Connect
<1>7. CASE Initialized(i)
  BY <1>7, OneInstance DEF Initialized
<1>8. CASE InitializeFails(i)
  BY <1>8, OneInstance DEF InitializeFails
<1>9. CASE CloseAfterFailure(i)
  BY <1>9, OneInstance DEF CloseAfterFailure
<1>10. CASE StopAfterFailure(i)
  <2>1. /\ start[i] = "stop" /\ start'[i] = "failed"
        /\ proc'[i] # "alive" /\ conn' = conn
        /\ UNCHANGED <<stopVars, appCtx, detached, crossed, tables>>
        /\ \A j \in Instances \ {i} :
             /\ start'[j] = start[j] /\ startCtx'[j] = startCtx[j]
             /\ bridge'[j] = bridge[j] /\ proc'[j] = proc[j]
    BY <1>10 DEF StopAfterFailure
  <2> QED
    BY <2>1, OneInstance
<1>11. CASE Publish(i)
  BY <1>11, OneInstance DEF Publish
<1>12. CASE Detach(i)
  BY <1>12, OneInstance DEF Detach, NoteCrossed
<1>13. CASE ReturnReady(i)
  BY <1>13, OneInstance DEF ReturnReady
<1>14. CASE CallerCancels(i)
  BY <1>14, OneInstance DEF CallerCancels
<1>15. CASE BridgeChecks(i)
  BY <1>15, OneInstance DEF BridgeChecks
<1>16. CASE BridgeCancels(i)
  <2>1. /\ start' = start /\ proc' = proc /\ conn' = conn
        /\ ~startCtx'[i] /\ bridge'[i] = "done"
        /\ UNCHANGED <<stopVars, appCtx, detached, crossed, tables>>
        /\ \A j \in Instances \ {i} :
             startCtx'[j] = startCtx[j] /\ bridge'[j] = bridge[j]
    BY <1>16 DEF BridgeCancels
  <2> QED
    BY <2>1, OneInstance
<1>17. CASE ContextKills(i)
  BY <1>17, OneInstance DEF ContextKills
<1>18. CASE ProcessExits(i)
  BY <1>18, OneInstance DEF ProcessExits
<1> QED
  BY <1>4, <1>5, <1>6, <1>7, <1>8, <1>9, <1>10, <1>11, <1>12, <1>13, <1>14, <1>15,
     <1>16, <1>17, <1>18 DEF StartStep, BridgeStep

\* StopInstance takes the instance from the tables ...
LEMMA StopInstanceKeeps ==
  ASSUME ProcessStrong, IPTypeOK', RetriesLeft', NEW s \in Stoppers, NEW i \in Instances,
         StopInstance(s, i)
  PROVE  ProcessStrong'
<1>1. IPTypeOK /\ StartMakes /\ StopsTake /\ BridgeKnows
  BY DEF ProcessStrong
<1>2. /\ stopper[s] = "idle" /\ start[i] = "ready" /\ i \in tables
      /\ tables' = tables \ {i} /\ UNCHANGED <<startVars, ctxVars, proc, conn>>
      /\ stopper'[s] = "close" /\ stops'[s] = i
      /\ \A r \in Stoppers \ {s} : stopper'[r] = stopper[r] /\ stops'[r] = stops[r]
  BY <1>1 DEF StopInstance, IPTypeOK
<1>3. stops[s] = NoInstance /\ i # NoInstance
  BY <1>1, <1>2, InstanceProcessAssumption DEF StopsTake
<1>4. StartMakes'
  <2>1. \A j \in Instances : (\A r \in Stoppers : stops'[r] # j) /\ j \notin tables'
                             => j \notin tables /\ \A r \in Stoppers : stops[r] # j
    BY <1>2, <1>3, InstanceProcessAssumption
  <2> QED
    BY <1>1, <1>2, <2>1 DEF StartMakes, startVars, ctxVars, Ended
<1>5. StopsTake'
  BY <1>1, <1>2, <1>3 DEF StopsTake, startVars
<1>6. BridgeKnows'
  BY <1>1, <1>2 DEF BridgeKnows, startVars, ctxVars
<1> QED
  BY <1>4, <1>5, <1>6 DEF ProcessStrong

\* ... closes its connection, and its process and its context.
LEMMA StopStepKeeps ==
  ASSUME ProcessStrong, IPTypeOK', RetriesLeft', NEW s \in Stoppers, StopStep(s)
  PROVE  ProcessStrong'
<1>1. IPTypeOK /\ StartMakes /\ StopsTake /\ BridgeKnows
  BY DEF ProcessStrong
<1>2. stopper[s] # "idle"
  BY DEF StopStep, CloseConnection, StopProcess
<1>3. stops[s] \in Instances
  BY <1>1, <1>2 DEF StopsTake, IPTypeOK
<1>4. PICK i \in Instances : i = stops[s]
  BY <1>3
<1>5. start[i] = "ready" /\ i # NoInstance
  BY <1>1, <1>4, InstanceProcessAssumption DEF StopsTake
<1>6. CASE CloseConnection(s)
  <2>1. /\ stopper[s] = "close" /\ stopper'[s] = "stop" /\ stops' = stops
        /\ conn'[i] = "closed" /\ UNCHANGED <<startVars, ctxVars, proc, tables>>
        /\ \A r \in Stoppers \ {s} : stopper'[r] = stopper[r]
        /\ \A j \in Instances \ {i} : conn'[j] = conn[j]
    BY <1>1, <1>4, <1>6 DEF CloseConnection, IPTypeOK
  <2>2. \A j \in Instances : conn'[j] = "open" => conn[j] = "open"
    BY <2>1
  <2>3. StartMakes'
    BY <1>1, <1>5, <2>1, <2>2 DEF StartMakes, startVars, ctxVars, Ended
  <2>4. StopsTake'
    BY <1>1, <1>4, <2>1, <2>2 DEF StopsTake, startVars, IPTypeOK
  <2>5. BridgeKnows'
    BY <1>1, <2>1 DEF BridgeKnows, startVars, ctxVars
  <2> QED
    BY <2>3, <2>4, <2>5 DEF ProcessStrong
<1>7. CASE StopProcess(s)
  <2>1. /\ stopper[s] = "stop" /\ stopper'[s] = "idle" /\ stops'[s] = NoInstance
        /\ UNCHANGED <<startVars, callerCtx, appCtx, bridge, detached, crossed, conn, tables>>
        /\ ~startCtx'[i] /\ proc'[i] \in {"none", "dead"}
        /\ \A r \in Stoppers \ {s} : stopper'[r] = stopper[r] /\ stops'[r] = stops[r]
        /\ \A j \in Instances \ {i} : startCtx'[j] = startCtx[j] /\ proc'[j] = proc[j]
    BY <1>1, <1>4, <1>7 DEF StopProcess, Kill, CancelStart, IPTypeOK
  <2>2. conn[i] # "open"
    BY <1>1, <1>4, <2>1 DEF StopsTake
  <2>3. StartMakes'
    <3>1. ASSUME NEW j \in Instances, j # i, \A r \in Stoppers : stops'[r] # j
          PROVE  \A r \in Stoppers : stops[r] # j
      BY <1>4, <2>1, <3>1
    <3> QED
      BY <1>1, <1>5, <2>1, <2>2, <3>1 DEF StartMakes, startVars, Ended
  <2>4. StopsTake'
    BY <1>1, <2>1 DEF StopsTake, startVars
  <2>5. BridgeKnows'
    BY <1>1, <2>1 DEF BridgeKnows, startVars
  <2> QED
    BY <2>3, <2>4, <2>5 DEF ProcessStrong
<1> QED
  BY <1>6, <1>7 DEF StopStep

\* Every step of starts, contexts, processes and stops.
LEMMA ProcessStep == ProcessStrong /\ [IPNext]_ipVars => ProcessStrong'
<1> SUFFICES ASSUME ProcessStrong, [IPNext]_ipVars PROVE ProcessStrong'
  OBVIOUS
<1>1. IPTypeOK' /\ RetriesLeft'
  BY ProcessTypes DEF ProcessStrong
<1>2. CASE ApplicationEnds
  BY <1>1, <1>2 DEF ApplicationEnds, ProcessStrong, StartMakes, StopsTake, BridgeKnows,
     startVars, stopVars, Ended
<1>3. CASE UNCHANGED ipVars
  BY <1>1, <1>3 DEF ipVars, ProcessStrong, StartMakes, StopsTake, BridgeKnows,
     startVars, ctxVars, stopVars, Ended
<1> QED
  BY <1>1, <1>2, <1>3, InstanceSteps, StopInstanceKeeps, StopStepKeeps DEF IPNext

\* A live process or an open connection is always in somebody's hands
\* (manager.go:102-290, 521-583, 620-630).
THEOREM ServersAreHeld == IPSpec => []ProcessInv
<1>1. ProcessStrong => ProcessInv
  <2> SUFFICES ASSUME ProcessStrong PROVE NoOrphanServer
    BY DEF ProcessStrong, ProcessInv
  <2> SUFFICES ASSUME NEW i \in Instances, proc[i] = "alive" \/ conn[i] = "open"
               PROVE  \/ start[i] \in Starting \/ i \in tables
                      \/ \E s \in Stoppers : stops[s] = i
                      \/ conn[i] # "open" /\ Ended(i)
    BY DEF NoOrphanServer
  <2>1. start[i] \in Starting \cup {"none", "refused", "failed", "ready"}
    BY DEF ProcessStrong, IPTypeOK
  <2> QED
    BY <2>1 DEF ProcessStrong, StartMakes
<1> QED
  BY <1>1, ProcessInit, ProcessStep, PTL DEF IPSpec

\* The caller of a start that returned cannot end the instance any more, except by
\* a callback that had already read the flag (manager.go:139-149, 287-289).
THEOREM CallerLetsGo == IPSpec => DetachedFromCaller
<1> DEFINE Keeps ==
      \A i \in Instances :
        start[i] = "ready" /\ startCtx[i] /\ ~startCtx'[i] =>
          i \in crossed \/ \E s \in Stoppers : stops[s] = i
<1>1. ProcessStrong /\ [IPNext]_ipVars => [Keeps]_ipVars
  <2> SUFFICES ASSUME ProcessStrong, IPNext, NEW i \in Instances,
                      start[i] = "ready", startCtx[i], ~startCtx'[i]
               PROVE  i \in crossed \/ \E s \in Stoppers : stops[s] = i
    OBVIOUS
  <2>1. IPTypeOK /\ BridgeKnows
    BY DEF ProcessStrong
  <2>2. ASSUME NEW j \in Instances,
               \/ StartInstance(j) \/ StartStep(j) \/ CallerCancels(j) \/ BridgeStep(j)
               \/ ContextKills(j) \/ ProcessExits(j)
        PROVE  BridgeCancels(i)
    <3>1. j = i
      BY <2>1, <2>2 DEF StartInstance, StartStep, CallerCancels, BridgeStep, ContextKills,
         ProcessExits, Launch, Connect, Initialized, InitializeFails, CloseAfterFailure,
         StopAfterFailure, Publish, Detach, ReturnReady, BridgeChecks, BridgeCancels,
         Fail, CancelStart, ctxVars, IPTypeOK
    <3> QED
      BY <2>2, <3>1 DEF StartInstance, StartStep, CallerCancels, BridgeStep, ContextKills,
         ProcessExits, Launch, Connect, Initialized, InitializeFails, CloseAfterFailure,
         StopAfterFailure, Publish, Detach, ReturnReady, BridgeChecks, ctxVars
  <2>3. ASSUME NEW s \in Stoppers, NEW j \in Instances, StopInstance(s, j) PROVE FALSE
    BY <2>3 DEF StopInstance, ctxVars
  <2>4. ASSUME NEW s \in Stoppers, StopStep(s) PROVE stops[s] = i
    BY <2>1, <2>4 DEF StopStep, CloseConnection, StopProcess, CancelStart, ctxVars, IPTypeOK
  <2>5. ~ApplicationEnds
    BY DEF ApplicationEnds
  <2>6. BridgeCancels(i) => i \in crossed
    BY <2>1 DEF BridgeCancels, BridgeKnows
  <2> QED
    BY <2>2, <2>3, <2>4, <2>5, <2>6 DEF IPNext
<1>2. IPSpec => [][Keeps]_ipVars
  BY <1>1, ProcessInit, ProcessStep, PTL DEF IPSpec
<1> QED
  BY <1>2 DEF DetachedFromCaller

--------------------------------------------------------------------------------
(* The metadata bootstrap.                                                 *)

InFull(where) == {s \in SpecKeys : job["full"][s] \in where}
Targets == {s \in SpecKeys : job["full"][s] # "none"}

\* The counts of the full run are those of its goroutines.
CountsJobs ==
  /\ total = Cardinality(Targets)
  /\ completed = Cardinality(InFull({"won"}))
  /\ errors = InFull({"lost"})

\* A goroutine holds an instance only while it asks for lists or gives it back.
HoldersWork ==
  \A s \in lease["full"] : job["full"][s] \in ToSet(Kinds) \cup {"release", "giveUp"}

\* The run has not begun, or its goroutines are done when its state says so.
FullRun ==
  /\ state = "pending" => Targets = {} /\ "full" \notin active
  /\ state \in {"completed", "failed"} =>
       /\ \A s \in SpecKeys : job["full"][s] \in {"none", "won", "lost"}
       /\ "full" \notin active
       /\ state = "completed" <=> errors = {}

BootstrapStrong == MBTypeOK /\ CountsJobs /\ HoldersWork /\ FullRun

\* Sets of specs are finite and no larger than all of them.
LEMMA SpecSets ==
  ASSUME NEW S \in SUBSET SpecKeys
  PROVE  /\ IsFiniteSet(S)
         /\ Cardinality(S) \in 0..Cardinality(SpecKeys)
<1>1. IsFiniteSet(SpecKeys) /\ S \subseteq SpecKeys
  BY MetadataBootstrapAssumption
<1>2. IsFiniteSet(S) /\ Cardinality(S) <= Cardinality(SpecKeys)
  BY <1>1, FS_Subset
<1>3. Cardinality(S) \in Nat /\ Cardinality(SpecKeys) \in Nat
  BY <1>1, <1>2, FS_CardinalityType
<1> QED
  BY <1>2, <1>3

\* The lists that are asked for are names of none of the other phases.
LEMMA KindsAreApart ==
  /\ 1 \in DOMAIN Kinds /\ Len(Kinds) \in DOMAIN Kinds
  /\ \A i \in DOMAIN Kinds : /\ Kinds[i] \in ToSet(Kinds)
                             /\ Kinds[i] \notin Phases
                             /\ i # Len(Kinds) => i + 1 \in DOMAIN Kinds
  /\ ToSet(Kinds) \cap Phases = {}
BY MetadataBootstrapAssumption DEF ToSet

\* Nothing has been asked for.
LEMMA BootstrapInit == MBInit => BootstrapStrong
<1> SUFFICES ASSUME MBInit PROVE BootstrapStrong
  OBVIOUS
<1>1. Cardinality({}) = 0 /\ Cardinality(SpecKeys) \in Nat
  BY FS_EmptySet, FS_CardinalityType, MetadataBootstrapAssumption
<1>2. Targets = {} /\ InFull({"won"}) = {} /\ InFull({"lost"}) = {}
  BY DEF MBInit, Targets, InFull, Runs
<1>3. MBTypeOK
  <2>1. job \in [Runs -> [SpecKeys -> Phases \cup ToSet(Kinds)]]
    BY DEF MBInit, Phases
  <2> QED
    BY <1>1, <2>1, MetadataBootstrapAssumption DEF MBInit, MBTypeOK
<1>4. CountsJobs /\ HoldersWork /\ FullRun
  BY <1>1, <1>2 DEF MBInit, CountsJobs, HoldersWork, FullRun, Runs
<1> QED
  BY <1>3, <1>4 DEF BootstrapStrong

\* A step of one goroutine that is not the end of its work.
LEMMA JobMoves ==
  ASSUME BootstrapStrong, MBTypeOK', NEW r \in Runs, NEW s \in SpecKeys, NEW to,
         job' = [job EXCEPT ![r][s] = to],
         UNCHANGED <<state, total, completed, errors, active>>,
         job[r][s] \notin {"none", "won", "lost"},
         to \notin {"none", "won", "lost"},
         lease' = lease
           \/ (\E S : lease' = [lease EXCEPT ![r] = S] /\ S \subseteq lease[r] \cup {s}),
         r = "full" /\ s \in lease'[r] => to \in ToSet(Kinds) \cup {"release", "giveUp"}
  PROVE  BootstrapStrong'
<1>1. MBTypeOK
  BY DEF BootstrapStrong
<1>2. /\ \A q \in Runs : q # r => job'[q] = job[q] /\ lease'[q] = lease[q]
      /\ \A t \in SpecKeys : job'[r][t] = IF t = s THEN to ELSE job[r][t]
      /\ lease'[r] \subseteq lease[r] \cup {s}
  BY <1>1 DEF MBTypeOK
<1>3. /\ Targets' = Targets
      /\ InFull({"won"})' = InFull({"won"})
      /\ InFull({"lost"})' = InFull({"lost"})
  BY <1>2 DEF Targets, InFull, Runs
<1>4. CountsJobs'
  BY <1>3 DEF CountsJobs, BootstrapStrong
<1>5. HoldersWork'
  BY <1>1, <1>2 DEF HoldersWork, BootstrapStrong, Runs, MBTypeOK
<1>6. FullRun'
  BY <1>2, <1>3 DEF FullRun, BootstrapStrong, Runs
<1> QED
  BY <1>4, <1>5, <1>6 DEF BootstrapStrong

\* The type invariant, but for the two counts, which need those of the jobs.
LEMMA BootstrapTypes ==
  ASSUME BootstrapStrong, [MBNext]_mbVars,
         total' \in 0..Cardinality(SpecKeys), completed' \in 0..Cardinality(SpecKeys)
  PROVE  MBTypeOK'
<1> USE MetadataBootstrapAssumption, KindsAreApart
    DEF BootstrapStrong, MBTypeOK, progressVars, cacheVars, GoTo, Stays, StartJobs, Phases
<1>1. CASE Bootstrap
  <2>1. config.concurrency \in Limits /\ "full" \in Runs
    BY DEF Configs, Runs
  <2>2. /\ active' \in SUBSET Runs /\ slots' \in [Runs -> Limits \cup {1}]
        /\ job' \in [Runs -> [SpecKeys -> Phases \cup ToSet(Kinds)]]
    BY <1>1, <2>1, SMTT(30) DEF Bootstrap
  <2>3. state' \in {"completed", "running"}
    BY <1>1 DEF Bootstrap
  <2> QED
    BY <1>1, <2>2, <2>3 DEF Bootstrap
<1>2. CASE ApplyCatalogState
  BY <1>2 DEF ApplyCatalogState
<1>3. ASSUME NEW keys \in SUBSET SpecKeys, BootstrapSpecKeys(keys) PROVE MBTypeOK'
  BY <1>3 DEF BootstrapSpecKeys, Configs, Runs
<1>4. ASSUME NEW r \in Runs, NEW s \in SpecKeys, EnterSemaphore(r, s) \/ CancelledInQueue(r, s)
      PROVE  MBTypeOK'
  <2>1. PICK to \in {"acquire", "failed"} : job' = [job EXCEPT ![r][s] = to]
    BY <1>4 DEF EnterSemaphore, CancelledInQueue
  <2>2. job' \in [Runs -> [SpecKeys -> Phases \cup ToSet(Kinds)]]
    BY <2>1
  <2> QED
    BY <1>4, <2>2 DEF EnterSemaphore, CancelledInQueue
<1>5. ASSUME NEW r \in Runs, NEW s \in SpecKeys, Acquired(r, s) PROVE MBTypeOK'
  BY <1>5 DEF Acquired
<1>6. ASSUME NEW r \in Runs, NEW s \in SpecKeys, NotAcquired(r, s) PROVE MBTypeOK'
  BY <1>6, SMTT(30) DEF NotAcquired
<1>7. ASSUME NEW r \in Runs, NEW s \in SpecKeys, NEW i \in DOMAIN Kinds, Fetch(r, s, i)
      PROVE  MBTypeOK'
  BY <1>7 DEF Fetch
<1>8. ASSUME NEW r \in Runs, NEW s \in SpecKeys, ReleaseInstance(r, s) PROVE MBTypeOK'
  BY <1>8 DEF ReleaseInstance
<1>9. ASSUME NEW r \in Runs, NEW s \in SpecKeys, RecordResult(r, s) PROVE MBTypeOK'
  BY <1>9 DEF RecordResult
<1>10. ASSUME NEW r \in Runs, CompleteBootstrap(r) PROVE MBTypeOK'
  BY <1>10 DEF CompleteBootstrap
<1>11. ASSUME NEW s \in SpecKeys, Expire(s) \/ ReadExpired(s) PROVE MBTypeOK'
  BY <1>11 DEF Expire, ReadExpired
<1>12. CASE UNCHANGED mbVars
  BY <1>12 DEF mbVars
<1> QED
  BY <1>1, <1>2, <1>3, <1>4, <1>5, <1>6, <1>7, <1>8, <1>9, <1>10, <1>11, <1>12
     DEF MBNext, JobStep

\* The counts stay within the number of specs.
LEMMA CountsBounded ==
  ASSUME BootstrapStrong, [MBNext]_mbVars
  PROVE  total' \in 0..Cardinality(SpecKeys) /\ completed' \in 0..Cardinality(SpecKeys)
<1>1. MBTypeOK /\ CountsJobs
  BY DEF BootstrapStrong
<1>2. CASE UNCHANGED <<total, completed>>
  BY <1>1, <1>2 DEF MBTypeOK
<1>3. CASE Bootstrap
  <2>1. config.specs \in SUBSET SpecKeys
    BY <1>1 DEF MBTypeOK, Configs
  <2> QED
    BY <1>1, <1>3, <2>1, SpecSets DEF Bootstrap, MBTypeOK
<1>4. ASSUME NEW r \in Runs, NEW s \in SpecKeys, RecordResult(r, s), completed' = completed + 1,
             r = "full", job[r][s] = "succeeded", total' = total
      PROVE  total' \in 0..Cardinality(SpecKeys) /\ completed' \in 0..Cardinality(SpecKeys)
  <2>1. s \notin InFull({"won"}) /\ InFull({"won"}) \in SUBSET SpecKeys
    BY <1>4 DEF InFull
  <2>2. Cardinality(InFull({"won"}) \cup {s}) = Cardinality(InFull({"won"})) + 1
    BY <2>1, SpecSets, FS_AddElement
  <2>3. InFull({"won"}) \cup {s} \in SUBSET SpecKeys
    BY <2>1
  <2> QED
    BY <1>1, <1>4, <2>2, <2>3, SpecSets DEF CountsJobs, MBTypeOK
<1>5. ASSUME NEW r \in Runs, NEW s \in SpecKeys, RecordResult(r, s)
      PROVE  total' \in 0..Cardinality(SpecKeys) /\ completed' \in 0..Cardinality(SpecKeys)
  BY <1>2, <1>4, <1>5 DEF RecordResult
<1> QED
  <2>1. ASSUME ~Bootstrap, \A r \in Runs, s \in SpecKeys : ~RecordResult(r, s)
        PROVE  UNCHANGED <<total, completed>>
    BY <2>1 DEF MBNext, JobStep, mbVars, progressVars, ApplyCatalogState,
       BootstrapSpecKeys, EnterSemaphore, CancelledInQueue, Acquired, NotAcquired, Fetch,
       ReleaseInstance, CompleteBootstrap, Expire, ReadExpired, Stays
  <2> QED
    BY <1>2, <1>3, <1>5, <2>1

\* Every step of the run, a reload and readers of the cache.
LEMMA BootstrapStep == BootstrapStrong /\ [MBNext]_mbVars => BootstrapStrong'
<1> SUFFICES ASSUME BootstrapStrong, [MBNext]_mbVars PROVE BootstrapStrong'
  OBVIOUS
<1>1. MBTypeOK /\ MBTypeOK' /\ CountsJobs /\ HoldersWork /\ FullRun
  BY BootstrapTypes, CountsBounded DEF BootstrapStrong
<1>2. CASE UNCHANGED <<state, total, completed, errors, active, job, lease>>
  <2>1. CountsJobs' /\ HoldersWork' /\ FullRun'
    BY <1>1, <1>2 DEF CountsJobs, HoldersWork, FullRun, Targets, InFull
  <2> QED
    BY <1>1, <2>1 DEF BootstrapStrong
<1>3. CASE Bootstrap
  <2>1. /\ Targets = {} /\ "full" \notin active /\ lease' = lease
        /\ completed' = completed /\ errors' = errors
    BY <1>1, <1>3 DEF Bootstrap, FullRun
  <2>2. InFull({"won"}) = {} /\ InFull({"lost"}) = {} /\ lease["full"] = {}
    <3>1. \A s \in SpecKeys : job["full"][s] = "none"
      BY <2>1 DEF Targets
    <3>2. lease["full"] \subseteq SpecKeys
      BY <1>1 DEF MBTypeOK, Runs
    <3> QED
      BY <1>1, <3>1, <3>2, KindsAreApart DEF InFull, HoldersWork, Phases
  <2>3. CASE config.mode = "disabled"
    <3>1. /\ state' = "completed" /\ UNCHANGED <<total, active, job>>
      BY <1>3, <2>3 DEF Bootstrap
    <3>2. CountsJobs' /\ HoldersWork'
      BY <1>1, <2>1, <3>1 DEF CountsJobs, HoldersWork, Targets, InFull
    <3>3. FullRun'
      BY <1>1, <2>1, <2>2, <3>1 DEF FullRun, Targets, CountsJobs
    <3> QED
      BY <1>1, <3>2, <3>3 DEF BootstrapStrong
  <2>4. CASE config.mode # "disabled"
    <3>1. /\ state' = "running" /\ total' = Cardinality(config.specs)
          /\ job'["full"] = [s \in SpecKeys |-> IF s \in config.specs THEN "queued" ELSE "none"]
          /\ config.specs \subseteq SpecKeys
      BY <1>1, <1>3, <2>4 DEF Bootstrap, StartJobs, MBTypeOK, Runs, Configs
    <3>2. Targets' = config.specs /\ InFull({"won"})' = {} /\ InFull({"lost"})' = {}
      BY <3>1 DEF Targets, InFull
    <3>3. CountsJobs'
      BY <1>1, <2>1, <2>2, <3>1, <3>2 DEF CountsJobs
    <3>4. HoldersWork' /\ FullRun'
      BY <2>1, <2>2, <3>1 DEF HoldersWork, FullRun
    <3> QED
      BY <1>1, <3>3, <3>4 DEF BootstrapStrong
  <2> QED
    BY <2>3, <2>4
<1>4. ASSUME NEW keys \in SUBSET SpecKeys, BootstrapSpecKeys(keys) PROVE BootstrapStrong'
  <2>1. /\ UNCHANGED <<state, total, completed, errors, lease>>
        /\ job'["full"] = job["full"]
        /\ active' = active \cup {"incremental"}
    BY <1>1, <1>4 DEF BootstrapSpecKeys, StartJobs, progressVars, MBTypeOK, Runs
  <2>2. CountsJobs' /\ HoldersWork' /\ FullRun'
    BY <1>1, <2>1 DEF CountsJobs, HoldersWork, FullRun, Targets, InFull
  <2> QED
    BY <1>1, <2>2 DEF BootstrapStrong
<1>5. ASSUME NEW r \in Runs, NEW s \in SpecKeys,
             EnterSemaphore(r, s) \/ CancelledInQueue(r, s) \/ NotAcquired(r, s)
      PROVE  BootstrapStrong'
  <2>1. /\ job[r][s] \in {"queued", "acquire", "poll", "start"} /\ lease' = lease
        /\ UNCHANGED <<state, total, completed, errors, active>>
    BY <1>5 DEF EnterSemaphore, CancelledInQueue, NotAcquired, Stays, progressVars
  <2>2. r = "full" => s \notin lease[r]
    BY <1>1, <2>1, KindsAreApart DEF HoldersWork, Phases
  <2>3. PICK to \in {"acquire", "failed", "poll", "start"} : job' = [job EXCEPT ![r][s] = to]
    BY <1>5 DEF EnterSemaphore, CancelledInQueue, NotAcquired, GoTo
  <2> QED
    BY <1>1, <2>1, <2>2, <2>3, JobMoves
<1>6. ASSUME NEW r \in Runs, NEW s \in SpecKeys, Acquired(r, s) PROVE BootstrapStrong'
  <2>1. /\ job[r][s] \in {"acquire", "poll", "start"}
        /\ lease' = [lease EXCEPT ![r] = lease[r] \cup {s}]
        /\ UNCHANGED <<state, total, completed, errors, active>>
    BY <1>6 DEF Acquired, Stays, progressVars
  <2>2. PICK to \in {Kinds[1], "giveUp"} : job' = [job EXCEPT ![r][s] = to]
    BY <1>6 DEF Acquired, GoTo
  <2>3. to \in ToSet(Kinds) \cup {"giveUp"} /\ to \notin {"none", "won", "lost"}
    BY <2>2, KindsAreApart DEF Phases
  <2> QED
    BY <1>1, <2>1, <2>2, <2>3, JobMoves
<1>7. ASSUME NEW r \in Runs, NEW s \in SpecKeys, NEW i \in DOMAIN Kinds, Fetch(r, s, i)
      PROVE  BootstrapStrong'
  <2>1. /\ job[r][s] = Kinds[i] /\ lease' = lease
        /\ UNCHANGED <<state, total, completed, errors, active>>
    BY <1>7 DEF Fetch, Stays, progressVars
  <2>2. PICK to \in ToSet(Kinds) \cup {"release"} : job' = [job EXCEPT ![r][s] = to]
    BY <1>7, KindsAreApart DEF Fetch, GoTo
  <2>3. job[r][s] \notin {"none", "won", "lost"} /\ to \notin {"none", "won", "lost"}
    BY <2>1, <2>2, KindsAreApart DEF Phases
  <2> QED
    BY <1>1, <2>1, <2>2, <2>3, JobMoves
<1>8. ASSUME NEW r \in Runs, NEW s \in SpecKeys, ReleaseInstance(r, s) PROVE BootstrapStrong'
  <2>1. /\ job[r][s] \in {"release", "giveUp"}
        /\ lease' = [lease EXCEPT ![r] = lease[r] \ {s}]
        /\ UNCHANGED <<state, total, completed, errors, active>>
    BY <1>8 DEF ReleaseInstance, Stays, progressVars
  <2>2. PICK to \in {"succeeded", "failed"} : job' = [job EXCEPT ![r][s] = to]
    BY <1>8 DEF ReleaseInstance, GoTo
  <2>3. s \notin lease'[r] /\ lease[r] \ {s} \subseteq lease[r] \cup {s}
    BY <1>1, <2>1 DEF MBTypeOK
  <2> QED
    BY <1>1, <2>1, <2>2, <2>3, JobMoves
<1>9. ASSUME NEW r \in Runs, NEW s \in SpecKeys, RecordResult(r, s) PROVE BootstrapStrong'
  <2>1. /\ job[r][s] \in {"succeeded", "failed"}
        /\ job' = [job EXCEPT ![r][s] = IF job[r][s] = "failed" THEN "lost" ELSE "won"]
        /\ UNCHANGED <<state, total, active, lease>>
    BY <1>9 DEF RecordResult, GoTo
  <2>2. /\ \A q \in Runs : q # r => job'[q] = job[q]
        /\ \A t \in SpecKeys : job'[r][t] = IF t # s THEN job[r][t]
                                            ELSE IF job[r][s] = "failed" THEN "lost" ELSE "won"
    BY <1>1, <2>1 DEF MBTypeOK
  <2>3. CASE r # "full"
    <3>1. job'["full"] = job["full"] /\ completed' = completed /\ errors' = errors
      BY <1>9, <2>2, <2>3 DEF RecordResult, Runs
    <3>2. CountsJobs' /\ HoldersWork' /\ FullRun'
      BY <1>1, <2>1, <3>1 DEF CountsJobs, HoldersWork, FullRun, Targets, InFull
    <3> QED
      BY <1>1, <3>2 DEF BootstrapStrong
  <2>4. CASE r = "full"
    <3>1. Targets' = Targets /\ s \notin lease["full"]
      BY <1>1, <2>1, <2>2, <2>4, KindsAreApart DEF Targets, HoldersWork, Phases
    <3>2. CountsJobs'
      <4>1. CASE job[r][s] = "failed"
        <5>1. /\ InFull({"won"})' = InFull({"won"})
              /\ InFull({"lost"})' = InFull({"lost"}) \cup {s}
          BY <2>2, <2>4, <4>1 DEF InFull
        <5> QED
          BY <1>1, <1>9, <2>1, <2>4, <3>1, <4>1, <5>1 DEF CountsJobs, RecordResult
      <4>2. CASE job[r][s] = "succeeded"
        <5>1. /\ InFull({"won"})' = InFull({"won"}) \cup {s} /\ s \notin InFull({"won"})
              /\ InFull({"lost"})' = InFull({"lost"}) /\ InFull({"won"}) \in SUBSET SpecKeys
          BY <2>2, <2>4, <4>2 DEF InFull
        <5>2. Cardinality(InFull({"won"}) \cup {s}) = Cardinality(InFull({"won"})) + 1
          BY <5>1, SpecSets, FS_AddElement
        <5> QED
          BY <1>1, <1>9, <2>1, <2>4, <3>1, <4>2, <5>1, <5>2 DEF CountsJobs, RecordResult
      <4> QED
        BY <2>1, <4>1, <4>2
    <3>3. HoldersWork'
      BY <1>1, <2>1, <2>2, <2>4, <3>1 DEF HoldersWork, MBTypeOK, Runs
    <3>4. FullRun'
      BY <1>1, <2>1, <2>4, <3>1 DEF FullRun
    <3> QED
      BY <1>1, <3>2, <3>3, <3>4 DEF BootstrapStrong
  <2> QED
    BY <2>3, <2>4
<1>10. ASSUME NEW r \in Runs, CompleteBootstrap(r) PROVE BootstrapStrong'
  <2>1. /\ r \in active /\ \A s \in SpecKeys : job[r][s] \in {"none", "won", "lost"}
        /\ active' = active \ {r} /\ UNCHANGED <<total, completed, errors, job, lease>>
        /\ r # "full" => state' = state
        /\ r = "full" => state' = IF errors = {} THEN "completed" ELSE "failed"
    BY <1>10 DEF CompleteBootstrap
  <2>2. CountsJobs' /\ HoldersWork'
    BY <1>1, <2>1 DEF CountsJobs, HoldersWork, Targets, InFull
  <2>3. FullRun'
    BY <1>1, <2>1 DEF FullRun, Targets
  <2> QED
    BY <1>1, <2>2, <2>3 DEF BootstrapStrong
<1>11. CASE ApplyCatalogState \/ (\E s \in SpecKeys : Expire(s) \/ ReadExpired(s)) \/ UNCHANGED mbVars
  BY <1>2, <1>11 DEF ApplyCatalogState, Expire, ReadExpired, mbVars, progressVars
<1> QED
  BY <1>3, <1>4, <1>5, <1>6, <1>7, <1>8, <1>9, <1>10, <1>11 DEF MBNext, JobStep

\* The numbers that the bootstrap reports at its end add up, it failed iff a spec
\* did, and it has given every instance back (manager.go:334-413, 689-726).
THEOREM CompletionIsTrue == MBSpec => []BootstrapInv
<1>1. BootstrapStrong => BootstrapInv
  <2> SUFFICES ASSUME BootstrapStrong, state \in {"completed", "failed"}
               PROVE  /\ completed + Cardinality(errors) = total
                      /\ state = "completed" <=> errors = {}
                      /\ lease["full"] = {}
    BY DEF BootstrapStrong, BootstrapInv, CompletionIsHonest
  <2>1. \A s \in SpecKeys : job["full"][s] \in {"none", "won", "lost"}
    BY DEF BootstrapStrong, FullRun
  <2>2. /\ Targets = InFull({"won"}) \cup InFull({"lost"})
        /\ InFull({"won"}) \cap InFull({"lost"}) = {}
    BY <2>1 DEF Targets, InFull
  <2>3. IsFiniteSet(InFull({"won"})) /\ IsFiniteSet(InFull({"lost"}))
    BY SpecSets DEF InFull
  <2>4. Cardinality(Targets) = Cardinality(InFull({"won"})) + Cardinality(InFull({"lost"}))
    <3>1. Cardinality(InFull({"won"}) \cap InFull({"lost"})) = 0
      BY <2>2, FS_EmptySet
    <3>2. /\ Cardinality(InFull({"won"})) \in Nat
          /\ Cardinality(InFull({"lost"})) \in Nat
      BY <2>3, FS_CardinalityType
    <3>3. Cardinality(InFull({"won"}) \cup InFull({"lost"}))
            = Cardinality(InFull({"won"})) + Cardinality(InFull({"lost"}))
                - Cardinality(InFull({"won"}) \cap InFull({"lost"}))
      BY <2>3, FS_Union
    <3> QED
      BY <2>2, <3>1, <3>2, <3>3
  <2>5. lease["full"] = {}
    <3>1. lease["full"] \subseteq SpecKeys
      BY DEF BootstrapStrong, MBTypeOK, Runs
    <3> QED
      BY <2>1, <3>1, KindsAreApart DEF BootstrapStrong, HoldersWork, Phases
  <2> QED
    BY <2>4, <2>5 DEF BootstrapStrong, CountsJobs, FullRun
<1> QED
  BY <1>1, BootstrapInit, BootstrapStep, PTL DEF MBSpec

================================================================================
