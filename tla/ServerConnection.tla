---------------------------- MODULE ServerConnection ----------------------------
(***************************************************************************)
(* The JSON-RPC client side of a connection to an MCP server: clientConn of*)
(* infra/transport/connection.go.  Calls register under the id of their    *)
(* request and wait; one read loop hands out the answers, and serves the   *)
(* server's own calls (sampling, elicitation) in between.  The server      *)
(* answers in any order, or never.                                         *)
(***************************************************************************)
EXTENDS Integers, FiniteSets

CONSTANTS
  Calls,      \* one element for each call of Call
  Constant,   \* the calls that carry the id "bootstrap" of metadata/manager.go
  MaxAsks,    \* bound: calls the server makes
  NoCall

Returns == {"none", "closed", "error", "timeout", "failed"}  \* without a reply

ASSUME ServerConnectionAssumption ==
  /\ Constant \subseteq Calls /\ MaxAsks \in Nat /\ NoCall \notin Calls \cup Returns
  /\ Calls \cap (Returns \cup {"bootstrap"}) = {}

VARIABLES
  call,       \* where each call stands
  inbox,      \* resultCh of each call: empty, the call whose reply it holds, or "failed"
  outcome,    \* what each call returned
  pending,    \* the map from ids to calls
  failed,     \* the map is nil
  asked,      \* requests the server has not answered
  reader,     \* the read loop
  asks,
  closer,     \* how far Close has come
  eof         \* the server's end of the stream is gone

callVars == <<call, outcome>>
tableVars == <<inbox, pending, failed>>
scVars == <<callVars, tableVars, asked, reader, asks, closer, eof>>

Id(c) == IF c \in Constant THEN "bootstrap" ELSE c
Ids == {Id(c) : c \in Calls}
Own == Calls \ Constant

SCInit ==
  /\ call = [c \in Calls |-> "new"] /\ outcome = [c \in Calls |-> "none"]
  /\ inbox = [c \in Calls |-> NoCall] /\ pending = [i \in Ids |-> NoCall] /\ failed = FALSE
  /\ asked = {} /\ reader = "read" /\ asks = 0 /\ closer = "open" /\ eof = FALSE

(***************************************************************************)
(* Call.                                                                   *)
(***************************************************************************)

Return(c, o) ==
  /\ call' = [call EXCEPT ![c] = "done"]
  /\ outcome' = [outcome EXCEPT ![c] = o]

CheckClosed(c) ==
  /\ call[c] = "new"
  /\ IF closer = "open" THEN call' = [call EXCEPT ![c] = "register"] /\ UNCHANGED outcome
                        ELSE Return(c, "closed")
  /\ UNCHANGED <<tableVars, asked, reader, asks, closer, eof>>

\* The entry replaces the one of a call with the same id.
AddPending(c) ==
  /\ call[c] = "register"
  /\ IF failed THEN Return(c, "closed") /\ UNCHANGED pending
               ELSE /\ call' = [call EXCEPT ![c] = "write"]
                    /\ pending' = [pending EXCEPT ![Id(c)] = c]
                    /\ UNCHANGED outcome
  /\ UNCHANGED <<inbox, failed, asked, reader, asks, closer, eof>>

RemovePending(c) == pending' = IF failed THEN pending ELSE [pending EXCEPT ![Id(c)] = NoCall]

Write(c) ==
  /\ call[c] = "write" /\ closer \in {"open", "closed"}
  /\ call' = [call EXCEPT ![c] = "wait"]
  /\ asked' = asked \cup {c}
  /\ UNCHANGED <<outcome, tableVars, reader, asks, closer, eof>>

WriteFails(c) ==
  /\ call[c] = "write"
  /\ RemovePending(c)
  /\ Return(c, "error")
  /\ UNCHANGED <<inbox, failed, asked, reader, asks, closer, eof>>

Receive(c) ==
  /\ call[c] = "wait" /\ inbox[c] # NoCall
  /\ Return(c, inbox[c])
  /\ UNCHANGED <<tableVars, asked, reader, asks, closer, eof>>

Timeout(c) ==
  /\ call[c] = "wait"
  /\ RemovePending(c)
  /\ Return(c, "timeout")
  /\ UNCHANGED <<inbox, failed, asked, reader, asks, closer, eof>>

(***************************************************************************)
(* The read loop.                                                          *)
(***************************************************************************)

\* Mutant: replies are handed out in the order of the calls.
FirstPending(c) ==
  LET waiting == {d \in Calls : pending[Id(d)] = d} IN
  IF waiting = {} THEN NoCall ELSE CHOOSE d \in waiting : TRUE

\* The call that a reply to c is given to.
Addressee(c) == pending[Id(c)]

\* dispatchResponse.
ReadReply(c) ==
  /\ reader = "read" /\ c \in asked /\ ~eof /\ closer \in {"open", "closed"}
  /\ asked' = asked \ {c}
  /\ pending' = IF failed THEN pending ELSE [pending EXCEPT ![Id(c)] = NoCall]
  /\ inbox' = IF failed \/ Addressee(c) = NoCall THEN inbox ELSE [inbox EXCEPT ![Addressee(c)] = c]
  /\ UNCHANGED <<callVars, failed, reader, asks, closer, eof>>

\* handleServerCall: no reply is read until the handler has returned.
ReadAsk ==
  /\ reader = "read" /\ asks < MaxAsks /\ ~eof /\ closer \in {"open", "closed"}
  /\ reader' = "serve" /\ asks' = asks + 1
  /\ UNCHANGED <<callVars, tableVars, asked, closer, eof>>

ServeAsk ==
  /\ reader = "serve"
  /\ reader' = "read"
  /\ UNCHANGED <<callVars, tableVars, asked, asks, closer, eof>>

\* Mutant: the calls registered now are told, the map is still there.
FailKeepsMap ==
  /\ failed' = failed
  /\ inbox' = [c \in Calls |-> IF ~failed /\ pending[Id(c)] = c THEN "failed" ELSE inbox[c]]
  /\ UNCHANGED pending

\* failPending: the calls registered now are told, later ones are refused.
FailPending ==
  /\ failed' = TRUE
  /\ inbox' = [c \in Calls |-> IF ~failed /\ pending[Id(c)] = c THEN "failed" ELSE inbox[c]]
  /\ UNCHANGED pending

ReadFails ==
  /\ reader = "read"
  /\ eof \/ closer # "open"
  /\ reader' = "ended"
  /\ FailPending
  /\ UNCHANGED <<callVars, asked, asks, closer, eof>>

ServerGone ==
  /\ ~eof /\ eof' = TRUE
  /\ UNCHANGED <<callVars, tableVars, asked, reader, asks, closer>>

(***************************************************************************)
(* Close.                                                                  *)
(***************************************************************************)

CloseConn ==
  /\ \/ closer = "open" /\ closer' = "closed"
     \/ closer = "closed" /\ closer' = "conn"
  /\ UNCHANGED <<callVars, tableVars, asked, reader, asks, eof>>

CloseFails ==
  /\ closer = "conn"
  /\ closer' = "done"
  /\ FailPending
  /\ UNCHANGED <<callVars, asked, reader, asks, eof>>

CallStep(c) == AddPending(c) \/ Write(c) \/ WriteFails(c) \/ Receive(c)
CloseStep == closer # "open" /\ (CloseConn \/ CloseFails)

SCNext ==
  \/ \E c \in Calls : CheckClosed(c) \/ CallStep(c) \/ Timeout(c) \/ ReadReply(c)
  \/ ReadAsk \/ ServeAsk \/ ReadFails \/ ServerGone \/ CloseConn \/ CloseFails

SCSpec == SCInit /\ [][SCNext]_scVars

\* Calls need not time out, and the server need not answer.
SCFairness ==
  /\ \A c \in Calls : WF_scVars(CallStep(c))
  /\ WF_scVars(ReadFails) /\ WF_scVars(ServeAsk) /\ WF_scVars(CloseStep)

(***************************************************************************)
(* Properties.                                                             *)
(***************************************************************************)

\* The type invariant.
SCTypeOK ==
  /\ call \in [Calls -> {"new", "register", "write", "wait", "done"}]
  /\ inbox \in [Calls -> Calls \cup {NoCall, "failed"}]
  /\ outcome \in [Calls -> Calls \cup Returns]
  /\ pending \in [Ids -> Calls \cup {NoCall}] /\ failed \in BOOLEAN
  /\ asked \in SUBSET Calls /\ reader \in {"read", "serve", "ended"} /\ asks \in 0..MaxAsks
  /\ closer \in {"open", "closed", "conn", "done"} /\ eof \in BOOLEAN

\* A waiting call with an id of its own can always be reached: its result is there, or it
\* is registered and its reply not lost, however other calls time out, fail to write or
\* share an id, and however Close and the end of the stream meet its registration.
WaiterIsReachable ==
  \A c \in Own : call[c] = "wait" => inbox[c] # NoCall \/ (~failed /\ pending[c] = c /\ c \in asked)

\* Such a call returns nobody else's reply.
OwnReply == \A c \in Own : outcome[c] \in Calls => outcome[c] = c

\* The two, and the type invariant.
ConnectionInv == SCTypeOK /\ WaiterIsReachable /\ OwnReply

\* Once the connection is closed or the stream has ended every call with an id of its own
\* returns, without its context's deadline: a call that the server never answers, and a
\* call that was being registered.  Of a read loop that serves a call of the server's
\* only Close is independent.
CallsOver == (eof \/ closer # "open") => \A c \in Own : call[c] \in {"new", "done"}
EndedCallsReturn == <>[]CallsOver
================================================================================
