-------------------------------- MODULE RpcServer --------------------------------
(***************************************************************************)
(* The server of the control plane (rpc/server.go): it takes its address,  *)
(* serves calls and watches until its context is done, and then stops,     *)
(* with grace as long as there is time.  Several cores may be on one       *)
(* address: a desktop application starts one while the other still stops,  *)
(* or somebody starts a second program.                                    *)
(*                                                                         *)
(* The address is a TCP port, which one server has, or the path of a unix  *)
(* socket, which leads to the server that bound it last until anyone       *)
(* removes it; "leadsTo" is that server, 0 for nobody.                     *)
(***************************************************************************)
EXTENDS Integers

CONSTANTS
  RpcServers,    \* in the order they are started
  MaxRpcCalls    \* bound: calls a server takes

ASSUME RpcServerAssumption == RpcServers \subseteq Nat \ {0} /\ MaxRpcCalls \in Nat

VARIABLES
  network, leadsTo,          \* of the configuration; the address
  at, failed,                \* Run of a server; whether it returns an error
  coreDone, listening, health, \* its context, its listener, its health service
  rpcCalls, watches, taken,     \* calls and streams under way, and how many there were
  unlinked                   \* ghost: servers whose path another one removed

rpcVars == <<network, leadsTo, at, failed, coreDone, listening, health, rpcCalls, watches, taken, unlinked>>

RSInit ==
  /\ network \in {"unix", "tcp"} /\ leadsTo = 0
  /\ at = [r \in RpcServers |-> "none"] /\ failed = {} /\ coreDone = {} /\ listening = {} /\ health = {}
  /\ rpcCalls = [r \in RpcServers |-> 0] /\ watches = [r \in RpcServers |-> 0] /\ taken = [r \in RpcServers |-> 0]
  /\ unlinked = {}

To(r, from, to) == at[r] \in from /\ at' = [at EXCEPT ![r] = to]

\* The path is removed, whoever it leads to: the program before may have left it.
RemovePath(r) ==
  /\ leadsTo' = IF network = "unix" \/ leadsTo = r THEN 0 ELSE leadsTo
  /\ unlinked' = IF leadsTo \notin {0, r} /\ leadsTo' = 0 THEN unlinked \cup {leadsTo} ELSE unlinked

callVars == <<rpcCalls, watches, taken>>

RunBegins(r) ==
  /\ \A q \in RpcServers : q < r => at[q] # "none"
  /\ To(r, {"none"}, "listen")
  /\ IF network = "unix" THEN RemovePath(r) ELSE UNCHANGED <<leadsTo, unlinked>>
  /\ UNCHANGED <<network, failed, coreDone, listening, health, callVars>>

\* The address is taken if nobody else has it.
Listen(r) ==
  /\ leadsTo = 0 /\ To(r, {"listen"}, "configure")
  /\ leadsTo' = r /\ listening' = listening \cup {r}
  /\ UNCHANGED <<network, failed, coreDone, health, callVars, unlinked>>

ListenFails(r) ==
  /\ leadsTo # 0 /\ To(r, {"listen"}, "done")
  /\ failed' = failed \cup {r}
  /\ UNCHANGED <<network, leadsTo, coreDone, listening, health, callVars, unlinked>>

\* The mode of the socket, the token, or the certificates: the listener is left as it is.
ConfigureFails(r) ==
  /\ To(r, {"configure"}, "done")
  /\ failed' = failed \cup {r}
  /\ UNCHANGED <<network, leadsTo, coreDone, listening, health, callVars, unlinked>>

ServeBegins(r) ==
  /\ To(r, {"configure"}, "serve")
  /\ health' = health \cup {r}
  /\ UNCHANGED <<network, leadsTo, failed, coreDone, listening, callVars, unlinked>>

\* A client that finds the address gets a call or a watch served.
CallTaken(r) ==
  /\ at[r] = "serve" /\ leadsTo = r /\ taken[r] < MaxRpcCalls
  /\ taken' = [taken EXCEPT ![r] = @ + 1]
  /\ \/ rpcCalls' = [rpcCalls EXCEPT ![r] = @ + 1] /\ UNCHANGED watches
     \/ watches' = [watches EXCEPT ![r] = @ + 1] /\ UNCHANGED rpcCalls
  /\ UNCHANGED <<network, leadsTo, at, failed, coreDone, listening, health, unlinked>>

CallEnds(r) ==
  /\ rpcCalls[r] > 0 /\ rpcCalls' = [rpcCalls EXCEPT ![r] = @ - 1]
  /\ UNCHANGED <<network, leadsTo, at, failed, coreDone, listening, health, watches, taken, unlinked>>

\* A watch goes on until its client gives it up.
WatchGivenUp(r) ==
  /\ watches[r] > 0 /\ watches' = [watches EXCEPT ![r] = @ - 1]
  /\ UNCHANGED <<network, leadsTo, at, failed, coreDone, listening, health, rpcCalls, taken, unlinked>>

CoreContextDone(r) ==
  /\ at[r] # "none" /\ r \notin coreDone /\ coreDone' = coreDone \cup {r}
  /\ UNCHANGED <<network, leadsTo, at, failed, listening, health, callVars, unlinked>>

\* GracefulStop closes the listener, which removes its path, and takes no more calls.
StopBegins(r) ==
  /\ To(r, {"serve"}, "graceful")
  /\ health' = health \ {r} /\ listening' = listening \ {r}
  /\ RemovePath(r)
  /\ UNCHANGED <<network, coreDone, callVars>>

ContextSeen(r) == r \in coreDone /\ StopBegins(r) /\ UNCHANGED failed

\* No connection can be accepted any more.
ServeFails(r) == StopBegins(r) /\ failed' = failed \cup {r}

\* Everybody is served; the path is removed once more.
Stopped(r) ==
  /\ rpcCalls[r] = 0 /\ watches[r] = 0 /\ To(r, {"graceful"}, "done")
  /\ RemovePath(r)
  /\ UNCHANGED <<network, failed, coreDone, listening, health, callVars>>

\* Mutant: the calls under way are left.
StopGivesUp(r) ==
  /\ To(r, {"graceful"}, "done") /\ failed' = failed \cup {r}
  /\ UNCHANGED <<network, leadsTo, coreDone, listening, health, callVars, unlinked>>

\* Five seconds are over: what is under way is cut off, and Stop reports the timeout.
StopTimesOut(r) ==
  /\ To(r, {"graceful"}, "done") /\ failed' = failed \cup {r}
  /\ rpcCalls' = [rpcCalls EXCEPT ![r] = 0] /\ watches' = [watches EXCEPT ![r] = 0]
  /\ UNCHANGED <<network, leadsTo, coreDone, listening, health, taken, unlinked>>

RSStep(r) ==
  \/ RunBegins(r) \/ Listen(r) \/ ListenFails(r) \/ ConfigureFails(r) \/ ServeBegins(r)
  \/ CallTaken(r) \/ CallEnds(r) \/ WatchGivenUp(r)
  \/ CoreContextDone(r) \/ ContextSeen(r) \/ ServeFails(r) \/ Stopped(r) \/ StopTimesOut(r)

RSNext == \E r \in RpcServers : RSStep(r)

\* Run goes on; the grace period ends.
RSFairness ==
  \A r \in RpcServers :
    /\ WF_rpcVars(Listen(r) \/ ListenFails(r) \/ ConfigureFails(r) \/ ServeBegins(r))
    /\ WF_rpcVars(ContextSeen(r)) /\ WF_rpcVars(Stopped(r) \/ StopTimesOut(r))

RSSpec == RSInit /\ [][RSNext]_rpcVars /\ RSFairness

(***************************************************************************)
(* Properties.                                                             *)
(***************************************************************************)

\* The type invariant.
RSTypeOK ==
  /\ network \in {"unix", "tcp"} /\ leadsTo \in RpcServers \cup {0}
  /\ \A r \in RpcServers : at[r] \in {"none", "listen", "configure", "serve", "graceful", "done"} /\ taken[r] \in 0..MaxRpcCalls
  /\ failed \cup coreDone \cup listening \cup health \cup unlinked \subseteq RpcServers

\* The address leads to a server that listens there, and a server that serves is found at it
\* unless another one has removed the path.
AddressLeadsToServer ==
  /\ leadsTo # 0 => leadsTo \in listening
  /\ \A r \in health : leadsTo = r \/ r \in unlinked

\* On a port only one server serves, and who has it keeps it.
PortIsKept == network = "tcp" => unlinked = {} /\ \A r, q \in health : r = q

\* When Run has returned nothing of the server is left, except the listener of one that
\* could not be configured.
NothingIsLeft ==
  \A r \in RpcServers : at[r] = "done" =>
    /\ rpcCalls[r] = 0 /\ watches[r] = 0 /\ r \notin health
    /\ r \in listening => r \in failed /\ taken[r] = 0

\* The three, and the type invariant.
RpcServerInv == RSTypeOK /\ AddressLeadsToServer /\ PortIsKept /\ NothingIsLeft

\* A server whose context is done returns, whatever its clients do.
ServersOver == \A r \in coreDone : at[r] \in {"none", "done"}
ServersStop == <>[]ServersOver
================================================================================
