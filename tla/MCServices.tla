-------------------------------- MODULE MCServices --------------------------------
(***************************************************************************)
(* What a core serves beside calls: the indexes, the watches of statuses   *)
(* and logs, the observability endpoint, the RPC server, and the           *)
(* application's life around them.  The components meet only through calls *)
(* that each of them abstracts, so a behaviour follows one of them.        *)
(***************************************************************************)
EXTENDS IndexRefresh, IndexLifecycle, StatusWatch, LogStream, ObservabilityServer, RpcServer, AppLifecycle

VARIABLE part  \* the component that runs

services == <<irVars, ilVars, swatchVars, logVars, hubVars, obsVars, rpcVars, appVars>>
vars == <<part, services>>

Init ==
  /\ part \in {"refresh", "lifecycle", "status", "logs", "hub", "observability", "rpc", "app"}
  /\ IRInit /\ ILInit /\ LogInit /\ HubInit /\ ObsInit /\ RSInit
  /\ IF part = "app" THEN APInit ELSE AppAt(CHOOSE i \in DOMAIN Order : Order[i] = "serve")
  /\ IF part = "status" THEN STInit ELSE STStored(FirstStatuses) /\ ~filtered
  /\ part = "lifecycle" \/ baseCfg = CHOOSE c \in Configs : TRUE
  /\ part = "rpc" \/ network = "tcp"

\* One session follows the log at length, the other to meet it.
ShortSession == handler[MaxSessions] # "none" => Len(entries) <= 1

Next ==
  /\ UNCHANGED part
  /\ \/ part = "refresh" /\ IRNext /\ UNCHANGED <<ilVars, swatchVars, logVars, hubVars, obsVars, rpcVars, appVars>>
     \/ part = "lifecycle" /\ ILNext /\ UNCHANGED <<irVars, swatchVars, logVars, hubVars, obsVars, rpcVars, appVars>>
     \/ part = "status" /\ STNext /\ UNCHANGED <<irVars, ilVars, logVars, hubVars, obsVars, rpcVars, appVars>>
     \/ part = "logs" /\ LogNext /\ ShortSession' /\ UNCHANGED <<irVars, ilVars, swatchVars, hubVars, obsVars, rpcVars, appVars>>
     \/ part = "hub" /\ HubNext /\ UNCHANGED <<irVars, ilVars, swatchVars, logVars, obsVars, rpcVars, appVars>>
     \/ part = "observability" /\ ObsNext /\ UNCHANGED <<irVars, ilVars, swatchVars, logVars, hubVars, rpcVars, appVars>>
     \/ part = "rpc" /\ RSNext /\ UNCHANGED <<irVars, ilVars, swatchVars, logVars, hubVars, obsVars, appVars>>
     \/ part = "app" /\ APNext /\ UNCHANGED <<irVars, ilVars, swatchVars, logVars, hubVars, obsVars, rpcVars>>

\* A component that does not run rests where none of its fair actions is enabled.
Spec ==
  /\ Init /\ [][Next]_vars
  /\ IRFairness /\ ILFairness /\ STFairness /\ LogFairness /\ ObsFairness /\ RSFairness /\ APFairness

\* The invariants of both halves of an index.
IndexInv == RefreshInv /\ LifecycleInv

\* What the watchers of statuses and of logs get.
WatchInv == StatusInv /\ LogInv

\* The servers of a core, and what Run leaves behind.
CoreInv == ObservabilityInv /\ RpcServerInv /\ AppInv

\* The gate of the refreshes is given back; loops, watches, sessions, servers and the core
\* itself come to their end, and who goes on watching catches up.  A behaviour follows one
\* component, so each gets there on its own.
ServicesSettle ==
  []<>(GateIsFree /\ LoopsOver /\ StatusSettled /\ SessionsOver /\ RunsOver /\ ServersOver /\ AppOver)

================================================================================
