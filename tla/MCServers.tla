--------------------------------- MODULE MCServers ---------------------------------
(***************************************************************************)
(* What lies between the scheduler and a server: the process, the          *)
(* connection to it, and the bootstrap of its lists.  The components meet  *)
(* only through the calls that each of them abstracts, so a behaviour runs *)
(* one of them.                                                            *)
(***************************************************************************)
EXTENDS ServerConnection, InstanceProcess, MetadataBootstrap

VARIABLE part  \* the component that runs

vars == <<part, scVars, ipVars, mbVars>>

Init ==
  /\ part \in {"connection", "process", "bootstrap"}
  /\ SCInit /\ IPInit /\ MBInit
  /\ part = "process" \/ kind = [i \in Instances |-> "stdio"]
  /\ part = "bootstrap" \/ config = CHOOSE c \in Configs : TRUE

Next ==
  /\ UNCHANGED part
  /\ \/ part = "connection" /\ SCNext /\ UNCHANGED <<ipVars, mbVars>>
     \/ part = "process" /\ IPNext /\ UNCHANGED <<scVars, mbVars>>
     \/ part = "bootstrap" /\ MBNext /\ UNCHANGED <<scVars, ipVars>>

\* One kind of list: the lists of a spec are asked for one after the other.
OneKind == <<"tools">>

\* A component that does not run rests where none of its fair actions is enabled.
Spec == Init /\ [][Next]_vars /\ SCFairness /\ IPFairness /\ MBFairness

\* Calls of a connection that has ended, starts and runs of the bootstrap come to their end,
\* and leave nothing behind.  A behaviour follows one component, so each gets there on its own.
ServersSettle == []<>(CallsOver /\ EndedIsReaped /\ RunsEnded)

================================================================================
