----------------------------- MODULE InstanceLease -----------------------------
(***************************************************************************)
(* What a pool promises its callers, without saying how: an instance is    *)
(* launched, opened for leases, closed for good and stopped; a lease is    *)
(* granted on an open instance only, and never beyond its capacity.  A     *)
(* closed instance is never reopened, an open one never stopped.           *)
(***************************************************************************)
EXTENDS Naturals, FiniteSets

CONSTANTS Clients, Instances, Capacity, None

VARIABLES
  phase,  \* per instance: "off", "up" (launched), "open" or "closed"
  lease   \* per client: the instance it holds, or None

leaseVars == <<phase, lease>>

Holding(i) == {c \in Clients : lease[c] = i}

Init ==
  /\ phase = [i \in Instances |-> "off"]
  /\ lease = [c \in Clients |-> None]

Launch(i) ==
  /\ phase[i] = "off" /\ Holding(i) = {}
  /\ phase' = [phase EXCEPT ![i] = "up"]
  /\ UNCHANGED lease

Open(i) ==
  /\ phase[i] = "up"
  /\ phase' = [phase EXCEPT ![i] = "open"]
  /\ UNCHANGED lease

\* The client that had the instance launched takes the first lease as it opens.
OpenFor(c, i) ==
  /\ phase[i] = "up" /\ Holding(i) = {} /\ lease[c] = None
  /\ phase' = [phase EXCEPT ![i] = "open"]
  /\ lease' = [lease EXCEPT ![c] = i]

Grant(c, i) ==
  /\ phase[i] = "open" /\ lease[c] = None
  /\ Cardinality(Holding(i)) < Capacity
  /\ lease' = [lease EXCEPT ![c] = i]
  /\ UNCHANGED phase

GiveBack(c) ==
  /\ lease[c] # None
  /\ lease' = [lease EXCEPT ![c] = None]
  /\ UNCHANGED phase

\* Several instances may be closed at once.
Close(S) ==
  /\ \A i \in S : phase[i] = "open"
  /\ phase' = [i \in Instances |-> IF i \in S THEN "closed" ELSE phase[i]]
  /\ UNCHANGED lease

\* An instance that never opened may be stopped too.
Stop(i) ==
  /\ phase[i] \in {"up", "closed"}
  /\ phase' = [phase EXCEPT ![i] = "off"]
  /\ UNCHANGED lease

Next ==
  \/ \E i \in Instances : Launch(i) \/ Open(i) \/ Stop(i)
  \/ \E c \in Clients, i \in Instances : OpenFor(c, i) \/ Grant(c, i)
  \/ \E c \in Clients : GiveBack(c)
  \/ \E S \in SUBSET Instances : Close(S)

Spec == Init /\ [][Next]_leaseVars

================================================================================
