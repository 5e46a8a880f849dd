---------------------------- MODULE MCSchedulerPool ----------------------------
(***************************************************************************)
(* SchedulerPool on small instances.  The processes are model values; each *)
(* .cfg chooses which goroutines take part.                                *)
(***************************************************************************)
EXTENDS SchedulerPoolInv, TLC

\* Callers and instances are interchangeable in the safety runs.
PoolSymmetry == Permutations(Callers) \cup Permutations(Instances)

\* Bound of pool_maintain: a setter works only while no StopSpec ran and nothing
\* is being probed, and the stop and the prober only once no minimum is set.
SettersFirst ==
  \/ generation = 0 /\ \A p \in Probers : pc[p] = "idle"
  \/ minReady = 0 /\ \A s \in Setters : pc[s] = "idle"

================================================================================
