----------------------------- MODULE ClientRegistry -----------------------------
(***************************************************************************)
(* The client registry of the control plane: which servers (spec keys) the *)
(* registered clients use, counted per spec, and the servers it has the    *)
(* init manager start and the scheduler stop as those counts change.       *)
(* (internal/app/controlplane/registry.)                                   *)
(*                                                                         *)
(* Counts change under ClientRegistry.mu.  What follows from a change is   *)
(* decided in a second critical section and carried out one spec at a time *)
(* outside the lock, so registrations, unregistrations, the reaping of     *)
(* dead clients and a catalog reload interleave between these steps.       *)
(***************************************************************************)
EXTENDS Integers, FiniteSets

CONSTANTS
  Callers,    \* goroutines of RegisterClient, UnregisterClient, reapDeadClients
  Reloader,   \* the goroutine of the reload manager
  Clients,    \* client names
  Internal,   \* internal clients: registered, never counted
  Specs,      \* spec keys
  AlwaysOn,   \* specs with activation mode always-on
  Selectors,  \* sets of specs that a client's tags or server name select
  Catalogs,   \* sets of specs a catalog may hold
  NoClient

Procs == Callers \cup {Reloader}

ASSUME RegistryAssumption ==
  /\ Reloader \notin Callers
  /\ Internal \subseteq Clients
  /\ NoClient \notin Clients
  /\ AlwaysOn \subseteq Specs
  /\ Selectors \subseteq SUBSET Specs
  /\ Catalogs \subseteq SUBSET Specs
  /\ IsFiniteSet(Clients)

VARIABLES
  catalog,     \* State.specRegistry: the specs of the applied catalog
  registered,  \* the keys of activeClients
  selector,    \* clientState.tags and .server, as the set they select
  specKeys,    \* clientState.specKeys
  specCounts,  \* specCounts
  warm,        \* specs whose last call to the init manager asked for instances
  pc, client,  \* per process: next step, client it works on
  choice,      \* per process: the selector of the call
  visible,     \* per process: spec keys (or catalog) read before the lock
  add, drop,   \* per process: toActivate, toDeactivate
  dead,        \* per process: clients the reaper has yet to unregister
  leftBehind   \* history: specs that no operation in progress settles

clientVars == <<registered, selector, specKeys, specCounts>>
workVars == <<choice, visible, dead>>
vars == <<catalog, clientVars, warm, pc, client, add, drop, workVars, leftBehind>>

PCs == {"idle", "registering", "activating", "starting", "deactivating",
        "stopping", "unregistering", "reaping", "applying"}

TypeOK ==
  /\ catalog \in Catalogs
  /\ registered \subseteq Clients
  /\ selector \in [Clients -> Selectors \cup {{}}]
  /\ specKeys \in [Clients -> SUBSET Specs]
  /\ specCounts \in [Specs -> Nat]
  /\ warm \subseteq Specs
  /\ pc \in [Procs -> PCs]
  /\ client \in [Procs -> Clients \cup {NoClient}]
  /\ choice \in [Procs -> Selectors \cup {{}}]
  /\ visible \in [Procs -> SUBSET Specs]
  /\ add \in [Procs -> SUBSET Specs]
  /\ drop \in [Procs -> SUBSET Specs]
  /\ dead \in [Procs -> SUBSET Clients]
  /\ leftBehind \subseteq Specs

Init ==
  /\ catalog \in Catalogs
  /\ registered = {}
  /\ selector = [c \in Clients |-> {}]
  /\ specKeys = [c \in Clients |-> {}]
  /\ specCounts = [s \in Specs |-> 0]
  /\ warm = AlwaysOn \cap catalog
  /\ pc = [p \in Procs |-> "idle"]
  /\ client = [p \in Procs |-> NoClient]
  /\ choice = [p \in Procs |-> {}]
  /\ visible = [p \in Procs |-> {}]
  /\ add = [p \in Procs |-> {}]
  /\ drop = [p \in Procs |-> {}]
  /\ dead = [p \in Procs |-> {}]
  /\ leftBehind = {}

--------------------------------------------------------------------------------
GoTo(p, next) == pc' = [pc EXCEPT ![p] = next]

\* What was read before the lock is not used after the critical section.
ForgetCall(p) ==
  /\ choice' = [choice EXCEPT ![p] = {}]
  /\ visible' = [visible EXCEPT ![p] = {}]

DeltaTwice(gained, lost) ==  \* mutant: a lost use is counted twice
  [s \in Specs |-> specCounts[s] + (IF s \in gained THEN 1 ELSE 0)
                                 - (IF s \in lost THEN 2 ELSE 0)]
\* applySpecDelta: a count that would reach zero is deleted.
Delta(gained, lost) ==
  [s \in Specs |->
     LET up == specCounts[s] + (IF s \in gained THEN 1 ELSE 0)
     IN  IF s \in lost THEN IF up <= 1 THEN 0 ELSE up - 1 ELSE up]

\* diffKeys, for a client that changes its selector.
GainedAll(c, next) == next  \* mutant: what the client had is added again
Gained(c, next) == next \ specKeys[c]
Lost(c, next) == specKeys[c] \ next

(* The history variable.  An operation settles a spec when it takes its      *)
(* count from or to zero and no other operation works on that spec.  A spec  *)
(* that two operations work on at once is left to chance, as are those the   *)
(* operation below abandons.                                                 *)
Work(p) ==
  add[p] \cup drop[p]
    \cup (IF pc[p] = "unregistering" THEN specKeys[client[p]] ELSE {})
Settle(p, gained, lost, abandoned) ==
  LET touched == gained \cup lost
      others == UNION {Work(q) : q \in Procs \ {p}}
      settled == {s \in touched : specCounts'[s] = 0
                                  \/ (s \in gained /\ specCounts'[s] = 1)}
  IN  leftBehind' = (leftBehind \ (settled \ others))
                      \cup (touched \cap others) \cup abandoned

--------------------------------------------------------------------------------
(* RegisterClient.                                                         *)

\* The visible spec keys are resolved against the catalog before the lock.
RegisterClient(p, c, sel) ==
  /\ pc[p] = "idle"
  /\ client' = [client EXCEPT ![p] = c]
  /\ choice' = [choice EXCEPT ![p] = sel]
  /\ visible' = [visible EXCEPT ![p] = sel \cap catalog]
  /\ GoTo(p, "registering")
  /\ UNCHANGED <<catalog, clientVars, warm, add, drop, dead, leftBehind>>

\* A known client with the same pid and selector: a heartbeat.
Heartbeat(p) ==
  /\ pc[p] = "registering"
  /\ client[p] \in registered
  /\ selector[client[p]] = choice[p]
  /\ GoTo(p, "idle")
  /\ client' = [client EXCEPT ![p] = NoClient]
  /\ ForgetCall(p)
  /\ UNCHANGED <<catalog, clientVars, warm, add, drop, dead, leftBehind>>

\* A new client, or a known one whose pid or selector differs.
RegisterLocked(p) ==
  LET c == client[p]
      gained == IF c \in Internal THEN {} ELSE Gained(c, visible[p])
      lost == IF c \in Internal THEN {} ELSE Lost(c, visible[p])
  IN  /\ pc[p] = "registering"
      /\ registered' = registered \cup {c}
      /\ selector' = [selector EXCEPT ![c] = choice[p]]
      /\ specKeys' = [specKeys EXCEPT ![c] = visible[p]]
      /\ specCounts' = Delta(gained, lost)
      /\ add' = [add EXCEPT ![p] = gained]
      /\ drop' = [drop EXCEPT ![p] = lost]
      /\ Settle(p, gained, lost, {})
      /\ GoTo(p, IF c \in Internal THEN "idle" ELSE "activating")
      /\ client' = [client EXCEPT ![p] = IF c \in Internal THEN NoClient ELSE c]
      /\ ForgetCall(p)
      /\ UNCHANGED <<catalog, warm, dead>>

(* activateSpecs: a section that filters, then one call per spec.            *)

FirstUse(S) == {s \in S : specCounts[s] = 1}

\* An error of activateSpecs makes RegisterClient unregister the client; the
\* specs it was to deactivate are forgotten.
ActivationFails(p) ==
  /\ add' = [add EXCEPT ![p] = {}]
  /\ drop' = [drop EXCEPT ![p] = {}]
  /\ leftBehind' = leftBehind \cup drop[p]
  /\ GoTo(p, "unregistering")

\* Only specs with one user are started; all of them must be known.  (The
\* registry is read just before the section, here in it.)
FilterStarts(p) ==
  /\ pc[p] = "activating"
  /\ \/ /\ FirstUse(add[p]) \subseteq catalog
        /\ add' = [add EXCEPT ![p] = FirstUse(@)]
        /\ GoTo(p, "starting")
        /\ UNCHANGED <<drop, leftBehind>>
     \/ ~(FirstUse(add[p]) \subseteq catalog) /\ ActivationFails(p)
  /\ UNCHANGED <<catalog, clientVars, warm, client, workVars>>

\* SetMinReady of the init manager, or of the scheduler when that refuses: both
\* know the specs of the catalog.
StartSpec(p) ==
  /\ pc[p] = "starting"
  /\ \E s \in add[p] :
       \/ /\ s \in catalog
          /\ warm' = warm \cup {s}
          /\ add' = [add EXCEPT ![p] = @ \ {s}]
          /\ UNCHANGED <<drop, pc, leftBehind>>
       \/ s \notin catalog /\ ActivationFails(p) /\ UNCHANGED warm
  /\ UNCHANGED <<catalog, clientVars, client, workVars>>

StartsDone(p) ==
  /\ pc[p] = "starting" /\ add[p] = {}
  /\ GoTo(p, "deactivating")
  /\ UNCHANGED <<catalog, clientVars, warm, client, add, drop, workVars, leftBehind>>

(* deactivateSpecs: likewise.                                                *)

AnyDropped(S) == S  \* mutant: specs with users are stopped too
Unused(S) == {s \in S : specCounts[s] = 0}

FilterStops(p) ==
  /\ pc[p] = "deactivating"
  /\ drop' = [drop EXCEPT ![p] = Unused(@) \ (AlwaysOn \cap catalog)]
  /\ GoTo(p, "stopping")
  /\ UNCHANGED <<catalog, clientVars, warm, client, add, workVars, leftBehind>>

\* SetMinReady(0) of the init manager, then StopSpec of the scheduler.
StopOne(p) ==
  /\ pc[p] = "stopping"
  /\ \E s \in drop[p] :
       /\ warm' = warm \ {s}
       /\ drop' = [drop EXCEPT ![p] = @ \ {s}]
  /\ UNCHANGED <<catalog, clientVars, pc, client, add, workVars, leftBehind>>

StopsDone(p) ==
  /\ pc[p] = "stopping" /\ drop[p] = {}
  /\ GoTo(p, IF dead[p] # {} THEN "reaping" ELSE "idle")
  /\ client' = [client EXCEPT ![p] = NoClient]
  /\ UNCHANGED <<catalog, clientVars, warm, add, drop, workVars, leftBehind>>

--------------------------------------------------------------------------------
(* UnregisterClient and reapDeadClients.                                   *)

UnregisterClient(p, c) ==
  /\ pc[p] = "idle"
  /\ client' = [client EXCEPT ![p] = c]
  /\ GoTo(p, "unregistering")
  /\ UNCHANGED <<catalog, clientVars, warm, add, drop, workVars, leftBehind>>

UnregisterLocked(p) ==
  LET c == client[p]
      lost == IF c \in Internal THEN {} ELSE specKeys[c]
  IN  /\ pc[p] = "unregistering"
      /\ registered' = registered \ {c}
      /\ selector' = [selector EXCEPT ![c] = {}]
      /\ specKeys' = [specKeys EXCEPT ![c] = {}]
      /\ specCounts' = Delta({}, lost)
      /\ drop' = [drop EXCEPT ![p] = lost]
      /\ Settle(p, {}, lost, {})
      /\ GoTo(p, "deactivating")
      /\ UNCHANGED <<catalog, warm, client, add, workVars>>

\* Clients without a heartbeat or with a dead process, found under the lock ...
ReapDeadClients(p) ==
  /\ pc[p] = "idle"
  /\ \E found \in (SUBSET registered) \ {{}} :
       dead' = [dead EXCEPT ![p] = found]
  /\ GoTo(p, "reaping")
  /\ UNCHANGED <<catalog, clientVars, warm, client, add, drop, choice, visible, leftBehind>>

\* ... and unregistered one after the other, whatever they did meanwhile.
ReapNext(p) ==
  /\ pc[p] = "reaping"
  /\ \E c \in dead[p] :
       /\ client' = [client EXCEPT ![p] = c]
       /\ dead' = [dead EXCEPT ![p] = @ \ {c}]
  /\ GoTo(p, "unregistering")
  /\ UNCHANGED <<catalog, clientVars, warm, add, drop, choice, visible, leftBehind>>

--------------------------------------------------------------------------------
(* A reload: the control plane's state takes the new catalog, then           *)
(* ApplyCatalogUpdate recomputes what every client uses.                     *)

UpdateCatalog(new) ==
  /\ pc[Reloader] = "idle"
  /\ catalog' = new
  /\ visible' = [visible EXCEPT ![Reloader] = new]
  /\ GoTo(Reloader, "applying")
  /\ UNCHANGED <<clientVars, warm, client, add, drop, choice, dead, leftBehind>>

Users(keys, s) == Cardinality({c \in registered \ Internal : s \in keys[c]})

\* A spec that goes from no users to several is not started (see FirstUse).
ApplyCatalogUpdate ==
  LET next == [c \in Clients |-> IF c \in registered
                                 THEN selector[c] \cap visible[Reloader]
                                 ELSE {}]
      count == [s \in Specs |-> Users(next, s)]
      starts == {s \in Specs : count[s] > 0 /\ specCounts[s] = 0}
      stops == {s \in Specs : specCounts[s] > 0 /\ count[s] = 0}
  IN  /\ pc[Reloader] = "applying"
      /\ specKeys' = next
      /\ specCounts' = count
      /\ add' = [add EXCEPT ![Reloader] = starts]
      /\ drop' = [drop EXCEPT ![Reloader] = stops]
      /\ Settle(Reloader, {s \in Specs : count[s] > specCounts[s]},
                {s \in Specs : count[s] < specCounts[s]},
                {s \in starts : count[s] > 1})
      /\ GoTo(Reloader, "activating")
      /\ ForgetCall(Reloader)
      /\ UNCHANGED <<catalog, registered, selector, warm, client, dead>>

--------------------------------------------------------------------------------
Propagate(p) ==
  \/ FilterStarts(p) \/ StartSpec(p) \/ StartsDone(p)
  \/ FilterStops(p) \/ StopOne(p) \/ StopsDone(p)

CallerStep(p) ==
  \/ \E c \in Clients, sel \in Selectors : RegisterClient(p, c, sel)
  \/ Heartbeat(p) \/ RegisterLocked(p)
  \/ \E c \in registered : UnregisterClient(p, c)
  \/ UnregisterLocked(p)
  \/ ReapDeadClients(p) \/ ReapNext(p)
  \/ Propagate(p)

ReloaderStep ==
  \/ \E new \in Catalogs \ {catalog} : UpdateCatalog(new)
  \/ ApplyCatalogUpdate
  \/ Propagate(Reloader)

Next == ReloaderStep \/ \E p \in Callers : CallerStep(p)

Spec == Init /\ [][Next]_vars

--------------------------------------------------------------------------------
(* Safety.                                                                 *)

\* A spec's count is the number of registered clients that use it, through every
\* interleaving of registrations, failed registrations, reaping and reloads: no
\* use is counted twice, none is lost.
CountsMatch == \A s \in Specs : specCounts[s] = Users(specKeys, s)

Quiet == \A p \in Procs : pc[p] = "idle"

\* When nothing is in progress the servers that run are those in use, apart from
\* the specs that operations left behind.
ActiveIffUsed ==
  Quiet => \A s \in Specs \ leftBehind :
             /\ specCounts[s] > 0 => s \in warm
             /\ s \in warm => specCounts[s] > 0 \/ s \in AlwaysOn

================================================================================
