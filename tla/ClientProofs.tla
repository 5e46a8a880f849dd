------------------------------ MODULE ClientProofs ------------------------------
(***************************************************************************)
(* The clients of mcpv, for any number of clients, specs, tasks, callers,  *)
(* plugins, snapshots and reloads.  The registry keeps exactly the used    *)
(* servers active; the task manager gives every task one final outcome and *)
(* a listing that is complete; the stream brings the gateway the client's  *)
(* view unless a snapshot was dropped on the way; and the governance       *)
(* pipeline fails closed.                                                  *)
(***************************************************************************)
EXTENDS ClientRegistry, SnapshotWatch, PluginPipeline, TaskManager, FiniteSetTheorems, TLAPS

--------------------------------------------------------------------------------
(* The registry of the clients.                                            *)

\* A goroutine that registers or unregisters knows for whom.
HasClient ==
  \A p \in Callers :
    pc[p] \in {"registering", "activating", "starting", "unregistering"} =>
      client[p] \in Clients

\* A client that is gone uses nothing.
GoneUsesNothing == \A c \in Clients \ registered : specKeys[c] = {}

RegistryInv == TypeOK /\ HasClient /\ GoneUsesNothing /\ CountsMatch

UsersOf(s) == {c \in registered \ Internal : s \in specKeys[c]}

--------------------------------------------------------------------------------
(* What the helpers return.                                                *)

\* The users of a spec are finitely many.
LEMMA UsersFinite ==
  ASSUME TypeOK, NEW s
  PROVE  IsFiniteSet(UsersOf(s)) /\ Cardinality(UsersOf(s)) \in Nat
BY FS_Subset, FS_CardinalityType, RegistryAssumption DEF TypeOK, UsersOf

\* applySpecDelta yields natural counts.
LEMMA DeltaNat ==
  ASSUME TypeOK, NEW gained, NEW lost
  PROVE  Delta(gained, lost) \in [Specs -> Nat]
BY DEF Delta, TypeOK

\* Each gained use adds one to the count of a spec, each lost one takes one.
LEMMA DeltaValue ==
  ASSUME TypeOK, NEW gained, NEW lost, gained \cap lost = {}, NEW s \in Specs
  PROVE  /\ s \in gained => Delta(gained, lost)[s] = specCounts[s] + 1
         /\ s \in lost /\ specCounts[s] > 0 =>
              Delta(gained, lost)[s] = specCounts[s] - 1
         /\ s \notin gained \cup lost => Delta(gained, lost)[s] = specCounts[s]
<1>1. specCounts[s] \in Nat
  BY DEF TypeOK
<1>2. Delta(gained, lost)[s] =
        LET up == specCounts[s] + (IF s \in gained THEN 1 ELSE 0)
        IN  IF s \in lost THEN IF up <= 1 THEN 0 ELSE up - 1 ELSE up
  BY DEF Delta
<1> QED
  BY <1>1, <1>2

\* The set of specs a client uses changes, nothing else does: the counts that
\* Delta computes from what it gains and loses are those of the new users.
LEMMA CountsFollow ==
  ASSUME TypeOK, GoneUsesNothing, CountsMatch, NEW c \in Clients,
         NEW next \in SUBSET Specs,
         specKeys' = [specKeys EXCEPT ![c] = next],
         registered' \ {c} = registered \ {c},
         c \in registered' \/ next = {},
         specCounts' = IF c \in Internal THEN specCounts
                       ELSE Delta(Gained(c, next), Lost(c, next))
  PROVE  CountsMatch'
<1> SUFFICES ASSUME NEW s \in Specs
             PROVE  specCounts'[s] = Cardinality(UsersOf(s)')
  BY DEF CountsMatch, Users, UsersOf
<1>1. specCounts[s] = Cardinality(UsersOf(s)) /\ specCounts[s] \in Nat
  BY DEF CountsMatch, Users, UsersOf, TypeOK
<1>2. IsFiniteSet(UsersOf(s)) /\ Cardinality(UsersOf(s)) \in Nat
  BY UsersFinite
<1>3. \A d \in Clients : specKeys'[d] = IF d = c THEN next ELSE specKeys[d]
  BY DEF TypeOK
<1>4. registered \subseteq Clients /\ registered' \subseteq Clients
  BY DEF TypeOK
<1>5. CASE c \in Internal
  <2>1. UsersOf(s)' = UsersOf(s)
    BY <1>3, <1>4, <1>5 DEF UsersOf
  <2> QED
    BY <1>1, <1>5, <2>1
<1>6. CASE c \notin Internal /\ s \in Gained(c, next)
  <2>1. UsersOf(s)' = UsersOf(s) \cup {c} /\ c \notin UsersOf(s)
    BY <1>3, <1>4, <1>6 DEF UsersOf, Gained
  <2>2. specCounts'[s] = specCounts[s] + 1
    BY <1>6, DeltaValue DEF Gained, Lost
  <2>3. Cardinality(UsersOf(s) \cup {c}) = Cardinality(UsersOf(s)) + 1
    BY <1>2, <2>1, FS_AddElement
  <2> QED
    BY <1>1, <2>1, <2>2, <2>3
<1>7. CASE c \notin Internal /\ s \in Lost(c, next)
  <2>1. c \in registered
    BY <1>7 DEF Lost, GoneUsesNothing
  <2>2. UsersOf(s)' = UsersOf(s) \ {c} /\ c \in UsersOf(s)
    BY <1>3, <1>4, <1>7, <2>1 DEF UsersOf, Lost
  <2>3. Cardinality(UsersOf(s)) > 0
    BY <1>2, <2>2, FS_EmptySet
  <2>4. specCounts'[s] = specCounts[s] - 1
    BY <1>1, <1>7, <2>3, DeltaValue DEF Gained, Lost
  <2>5. Cardinality(UsersOf(s) \ {c}) = Cardinality(UsersOf(s)) - 1
    BY <1>2, <2>2, FS_RemoveElement
  <2> QED
    BY <1>1, <2>2, <2>4, <2>5
<1>8. CASE c \notin Internal /\ s \notin Gained(c, next) \cup Lost(c, next)
  <2>1. s \in next <=> s \in specKeys[c]
    BY <1>8 DEF Gained, Lost
  <2>2. UsersOf(s)' = UsersOf(s)
    BY <1>3, <1>4, <2>1 DEF UsersOf, GoneUsesNothing
  <2>3. specCounts'[s] = specCounts[s]
    BY <1>8, DeltaValue DEF Gained, Lost
  <2> QED
    BY <1>1, <2>2, <2>3
<1> QED
  BY <1>5, <1>6, <1>7, <1>8

--------------------------------------------------------------------------------
(* Steps.                                                                  *)

\* The empty registry satisfies the invariant.
LEMMA RegistryInvInit == Init => RegistryInv
<1> SUFFICES ASSUME Init PROVE RegistryInv
  OBVIOUS
<1>1. TypeOK
  BY RegistryAssumption DEF Init, TypeOK, PCs, Procs
<1>2. HasClient /\ GoneUsesNothing
  BY DEF Init, HasClient, GoneUsesNothing, Procs
<1>3. CountsMatch
  <2>1. \A s \in Specs : {c \in registered \ Internal : s \in specKeys[c]} = {}
    BY DEF Init
  <2> QED
    BY <2>1, FS_EmptySet DEF Init, CountsMatch, Users
<1> QED
  BY <1>1, <1>2, <1>3 DEF RegistryInv

\* Whatever leaves the registered clients and their counts alone keeps the
\* invariant, as long as types and clients of calls stay right.
LEMMA CountsUntouched ==
  ASSUME RegistryInv, UNCHANGED clientVars
  PROVE  GoneUsesNothing' /\ CountsMatch'
BY DEF RegistryInv, GoneUsesNothing, CountsMatch, Users, clientVars

\* activateSpecs and deactivateSpecs.
LEMMA PropagateInv ==
  ASSUME RegistryInv, NEW p \in Procs, Propagate(p)
  PROVE  RegistryInv'
<1>1. UNCHANGED clientVars
  BY DEF Propagate, FilterStarts, StartSpec, StartsDone, FilterStops, StopOne, StopsDone
<1>2. GoneUsesNothing' /\ CountsMatch'
  BY <1>1, CountsUntouched
<1>3. TypeOK' /\ HasClient'
  <2> USE DEF RegistryInv, TypeOK, HasClient, PCs, GoTo, clientVars, workVars
  <2>1. CASE FilterStarts(p)
    BY <2>1 DEF FilterStarts, FirstUse, ActivationFails, Procs
  <2>2. CASE StartSpec(p)
    BY <2>2 DEF StartSpec, ActivationFails, Procs
  <2>3. CASE StartsDone(p)
    BY <2>3 DEF StartsDone, Procs
  <2>4. CASE FilterStops(p)
    BY <2>4 DEF FilterStops, Unused, Procs
  <2>5. CASE StopOne(p)
    BY <2>5 DEF StopOne, Procs
  <2>6. CASE StopsDone(p)
    BY <2>6 DEF StopsDone, Procs
  <2> QED
    BY <2>1, <2>2, <2>3, <2>4, <2>5, <2>6 DEF Propagate
<1> QED
  BY <1>2, <1>3 DEF RegistryInv

\* The registration section.
LEMMA RegisterLockedInv ==
  ASSUME RegistryInv, NEW p \in Callers, RegisterLocked(p)
  PROVE  RegistryInv'
<1> DEFINE c == client[p]
           gained == IF c \in Internal THEN {} ELSE Gained(c, visible[p])
           lost == IF c \in Internal THEN {} ELSE Lost(c, visible[p])
<1>1. c \in Clients /\ visible[p] \in SUBSET Specs /\ p \in Procs
  BY DEF RegistryInv, HasClient, TypeOK, RegisterLocked, Procs
<1>2. gained \subseteq Specs /\ lost \subseteq Specs
  BY <1>1 DEF Gained, Lost, RegistryInv, TypeOK
<1>3. CountsMatch'
  <2>1. specCounts' = IF c \in Internal THEN specCounts
                      ELSE Delta(Gained(c, visible[p]), Lost(c, visible[p]))
    <3>1. Delta({}, {}) = specCounts
      BY DEF Delta, RegistryInv, TypeOK
    <3> QED
      BY <3>1 DEF RegisterLocked
  <2> QED
    BY <1>1, <2>1, CountsFollow DEF RegistryInv, RegisterLocked
<1>4. GoneUsesNothing'
  BY <1>1 DEF RegistryInv, GoneUsesNothing, RegisterLocked, TypeOK
<1>5. HasClient'
  BY <1>1 DEF RegistryInv, HasClient, RegisterLocked, GoTo, TypeOK, Procs
<1>6. TypeOK'
  <2>1. specCounts' \in [Specs -> Nat]
    BY DeltaNat DEF RegisterLocked, RegistryInv
  <2>2. leftBehind' \subseteq Specs
    BY <1>2 DEF RegisterLocked, Settle, RegistryInv, TypeOK
  <2> QED
    BY <1>1, <1>2, <2>1, <2>2
       DEF RegisterLocked, ForgetCall, GoTo, RegistryInv, TypeOK, PCs
<1> QED
  BY <1>3, <1>4, <1>5, <1>6 DEF RegistryInv

\* The section that unregisters a client.
LEMMA UnregisterLockedInv ==
  ASSUME RegistryInv, NEW p \in Callers, UnregisterLocked(p)
  PROVE  RegistryInv'
<1> DEFINE c == client[p]
           lost == IF c \in Internal THEN {} ELSE specKeys[c]
<1>1. c \in Clients /\ p \in Procs
  BY DEF RegistryInv, HasClient, UnregisterLocked, Procs
<1>2. lost \subseteq Specs
  BY <1>1 DEF RegistryInv, TypeOK
<1>3. CountsMatch'
  <2>1. specCounts' = IF c \in Internal THEN specCounts
                      ELSE Delta(Gained(c, {}), Lost(c, {}))
    <3>1. Delta({}, {}) = specCounts
      BY DEF Delta, RegistryInv, TypeOK
    <3>2. Gained(c, {}) = {} /\ Lost(c, {}) = specKeys[c]
      BY DEF Gained, Lost
    <3> QED
      BY <3>1, <3>2 DEF UnregisterLocked
  <2> QED
    <3>1. TypeOK /\ GoneUsesNothing /\ CountsMatch
      BY DEF RegistryInv
    <3>2. /\ specKeys' = [specKeys EXCEPT ![c] = {}]
          /\ registered' \ {c} = registered \ {c}
      BY DEF UnregisterLocked
    <3>3. {} \in SUBSET Specs /\ c \in Clients
      BY <1>1
    <3> HIDE DEF c
    <3> QED
      BY <2>1, <3>1, <3>2, <3>3, CountsFollow
<1>4. GoneUsesNothing'
  BY <1>1 DEF RegistryInv, GoneUsesNothing, UnregisterLocked, TypeOK
<1>5. HasClient'
  BY <1>1 DEF RegistryInv, HasClient, UnregisterLocked, GoTo, TypeOK, Procs
<1>6. TypeOK'
  <2>1. specCounts' \in [Specs -> Nat]
    BY DeltaNat DEF UnregisterLocked, RegistryInv
  <2>2. leftBehind' \subseteq Specs
    BY <1>2 DEF UnregisterLocked, Settle, RegistryInv, TypeOK
  <2> QED
    BY <1>1, <1>2, <2>1, <2>2
       DEF UnregisterLocked, GoTo, RegistryInv, TypeOK, PCs, workVars
<1> QED
  BY <1>3, <1>4, <1>5, <1>6 DEF RegistryInv

\* A caller's steps outside the two sections that change counts.
LEMMA CallerOtherInv ==
  ASSUME RegistryInv, NEW p \in Callers,
         \/ \E c \in Clients, sel \in Selectors : RegisterClient(p, c, sel)
         \/ Heartbeat(p)
         \/ \E c \in registered : UnregisterClient(p, c)
         \/ ReapDeadClients(p) \/ ReapNext(p)
  PROVE  RegistryInv'
<1>1. UNCHANGED clientVars
  BY DEF RegisterClient, Heartbeat, UnregisterClient, ReapDeadClients, ReapNext
<1>2. GoneUsesNothing' /\ CountsMatch'
  BY <1>1, CountsUntouched
<1>3. TypeOK' /\ HasClient'
  <2>1. p \in Procs
    BY DEF Procs
  <2> USE <2>1, RegistryAssumption
      DEF RegistryInv, TypeOK, HasClient, PCs, GoTo, clientVars, workVars
  <2>2. ASSUME NEW c \in Clients, NEW sel \in Selectors, RegisterClient(p, c, sel)
        PROVE  TypeOK' /\ HasClient'
    BY <2>2 DEF RegisterClient, Procs
  <2>3. CASE Heartbeat(p)
    BY <2>3 DEF Heartbeat, ForgetCall, Procs
  <2>4. ASSUME NEW c \in registered, UnregisterClient(p, c)
        PROVE  TypeOK' /\ HasClient'
    BY <2>4 DEF UnregisterClient, Procs
  <2>5. CASE ReapDeadClients(p)
    BY <2>5 DEF ReapDeadClients, Procs
  <2>6. CASE ReapNext(p)
    BY <2>6 DEF ReapNext, Procs
  <2> QED
    BY <2>2, <2>3, <2>4, <2>5, <2>6
<1> QED
  BY <1>2, <1>3 DEF RegistryInv

\* The new catalog becomes visible.
LEMMA UpdateCatalogInv ==
  ASSUME RegistryInv, NEW new \in Catalogs, UpdateCatalog(new)
  PROVE  RegistryInv'
<1>1. GoneUsesNothing' /\ CountsMatch'
  BY CountsUntouched DEF UpdateCatalog
<1>2. TypeOK' /\ HasClient'
  BY RegistryAssumption
     DEF UpdateCatalog, GoTo, RegistryInv, TypeOK, HasClient, PCs, Procs, clientVars
<1> QED
  BY <1>1, <1>2 DEF RegistryInv

\* The section that recomputes every client's specs.
LEMMA ApplyCatalogUpdateInv ==
  ASSUME RegistryInv, ApplyCatalogUpdate
  PROVE  RegistryInv'
<1> DEFINE next == [c \in Clients |-> IF c \in registered
                                     THEN selector[c] \cap visible[Reloader]
                                     ELSE {}]
<1>1. next \in [Clients -> SUBSET Specs] /\ Reloader \in Procs
  BY RegistryAssumption DEF RegistryInv, TypeOK, Procs
<1>2. \A s \in Specs : Users(next, s) \in Nat
  BY FS_Subset, FS_CardinalityType, RegistryAssumption DEF RegistryInv, TypeOK, Users
<1>3. /\ specKeys' = next /\ registered' = registered
      /\ specCounts' = [s \in Specs |-> Users(next, s)]
  BY DEF ApplyCatalogUpdate
<1> HIDE DEF next
<1>4. CountsMatch'
  BY <1>3 DEF CountsMatch, Users
<1>5. GoneUsesNothing'
  BY <1>3 DEF GoneUsesNothing, next
<1>6. HasClient'
  BY RegistryAssumption DEF RegistryInv, HasClient, ApplyCatalogUpdate, GoTo, TypeOK, Procs
<1>7. TypeOK'
  <2>1. /\ add' \in [Procs -> SUBSET Specs] /\ drop' \in [Procs -> SUBSET Specs]
        /\ leftBehind' \subseteq Specs
    BY <1>1 DEF ApplyCatalogUpdate, Settle, RegistryInv, TypeOK
  <2>2. specKeys' \in [Clients -> SUBSET Specs] /\ specCounts' \in [Specs -> Nat]
    BY <1>1, <1>2, <1>3
  <2> QED
    BY <1>1, <2>1, <2>2
       DEF ApplyCatalogUpdate, ForgetCall, GoTo, RegistryInv, TypeOK, PCs
<1> QED
  BY <1>4, <1>5, <1>6, <1>7 DEF RegistryInv

\* Every step of every goroutine preserves the invariant.
LEMMA RegistryInvStep == RegistryInv /\ [Next]_vars => RegistryInv'
<1> SUFFICES ASSUME RegistryInv, [Next]_vars PROVE RegistryInv'
  OBVIOUS
<1>1. CASE UNCHANGED vars
  BY <1>1 DEF vars, clientVars, workVars, RegistryInv, TypeOK, HasClient,
     GoneUsesNothing, CountsMatch, Users
<1>2. ASSUME NEW p \in Callers, CallerStep(p) PROVE RegistryInv'
  <2>1. p \in Procs
    BY DEF Procs
  <2> QED
    BY <1>2, <2>1, RegisterLockedInv, UnregisterLockedInv, CallerOtherInv,
       PropagateInv DEF CallerStep
<1>3. CASE ReloaderStep
  <2>1. Reloader \in Procs
    BY DEF Procs
  <2> QED
    BY <1>3, <2>1, UpdateCatalogInv, ApplyCatalogUpdateInv, PropagateInv
       DEF ReloaderStep
<1> QED
  BY <1>1, <1>2, <1>3 DEF Next

\* Type correctness of the registry; no count ever falls below zero.
THEOREM RegistryTypeCorrect == Spec => []TypeOK
<1>1. RegistryInv => TypeOK
  BY DEF RegistryInv
<1> QED
  BY <1>1, RegistryInvInit, RegistryInvStep, PTL DEF Spec

\* specCounts[s] is the number of registered clients that use s, after every
\* critical section of RegisterClient, UnregisterClient and ApplyCatalogUpdate
\* (client_registry.go:139-183, 218-229, client_registry_catalog.go:16-36).
THEOREM CountsAreExact == Spec => []CountsMatch
<1>1. RegistryInv => CountsMatch
  BY DEF RegistryInv
<1> QED
  BY <1>1, RegistryInvInit, RegistryInvStep, PTL DEF Spec

--------------------------------------------------------------------------------
(* What runs is what is used.                                              *)

\* Who works on a spec: a goroutine that will start or stop it, and one that is
\* about to unregister a client that uses it.
Actor(p, s) == s \in add[p] \cup drop[p]
Leaver(p, s) ==
  /\ pc[p] = "unregistering"
  /\ client[p] \in Clients \ Internal
  /\ s \in specKeys[client[p]]

\* The lists of specs live from the section that computes them to the end of the
\* operation, and a reload only starts specs of its own catalog.
WorkInv ==
  /\ \A c \in Clients : specKeys[c] \subseteq selector[c]
  /\ \A p \in Callers :
       /\ pc[p] = "registering" => visible[p] \subseteq choice[p]
       /\ pc[p] \in {"activating", "starting"} => client[p] \notin Internal
  /\ \A p \in Procs :
       /\ add[p] # {} => pc[p] \in {"activating", "starting"}
       /\ drop[p] # {} => pc[p] \in {"activating", "starting", "deactivating", "stopping"}
       /\ add[p] \cap drop[p] = {}
  /\ pc[Reloader] \in {"idle", "applying", "activating", "starting",
                       "deactivating", "stopping"}
  /\ pc[Reloader] = "applying" => visible[Reloader] = catalog
  /\ add[Reloader] \subseteq catalog
  /\ dead[Reloader] = {}

\* A spec to start is used, and runs unless its user is the first.
StartsRight(p, s) ==
  s \in add[p] =>
    /\ specCounts[s] >= 1
    /\ specCounts[s] >= 2 => s \in warm
    /\ pc[p] = "starting" => specCounts[s] = 1
    /\ p \in Callers => s \in specKeys[client[p]]

\* A spec that lost a user runs if it has others.
StopsRight(p, s) ==
  s \in drop[p] =>
    /\ specCounts[s] > 0 => s \in warm
    /\ pc[p] = "stopping" => specCounts[s] = 0

\* Between operations a spec runs iff it is used; a client whose activation
\* failed is about to give its use back.
RestsRight(s) ==
  (\A p \in Procs : ~Actor(p, s)) =>
    /\ specCounts[s] >= 2 => s \in warm
    /\ s \in warm => specCounts[s] > 0 \/ s \in AlwaysOn
    /\ specCounts[s] > 0 /\ (\A p \in Procs : ~Leaver(p, s)) => s \in warm

SpecInv(s) ==
  /\ \A p, q \in Procs : Actor(p, s) /\ Actor(q, s) => p = q
  /\ \A p \in Procs : StartsRight(p, s) /\ StopsRight(p, s)
  /\ RestsRight(s)

SettledInv == RegistryInv /\ WorkInv /\ \A s \in Specs \ leftBehind : SpecInv(s)

\* The empty registry is settled.
LEMMA SettledInit == Init => SettledInv
<1> SUFFICES ASSUME Init PROVE SettledInv
  OBVIOUS
<1>1. RegistryInv
  BY RegistryInvInit
<1>2. WorkInv
  BY RegistryAssumption DEF Init, WorkInv, Procs
<1>3. \A s \in Specs : SpecInv(s)
  BY DEF Init, SpecInv, Actor, StartsRight, StopsRight, RestsRight
<1> QED
  BY <1>1, <1>2, <1>3 DEF SettledInv

\* A spec that a section touches is in nobody else's work, unless it stays left
\* behind; one that it does not touch stays as it was.
LEMMA SettleMeans ==
  ASSUME NEW p \in Procs, NEW gained, NEW lost, NEW abandoned,
         Settle(p, gained, lost, abandoned),
         NEW s \in Specs \ leftBehind'
  PROVE  /\ s \in gained \cup lost =>
              /\ \A q \in Procs \ {p} : s \notin Work(q)
              /\ \/ s \notin leftBehind
                 \/ specCounts'[s] = 0
                 \/ s \in gained /\ specCounts'[s] = 1
         /\ s \notin gained \cup lost => s \notin leftBehind
         /\ s \notin abandoned
BY DEF Settle

\* Work is what actors and leavers do.
LEMMA WorkMeans ==
  ASSUME NEW q \in Procs, NEW s, s \notin Work(q)
  PROVE  ~Actor(q, s) /\ ~Leaver(q, s)
BY DEF Work, Actor, Leaver

--------------------------------------------------------------------------------
(* The sections that change counts.                                        *)

\* A section of a caller: the specs that its client gains or loses become its
\* work, the others keep their condition.
LEMMA SectionKeeps ==
  ASSUME SettledInv, CountsMatch', NEW p \in Callers,
         pc[p] \in {"registering", "unregistering"},
         NEW c \in Clients, c = client[p],
         NEW next \in SUBSET Specs,
         pc[p] = "unregistering" => next = {},
         NEW gained, NEW lost,
         gained = (IF c \in Internal THEN {} ELSE Gained(c, next)),
         lost = (IF c \in Internal THEN {} ELSE Lost(c, next)),
         specKeys' = [specKeys EXCEPT ![c] = next],
         specCounts' = Delta(gained, lost),
         add' = [add EXCEPT ![p] = gained],
         drop' = [drop EXCEPT ![p] = lost],
         Settle(p, gained, lost, {}),
         warm' = warm,
         \A q \in Procs \ {p} : pc'[q] = pc[q] /\ client'[q] = client[q],
         c \in Internal \/ client'[p] = c,
         pc'[p] \in {"idle", "activating", "deactivating"},
         pc'[p] = "deactivating" => gained = {},
         NEW s \in Specs \ leftBehind'
  PROVE  SpecInv(s)'
<1> USE RegistryAssumption DEF Procs
<1>1. TypeOK /\ CountsMatch /\ GoneUsesNothing /\ WorkInv
  BY DEF SettledInv, RegistryInv
<1>2. /\ p \in Procs /\ add[p] = {} /\ drop[p] = {}
      /\ specCounts[s] \in Nat /\ specCounts'[s] \in Nat
  BY <1>1, DeltaNat DEF WorkInv, TypeOK
<1>3. /\ \A q \in Procs : add'[q] = IF q = p THEN gained ELSE add[q]
      /\ \A q \in Procs : drop'[q] = IF q = p THEN lost ELSE drop[q]
      /\ \A d \in Clients : specKeys'[d] = IF d = c THEN next ELSE specKeys[d]
  BY <1>1 DEF TypeOK
<1>4. gained \cap lost = {}
  BY DEF Gained, Lost
<1>5. CASE s \in gained \cup lost
  <2>1. /\ c \notin Internal
        /\ s \in gained => s \in next /\ s \notin specKeys[c]
        /\ s \in lost => s \notin next /\ s \in specKeys[c]
    BY <1>5 DEF Gained, Lost
  <2>2. \A q \in Procs \ {p} : ~Actor(q, s) /\ ~Leaver(q, s)
    BY <1>2, <1>5, SettleMeans, WorkMeans
  <2>3. \A q \in Procs : ~Actor(q, s)
    BY <1>2, <2>2 DEF Actor
  <2>4. \/ s \notin leftBehind
        \/ specCounts'[s] = 0
        \/ s \in gained /\ specCounts'[s] = 1
    BY <1>2, <1>5, SettleMeans
  <2>5. \A q \in Procs : Actor(q, s)' <=> q = p
    BY <1>3, <1>5, <2>3 DEF Actor
  <2>6. s \in gained => specCounts'[s] = specCounts[s] + 1
    BY <1>1, <1>4, DeltaValue
  <2>7. s \in lost => specCounts'[s] = specCounts[s] - 1
    <3>1. ASSUME s \in lost PROVE specCounts[s] > 0
      <4>1. c \in UsersOf(s)
        BY <1>1, <2>1, <3>1 DEF UsersOf, GoneUsesNothing
      <4>2. specCounts[s] = Cardinality(UsersOf(s))
        BY <1>1 DEF CountsMatch, Users, UsersOf
      <4>3. IsFiniteSet(UsersOf(s))
        BY <1>1, UsersFinite
      <4> QED
        BY <1>2, <4>1, <4>2, <4>3, FS_EmptySet
    <3> QED
      BY <1>1, <1>4, <3>1, DeltaValue
  <2>8. s \notin leftBehind => RestsRight(s)
    BY DEF SettledInv, SpecInv
  <2>9. s \in gained /\ specCounts'[s] >= 2 => s \in warm
    <3> SUFFICES ASSUME s \in gained, specCounts'[s] >= 2 PROVE s \in warm
      OBVIOUS
    <3>1. s \notin leftBehind /\ specCounts[s] > 0
      BY <1>2, <2>4, <2>6
    <3>2. ~Leaver(p, s)
      BY <2>1 DEF Leaver
    <3> QED
      BY <2>2, <2>3, <2>8, <3>1, <3>2 DEF RestsRight
  <2>10. s \in lost /\ specCounts'[s] > 0 => s \in warm
    <3> SUFFICES ASSUME s \in lost, specCounts'[s] > 0 PROVE s \in warm
      OBVIOUS
    <3>1. s \notin leftBehind /\ specCounts[s] >= 2
      BY <1>2, <1>4, <2>4, <2>7
    <3> QED
      BY <2>3, <2>8, <3>1 DEF RestsRight
  <2>11. \A q \in Procs : StartsRight(q, s)' /\ StopsRight(q, s)'
    <3>1. ASSUME NEW q \in Procs, q # p PROVE StartsRight(q, s)' /\ StopsRight(q, s)'
      BY <2>5, <3>1 DEF Actor, StartsRight, StopsRight
    <3>2. s \in add'[p] => s \in gained /\ s \in specKeys'[client'[p]]
      BY <1>3, <2>1
    <3>3. StartsRight(p, s)'
      BY <1>2, <2>6, <2>9, <3>2 DEF StartsRight
    <3>4. StopsRight(p, s)'
      BY <1>2, <1>3, <2>10 DEF StopsRight
    <3> QED
      BY <3>1, <3>3, <3>4
  <2>12. RestsRight(s)'
    BY <1>2, <2>5 DEF RestsRight
  <2> QED
    BY <2>5, <2>11, <2>12 DEF SpecInv
<1>6. CASE s \notin gained \cup lost
  <2>1. s \notin leftBehind
    BY <1>2, <1>6, SettleMeans
  <2>2. SpecInv(s)
    BY <2>1 DEF SettledInv
  <2>3. specCounts'[s] = specCounts[s]
    BY <1>1, <1>4, <1>6, DeltaValue
  <2>4. \A d \in Clients \ Internal : s \in specKeys'[d] <=> s \in specKeys[d]
    BY <1>3, <1>6 DEF Gained, Lost
  <2>5. \A q \in Procs : Actor(q, s)' <=> Actor(q, s)
    BY <1>2, <1>3, <1>6 DEF Actor
  <2>6. ~Actor(p, s)
    BY <1>2 DEF Actor
  <2>7. \A q \in Callers : s \in add[q] => client[q] \in Clients \ Internal
    BY <1>1, <2>6 DEF WorkInv, SettledInv, RegistryInv, HasClient
  <2>8. \A q \in Procs : StartsRight(q, s)' /\ StopsRight(q, s)'
    <3> TAKE q \in Procs
    <3>1. CASE q = p
      BY <2>5, <2>6, <3>1 DEF Actor, StartsRight, StopsRight
    <3>2. CASE q # p
      <4>1. /\ add'[q] = add[q] /\ drop'[q] = drop[q]
            /\ pc'[q] = pc[q] /\ client'[q] = client[q]
        BY <1>3, <3>2
      <4>2. StartsRight(q, s) /\ StopsRight(q, s)
        BY <2>2 DEF SpecInv
      <4>3. q \in Callers /\ s \in add[q] /\ s \in specKeys[client[q]]
              => s \in specKeys'[client[q]]
        BY <2>4, <2>7
      <4> QED
        BY <2>3, <4>1, <4>2, <4>3 DEF StartsRight, StopsRight
    <3> QED
      BY <3>1, <3>2
  <2>9. \A q \in Procs \ {p} : Leaver(q, s)' <=> Leaver(q, s)
    BY <2>4 DEF Leaver
  <2>10. ~Leaver(p, s)
    BY <1>3, <1>6, <2>4 DEF Leaver, Gained, Lost
  <2>11. RestsRight(s)'
    <3>1. RestsRight(s)
      BY <2>2 DEF SpecInv
    <3>2. (\A q \in Procs : ~Leaver(q, s)') => (\A q \in Procs : ~Leaver(q, s))
      BY <2>9, <2>10
    <3> QED
      BY <2>3, <2>5, <3>1, <3>2 DEF RestsRight
  <2> QED
    BY <2>2, <2>5, <2>8, <2>11 DEF SpecInv
<1> QED
  BY <1>5, <1>6

\* The registration section.
LEMMA RegisterLockedSettled ==
  ASSUME SettledInv, NEW p \in Callers, RegisterLocked(p)
  PROVE  SettledInv'
<1> DEFINE c == client[p]
           gained == IF c \in Internal THEN {} ELSE Gained(c, visible[p])
           lost == IF c \in Internal THEN {} ELSE Lost(c, visible[p])
<1>1. RegistryInv' /\ CountsMatch'
  BY RegisterLockedInv DEF SettledInv, RegistryInv
<1>2. /\ c \in Clients /\ visible[p] \in SUBSET Specs /\ p \in Procs
      /\ pc[p] = "registering" /\ p # Reloader
  BY RegistryAssumption
     DEF SettledInv, RegistryInv, HasClient, TypeOK, RegisterLocked, Procs
<1>3. /\ specKeys' = [specKeys EXCEPT ![c] = visible[p]]
      /\ specCounts' = Delta(gained, lost)
      /\ add' = [add EXCEPT ![p] = gained]
      /\ drop' = [drop EXCEPT ![p] = lost]
      /\ Settle(p, gained, lost, {})
      /\ warm' = warm /\ catalog' = catalog /\ dead' = dead
      /\ selector' = [selector EXCEPT ![c] = choice[p]]
      /\ visible' = [visible EXCEPT ![p] = {}]
      /\ choice' = [choice EXCEPT ![p] = {}]
      /\ pc' = [pc EXCEPT ![p] = IF c \in Internal THEN "idle" ELSE "activating"]
      /\ client' = [client EXCEPT ![p] = IF c \in Internal THEN NoClient ELSE c]
  BY DEF RegisterLocked, GoTo, ForgetCall
<1>4. TypeOK /\ WorkInv
  BY DEF SettledInv, RegistryInv
<1>5. /\ \A q \in Procs \ {p} : pc'[q] = pc[q] /\ client'[q] = client[q]
      /\ c \in Internal \/ client'[p] = c
      /\ pc'[p] = IF c \in Internal THEN "idle" ELSE "activating"
  BY <1>2, <1>3, <1>4 DEF TypeOK
<1>6. ASSUME NEW s \in Specs \ leftBehind' PROVE SpecInv(s)'
  <2>1. /\ gained = (IF c \in Internal THEN {} ELSE Gained(c, visible[p]))
        /\ lost = (IF c \in Internal THEN {} ELSE Lost(c, visible[p]))
        /\ c = client[p]
    OBVIOUS
  <2> DEFINE next == visible[p]
  <2>2. next \in SUBSET Specs /\ next = visible[p]
    BY <1>2
  <2> HIDE DEF c, gained, lost, next
  <2>3. /\ pc[p] \in {"registering", "unregistering"} /\ c \in Clients
        /\ pc[p] = "unregistering" => next = {}
        /\ specKeys' = [specKeys EXCEPT ![c] = next]
        /\ gained = (IF c \in Internal THEN {} ELSE Gained(c, next))
        /\ lost = (IF c \in Internal THEN {} ELSE Lost(c, next))
    BY <1>2, <1>3, <2>1, <2>2
  <2>4. /\ pc'[p] \in {"idle", "activating", "deactivating"}
        /\ pc'[p] = "deactivating" => gained = {}
    BY <1>5
  <2>5. /\ specCounts' = Delta(gained, lost)
        /\ add' = [add EXCEPT ![p] = gained]
        /\ drop' = [drop EXCEPT ![p] = lost]
        /\ Settle(p, gained, lost, {})
        /\ warm' = warm
    BY <1>3
  <2>6. /\ \A q \in Procs \ {p} : pc'[q] = pc[q] /\ client'[q] = client[q]
        /\ c \in Internal \/ client'[p] = c
    BY <1>5
  <2>7. c = client[p] /\ CountsMatch'
    BY <1>1, <2>1
  <2> QED
    BY <1>6, <2>2, <2>3, <2>4, <2>5, <2>6, <2>7, SectionKeeps
<1>7. WorkInv'
  <2>1. gained \cap lost = {} /\ (c \in Internal => gained = {} /\ lost = {})
    BY DEF Gained, Lost
  <2> HIDE DEF c, gained, lost
  <2>2. \A d \in Clients : specKeys'[d] \subseteq selector'[d]
    BY <1>2, <1>3, <1>4 DEF WorkInv, TypeOK, c
  <2>3. \A q \in Callers :
          /\ pc'[q] = "registering" => visible'[q] \subseteq choice'[q]
          /\ pc'[q] \in {"activating", "starting"} => client'[q] \notin Internal
    BY <1>2, <1>3, <1>4, <1>5 DEF WorkInv, TypeOK, Procs
  <2>4. \A q \in Procs :
          /\ add'[q] # {} => pc'[q] \in {"activating", "starting"}
          /\ drop'[q] # {} =>
               pc'[q] \in {"activating", "starting", "deactivating", "stopping"}
          /\ add'[q] \cap drop'[q] = {}
    BY <1>2, <1>3, <1>4, <1>5, <2>1 DEF WorkInv, TypeOK
  <2>5. /\ pc'[Reloader] = pc[Reloader] /\ visible'[Reloader] = visible[Reloader]
        /\ add'[Reloader] = add[Reloader] /\ dead'[Reloader] = dead[Reloader]
    BY <1>2, <1>3, <1>4 DEF TypeOK
  <2> QED
    BY <1>3, <1>4, <2>2, <2>3, <2>4, <2>5 DEF WorkInv
<1> QED
  BY <1>1, <1>6, <1>7 DEF SettledInv

\* The section that unregisters a client.
LEMMA UnregisterLockedSettled ==
  ASSUME SettledInv, NEW p \in Callers, UnregisterLocked(p)
  PROVE  SettledInv'
<1> DEFINE c == client[p]
           none == {}
           lost == IF c \in Internal THEN {} ELSE specKeys[c]
<1>1. RegistryInv' /\ CountsMatch'
  BY UnregisterLockedInv DEF SettledInv, RegistryInv
<1>2. /\ c \in Clients /\ p \in Procs
      /\ pc[p] = "unregistering" /\ p # Reloader
  BY RegistryAssumption
     DEF SettledInv, RegistryInv, HasClient, TypeOK, UnregisterLocked, Procs
<1>3. TypeOK /\ WorkInv /\ add[p] = {}
  BY <1>2 DEF SettledInv, RegistryInv, WorkInv
<1>4. /\ specKeys' = [specKeys EXCEPT ![c] = {}]
      /\ specCounts' = Delta({}, lost)
      /\ add' = add
      /\ drop' = [drop EXCEPT ![p] = lost]
      /\ Settle(p, {}, lost, {})
      /\ warm' = warm /\ catalog' = catalog /\ client' = client
      /\ selector' = [selector EXCEPT ![c] = {}]
      /\ UNCHANGED workVars
      /\ pc' = [pc EXCEPT ![p] = "deactivating"]
  BY DEF UnregisterLocked, GoTo
<1>5. /\ \A q \in Procs \ {p} : pc'[q] = pc[q] /\ client'[q] = client[q]
      /\ client'[p] = c
      /\ pc'[p] = "deactivating"
      /\ add' = [add EXCEPT ![p] = {}]
  BY <1>2, <1>3, <1>4 DEF TypeOK
<1>6. ASSUME NEW s \in Specs \ leftBehind' PROVE SpecInv(s)'
  <2>1. /\ none = (IF c \in Internal THEN {} ELSE Gained(c, {}))
        /\ lost = (IF c \in Internal THEN {} ELSE Lost(c, {}))
        /\ c = client[p] /\ none = {}
    BY DEF Gained, Lost
  <2> HIDE DEF c, lost, none
  <2> QED
    BY <1>1, <1>2, <1>4, <1>5, <1>6, <2>1, SectionKeeps
<1>7. WorkInv'
  <2> HIDE DEF c, lost
  <2>2. \A d \in Clients : specKeys'[d] \subseteq selector'[d]
    BY <1>2, <1>3, <1>4 DEF WorkInv, TypeOK
  <2>3. \A q \in Callers :
          /\ pc'[q] = "registering" => visible'[q] \subseteq choice'[q]
          /\ pc'[q] \in {"activating", "starting"} => client'[q] \notin Internal
    BY <1>2, <1>3, <1>4, <1>5 DEF WorkInv, TypeOK, Procs, workVars
  <2>4. \A q \in Procs :
          /\ add'[q] # {} => pc'[q] \in {"activating", "starting"}
          /\ drop'[q] # {} =>
               pc'[q] \in {"activating", "starting", "deactivating", "stopping"}
          /\ add'[q] \cap drop'[q] = {}
    BY <1>2, <1>3, <1>4, <1>5 DEF WorkInv, TypeOK
  <2>5. /\ pc'[Reloader] = pc[Reloader] /\ visible'[Reloader] = visible[Reloader]
        /\ add'[Reloader] = add[Reloader] /\ dead'[Reloader] = dead[Reloader]
    BY <1>2, <1>3, <1>4 DEF TypeOK, workVars
  <2> QED
    BY <1>3, <1>4, <2>2, <2>3, <2>4, <2>5 DEF WorkInv
<1> QED
  BY <1>1, <1>6, <1>7 DEF SettledInv

\* A reload: what a client loses has no user left, so that it is stopped.
LEMMA ApplyCatalogUpdateSettled ==
  ASSUME SettledInv, ApplyCatalogUpdate
  PROVE  SettledInv'
<1> USE RegistryAssumption
<1> DEFINE next == [c \in Clients |-> IF c \in registered
                                     THEN selector[c] \cap visible[Reloader]
                                     ELSE {}]
           count == [s \in Specs |-> Users(next, s)]
           starts == {s \in Specs : count[s] > 0 /\ specCounts[s] = 0}
           stops == {s \in Specs : specCounts[s] > 0 /\ count[s] = 0}
           more == {s \in Specs : count[s] > specCounts[s]}
           fewer == {s \in Specs : count[s] < specCounts[s]}
           several == {s \in starts : count[s] > 1}
<1>1. RegistryInv' /\ CountsMatch'
  BY ApplyCatalogUpdateInv DEF SettledInv, RegistryInv
<1>2. TypeOK /\ GoneUsesNothing /\ CountsMatch /\ WorkInv /\ Reloader \in Procs
  BY DEF SettledInv, RegistryInv, Procs
<1>3. /\ pc[Reloader] = "applying" /\ pc' = [pc EXCEPT ![Reloader] = "activating"]
      /\ specKeys' = next /\ specCounts' = count
      /\ add' = [add EXCEPT ![Reloader] = starts]
      /\ drop' = [drop EXCEPT ![Reloader] = stops]
      /\ Settle(Reloader, more, fewer, several)
      /\ visible' = [visible EXCEPT ![Reloader] = {}]
      /\ choice' = [choice EXCEPT ![Reloader] = {}]
      /\ UNCHANGED <<catalog, registered, selector, warm, client, dead>>
  BY DEF ApplyCatalogUpdate, GoTo, ForgetCall
<1>4. /\ add[Reloader] = {} /\ drop[Reloader] = {}
      /\ visible[Reloader] = catalog
  BY <1>2, <1>3 DEF WorkInv
<1>5. \A s \in Specs : specCounts[s] \in Nat /\ specCounts'[s] \in Nat
  BY <1>1, <1>2 DEF RegistryInv, TypeOK
<1>6. \A s \in Specs : count[s] > 0 => s \in catalog
  <2> SUFFICES ASSUME NEW s \in Specs, s \notin catalog PROVE ~(count[s] > 0)
    OBVIOUS
  <2>1. \A c \in registered \ Internal : s \notin next[c]
    BY <1>2, <1>4 DEF TypeOK
  <2>2. count[s] = Users(next, s)
    OBVIOUS
  <2> HIDE DEF next, count
  <2>3. {c \in registered \ Internal : s \in next[c]} = {}
    BY <2>1
  <2>4. Users(next, s) = 0
    BY <2>3, FS_EmptySet DEF Users
  <2> QED
    BY <2>2, <2>4
<1>7. \A c \in Clients \ Internal, s \in Specs :
        s \in specKeys[c] /\ s \notin specKeys'[c] => s \in fewer
  <2> SUFFICES ASSUME NEW c \in Clients \ Internal, NEW s \in Specs,
                      s \in specKeys[c], s \notin specKeys'[c]
               PROVE  specCounts'[s] < specCounts[s]
    BY <1>3
  <2>1. c \in registered /\ s \in selector[c]
    BY <1>2 DEF GoneUsesNothing, WorkInv
  <2>2. s \notin catalog
    BY <1>3, <1>4, <2>1
  <2>3. ~(specCounts'[s] > 0)
    BY <1>3, <1>6, <2>2
  <2>4. c \in UsersOf(s) /\ IsFiniteSet(UsersOf(s))
    BY <1>2, <2>1, UsersFinite DEF UsersOf
  <2>5. specCounts[s] = Cardinality(UsersOf(s))
    BY <1>2 DEF CountsMatch, Users, UsersOf
  <2>6. specCounts[s] # 0
    BY <2>4, <2>5, FS_EmptySet
  <2> QED
    BY <1>5, <2>3, <2>6
<1> HIDE DEF next, count
<1>8. \A q \in Procs : q # Reloader => /\ pc'[q] = pc[q] /\ client'[q] = client[q]
                                       /\ add'[q] = add[q] /\ drop'[q] = drop[q]
  BY <1>2, <1>3 DEF TypeOK
<1>9. add'[Reloader] = starts /\ drop'[Reloader] = stops /\ pc'[Reloader] = "activating"
  BY <1>2, <1>3 DEF TypeOK
<1>10. ASSUME NEW s \in Specs \ leftBehind' PROVE SpecInv(s)'
  <2>1. specCounts[s] \in Nat /\ specCounts'[s] \in Nat /\ specCounts'[s] = count[s]
    BY <1>3, <1>5
  <2>2. s \notin several
    BY <1>2, <1>3, SettleMeans
  <2>3. ~Actor(Reloader, s) /\ ~Leaver(Reloader, s)
    BY <1>3, <1>4 DEF Actor, Leaver
  <2>4. CASE s \in more \cup fewer
    <3>1. \A q \in Procs : ~Actor(q, s) /\ ~Leaver(q, s)
      BY <1>2, <1>3, <2>3, <2>4, SettleMeans, WorkMeans
    <3>2. \/ s \notin leftBehind
          \/ specCounts'[s] = 0
          \/ s \in more /\ specCounts'[s] = 1
      BY <1>2, <1>3, <2>4, SettleMeans
    <3>3. s \notin leftBehind => RestsRight(s)
      BY DEF SettledInv, SpecInv
    <3>4. \A q \in Procs : Actor(q, s)' => q = Reloader
      BY <1>8, <3>1 DEF Actor
    <3>5. \A q \in Procs : StartsRight(q, s)' /\ StopsRight(q, s)'
      <4>1. ASSUME NEW q \in Procs, q # Reloader
            PROVE  StartsRight(q, s)' /\ StopsRight(q, s)'
        BY <3>4, <4>1 DEF Actor, StartsRight, StopsRight
      <4>2. StartsRight(Reloader, s)'
        BY <1>9, <2>1, <2>2 DEF StartsRight
      <4>3. StopsRight(Reloader, s)'
        BY <1>9, <2>1 DEF StopsRight
      <4> QED
        BY <4>1, <4>2, <4>3
    <3>6. RestsRight(s)'
      <4> SUFFICES ASSUME ~Actor(Reloader, s)' PROVE RestsRight(s)'
        BY <1>2 DEF RestsRight
      <4>1. specCounts[s] > 0 /\ specCounts'[s] > 0
        BY <1>9, <2>1, <2>4 DEF Actor
      <4>2. s \notin leftBehind
        BY <2>1, <2>4, <3>2, <4>1
      <4>3. s \in warm
        BY <3>1, <3>3, <4>1, <4>2 DEF RestsRight
      <4> QED
        BY <1>3, <4>1, <4>3 DEF RestsRight
    <3> QED
      BY <3>4, <3>5, <3>6 DEF SpecInv
  <2>5. CASE s \notin more \cup fewer
    <3>1. s \notin leftBehind /\ specCounts'[s] = specCounts[s]
      BY <1>2, <1>3, <2>1, <2>5, SettleMeans
    <3>2. SpecInv(s)
      BY <3>1 DEF SettledInv
    <3>3. \A d \in Clients \ Internal : s \in specKeys[d] => s \in specKeys'[d]
      BY <1>7, <2>5
    <3>4. s \notin starts /\ s \notin stops
      BY <1>3, <2>1, <3>1
    <3>5. \A q \in Procs : Actor(q, s)' <=> Actor(q, s)
      BY <1>8, <1>9, <2>3, <3>4 DEF Actor
    <3>6. \A q \in Callers : s \in add[q] => client[q] \in Clients \ Internal
      BY <1>2 DEF WorkInv, SettledInv, RegistryInv, HasClient, Procs
    <3>7. \A q \in Procs : StartsRight(q, s)' /\ StopsRight(q, s)'
      <4> TAKE q \in Procs
      <4>1. CASE q = Reloader
        BY <2>3, <3>5, <4>1 DEF Actor, StartsRight, StopsRight
      <4>2. CASE q # Reloader
        <5>1. StartsRight(q, s) /\ StopsRight(q, s)
          BY <3>2 DEF SpecInv
        <5> QED
          BY <1>3, <1>8, <3>1, <3>3, <3>6, <4>2, <5>1 DEF StartsRight, StopsRight
      <4> QED
        BY <4>1, <4>2
    <3>8. \A q \in Procs : Leaver(q, s) => Leaver(q, s)'
      BY <1>8, <2>3, <3>3 DEF Leaver
    <3>9. RestsRight(s)'
      BY <1>3, <3>1, <3>2, <3>5, <3>8 DEF SpecInv, RestsRight
    <3> QED
      BY <3>2, <3>5, <3>7, <3>9 DEF SpecInv
  <2> QED
    BY <2>4, <2>5
<1>11. WorkInv'
  <2>1. \A d \in Clients : specKeys'[d] \subseteq selector'[d]
    BY <1>3 DEF next
  <2>2. \A q \in Callers :
          /\ pc'[q] = "registering" => visible'[q] \subseteq choice'[q]
          /\ pc'[q] \in {"activating", "starting"} => client'[q] \notin Internal
    BY <1>2, <1>3, <1>8 DEF WorkInv, TypeOK, Procs
  <2>3. \A q \in Procs :
          /\ add'[q] # {} => pc'[q] \in {"activating", "starting"}
          /\ drop'[q] # {} =>
               pc'[q] \in {"activating", "starting", "deactivating", "stopping"}
          /\ add'[q] \cap drop'[q] = {}
    <3>1. starts \cap stops = {}
      BY <1>3, <1>5
    <3> QED
      BY <1>2, <1>8, <1>9, <3>1 DEF WorkInv
  <2>4. add'[Reloader] \subseteq catalog'
    BY <1>3, <1>6, <1>9
  <2>5. dead'[Reloader] = {}
    BY <1>2, <1>3 DEF WorkInv
  <2> QED
    BY <1>9, <2>1, <2>2, <2>3, <2>4, <2>5 DEF WorkInv
<1> QED
  BY <1>1, <1>10, <1>11 DEF SettledInv

--------------------------------------------------------------------------------
(* The other steps.                                                        *)

\* A step that works off the lists of one goroutine keeps the condition of a
\* spec, if the spec is right for what remains of them.
LEMMA WorkKeeps ==
  ASSUME SettledInv, NEW p \in Procs, NEW s \in Specs \ leftBehind',
         leftBehind \subseteq leftBehind',
         UNCHANGED clientVars,
         \A q \in Procs \ {p} : /\ pc'[q] = pc[q] /\ client'[q] = client[q]
                                /\ add'[q] = add[q] /\ drop'[q] = drop[q],
         Actor(p, s)' => Actor(p, s),
         StartsRight(p, s)' /\ StopsRight(p, s)',
         ~Actor(p, s) => /\ s \in warm' <=> s \in warm
                         /\ Leaver(p, s) => Leaver(p, s)',
         Actor(p, s) /\ ~Actor(p, s)' =>
           /\ specCounts[s] >= 2 => s \in warm'
           /\ s \in warm' => specCounts[s] > 0 \/ s \in AlwaysOn
           /\ specCounts[s] > 0 /\ ~Leaver(p, s)' => s \in warm'
  PROVE  SpecInv(s)'
<1>1. s \notin leftBehind /\ SpecInv(s)
  BY DEF SettledInv
<1>2. specCounts' = specCounts /\ specKeys' = specKeys
  BY DEF clientVars
<1>3. \A q \in Procs \ {p} : Actor(q, s)' <=> Actor(q, s)
  BY DEF Actor
<1>4. \A q, r \in Procs : Actor(q, s)' /\ Actor(r, s)' => q = r
  BY <1>1, <1>3 DEF SpecInv
<1>5. ASSUME NEW q \in Procs, q # p PROVE StartsRight(q, s)' /\ StopsRight(q, s)'
  <2>1. CASE Actor(q, s)
    <3>1. ~Actor(p, s)
      BY <1>1, <1>5, <2>1 DEF SpecInv
    <3>2. s \in warm' <=> s \in warm
      BY <3>1
    <3>3. StartsRight(q, s) /\ StopsRight(q, s)
      BY <1>1 DEF SpecInv
    <3> QED
      BY <1>2, <1>5, <3>2, <3>3 DEF StartsRight, StopsRight
  <2>2. CASE ~Actor(q, s)
    BY <1>5, <2>2 DEF Actor, StartsRight, StopsRight
  <2> QED
    BY <2>1, <2>2
<1>6. RestsRight(s)'
  <2> SUFFICES ASSUME \A q \in Procs : ~Actor(q, s)'
               PROVE  /\ specCounts[s] >= 2 => s \in warm'
                      /\ s \in warm' => specCounts[s] > 0 \/ s \in AlwaysOn
                      /\ specCounts[s] > 0 /\ (\A q \in Procs : ~Leaver(q, s)')
                           => s \in warm'
    BY <1>2 DEF RestsRight
  <2>1. CASE Actor(p, s)
    BY <2>1
  <2>2. CASE ~Actor(p, s)
    <3>1. \A q \in Procs : ~Actor(q, s)
      BY <1>3, <2>2
    <3>2. \A q \in Procs \ {p} : Leaver(q, s) => Leaver(q, s)'
      BY <1>2 DEF Leaver
    <3>3. (\A q \in Procs : ~Leaver(q, s)') => (\A q \in Procs : ~Leaver(q, s))
      BY <2>2, <3>2
    <3> QED
      BY <1>1, <2>2, <3>1, <3>3 DEF SpecInv, RestsRight
  <2> QED
    BY <2>1, <2>2
<1> QED
  BY <1>4, <1>5, <1>6 DEF SpecInv

\* A goroutine without lists that works on nothing yet.
LEMMA IdleKeeps ==
  ASSUME SettledInv, NEW p \in Procs, add[p] = {}, drop[p] = {},
         UNCHANGED <<clientVars, warm, add, drop, leftBehind>>,
         \A q \in Procs \ {p} : pc'[q] = pc[q] /\ client'[q] = client[q],
         pc[p] # "unregistering"
  PROVE  \A s \in Specs \ leftBehind' : SpecInv(s)'
<1> SUFFICES ASSUME NEW s \in Specs \ leftBehind' PROVE SpecInv(s)'
  OBVIOUS
<1>1. ~Actor(p, s) /\ ~Leaver(p, s) /\ ~Actor(p, s)'
  BY DEF Actor, Leaver
<1>2. StartsRight(p, s)' /\ StopsRight(p, s)'
  BY DEF StartsRight, StopsRight
<1> QED
  BY <1>1, <1>2, WorkKeeps

\* An error of activateSpecs: the specs that were to start are in the client that
\* is unregistered next.
LEMMA ActivationFailsKeeps ==
  ASSUME SettledInv, NEW p \in Callers, pc[p] \in {"activating", "starting"},
         ActivationFails(p),
         UNCHANGED <<catalog, clientVars, warm, client, workVars>>
  PROVE  WorkInv' /\ \A s \in Specs \ leftBehind' : SpecInv(s)'
<1>1. TypeOK /\ HasClient /\ WorkInv /\ p \in Procs /\ p # Reloader
  BY RegistryAssumption DEF SettledInv, RegistryInv, Procs
<1>2. /\ add' = [add EXCEPT ![p] = {}] /\ drop' = [drop EXCEPT ![p] = {}]
      /\ leftBehind' = leftBehind \cup drop[p]
      /\ pc' = [pc EXCEPT ![p] = "unregistering"]
  BY DEF ActivationFails, GoTo
<1>3. client[p] \in Clients \ Internal
  BY <1>1 DEF HasClient, WorkInv
<1>4. /\ pc'[p] = "unregistering" /\ add'[p] = {} /\ drop'[p] = {}
      /\ \A q \in Procs \ {p} : /\ pc'[q] = pc[q] /\ client'[q] = client[q]
                                /\ add'[q] = add[q] /\ drop'[q] = drop[q]
  BY <1>1, <1>2 DEF TypeOK
<1>5. WorkInv'
  BY <1>1, <1>4 DEF WorkInv, clientVars, workVars, Procs
<1>6. ASSUME NEW s \in Specs \ leftBehind' PROVE SpecInv(s)'
  <2>1. /\ s \notin drop[p] /\ SpecInv(s) /\ leftBehind \subseteq leftBehind'
    BY <1>2 DEF SettledInv
  <2>2. ~Actor(p, s)' /\ StartsRight(p, s)' /\ StopsRight(p, s)' /\ ~Leaver(p, s)
    BY <1>4 DEF Actor, StartsRight, StopsRight, Leaver
  <2>3. ASSUME Actor(p, s)
        PROVE  /\ specCounts[s] >= 2 => s \in warm
               /\ specCounts[s] > 0
               /\ Leaver(p, s)'
    <3>1. s \in add[p] /\ StartsRight(p, s)
      BY <1>1, <2>1, <2>3 DEF Actor, SpecInv
    <3>2. specCounts[s] \in Nat
      BY <1>1 DEF TypeOK
    <3> QED
      BY <1>3, <1>4, <3>1, <3>2 DEF StartsRight, Leaver, clientVars
  <2> QED
    BY <1>1, <1>4, <1>6, <2>1, <2>2, <2>3, WorkKeeps
<1> QED
  BY <1>5, <1>6

\* The filter of activateSpecs.
LEMMA FilterStartsSettled ==
  ASSUME SettledInv, NEW p \in Procs, FilterStarts(p)
  PROVE  WorkInv' /\ \A s \in Specs \ leftBehind' : SpecInv(s)'
<1>1. TypeOK /\ WorkInv
  BY DEF SettledInv, RegistryInv
<1>2. CASE ~(FirstUse(add[p]) \subseteq catalog) /\ ActivationFails(p)
  <2>1. p \in Callers
    BY <1>1, <1>2 DEF WorkInv, FirstUse, Procs
  <2> QED
    BY <1>2, <2>1, ActivationFailsKeeps DEF FilterStarts
<1>3. CASE /\ add' = [add EXCEPT ![p] = FirstUse(@)]
           /\ GoTo(p, "starting")
           /\ UNCHANGED <<drop, leftBehind>>
  <2>1. pc[p] = "activating" /\ UNCHANGED <<catalog, clientVars, warm, client, workVars>>
    BY DEF FilterStarts
  <2>2. /\ pc'[p] = "starting" /\ add'[p] = FirstUse(add[p]) /\ drop'[p] = drop[p]
        /\ \A q \in Procs \ {p} : /\ pc'[q] = pc[q] /\ client'[q] = client[q]
                                  /\ add'[q] = add[q] /\ drop'[q] = drop[q]
    BY <1>1, <1>3, <2>1 DEF TypeOK, GoTo
  <2>3. FirstUse(add[p]) \subseteq add[p]
    BY DEF FirstUse
  <2>4. WorkInv'
    BY <1>1, <2>1, <2>2, <2>3 DEF WorkInv, clientVars, workVars, Procs
  <2>5. ASSUME NEW s \in Specs \ leftBehind' PROVE SpecInv(s)'
    <3>1. SpecInv(s) /\ leftBehind' = leftBehind
      BY <1>3 DEF SettledInv
    <3>2. StartsRight(p, s) /\ StopsRight(p, s) /\ specCounts[s] \in Nat
      BY <1>1, <3>1 DEF SpecInv, TypeOK
    <3>3. StartsRight(p, s)' /\ StopsRight(p, s)'
      BY <2>1, <2>2, <3>2 DEF StartsRight, StopsRight, FirstUse, clientVars
    <3>4. Actor(p, s)' => Actor(p, s)
      BY <2>2, <2>3 DEF Actor
    <3>5. Actor(p, s) /\ ~Actor(p, s)' => specCounts[s] >= 2 /\ s \in warm
      BY <2>2, <3>2 DEF Actor, FirstUse, StartsRight
    <3>6. ~Leaver(p, s)
      BY <2>1 DEF Leaver
    <3> QED
      BY <2>1, <2>2, <2>5, <3>1, <3>2, <3>3, <3>4, <3>5, <3>6, WorkKeeps
  <2> QED
    BY <2>4, <2>5
<1> QED
  BY <1>2, <1>3 DEF FilterStarts

\* One call of activateSpecs.
LEMMA StartSpecSettled ==
  ASSUME SettledInv, NEW p \in Procs, StartSpec(p)
  PROVE  WorkInv' /\ \A s \in Specs \ leftBehind' : SpecInv(s)'
<1>1. TypeOK /\ WorkInv
  BY DEF SettledInv, RegistryInv
<1>2. PICK t \in add[p] :
        \/ /\ t \in catalog
           /\ warm' = warm \cup {t}
           /\ add' = [add EXCEPT ![p] = @ \ {t}]
           /\ UNCHANGED <<drop, pc, leftBehind>>
        \/ t \notin catalog /\ ActivationFails(p) /\ UNCHANGED warm
  BY DEF StartSpec
<1>3. pc[p] = "starting" /\ UNCHANGED <<catalog, clientVars, client, workVars>>
  BY DEF StartSpec
<1>4. CASE t \notin catalog /\ ActivationFails(p) /\ UNCHANGED warm
  <2>1. p \in Callers
    BY <1>1, <1>2, <1>4 DEF WorkInv, Procs
  <2> QED
    BY <1>3, <1>4, <2>1, ActivationFailsKeeps
<1>5. CASE /\ t \in catalog
           /\ warm' = warm \cup {t}
           /\ add' = [add EXCEPT ![p] = @ \ {t}]
           /\ UNCHANGED <<drop, pc, leftBehind>>
  <2>1. /\ add'[p] = add[p] \ {t} /\ drop' = drop /\ pc' = pc
        /\ \A q \in Procs \ {p} : add'[q] = add[q]
    BY <1>1, <1>5 DEF TypeOK
  <2>2. WorkInv'
    BY <1>1, <1>3, <2>1 DEF WorkInv, clientVars, workVars, Procs
  <2>3. ASSUME NEW s \in Specs \ leftBehind' PROVE SpecInv(s)'
    <3>1. SpecInv(s) /\ leftBehind' = leftBehind
      BY <1>5 DEF SettledInv
    <3>2. StartsRight(p, s) /\ StopsRight(p, s) /\ specCounts[s] \in Nat
      BY <1>1, <3>1 DEF SpecInv, TypeOK
    <3>3. StartsRight(p, s)' /\ StopsRight(p, s)'
      BY <1>3, <1>5, <2>1, <3>2 DEF StartsRight, StopsRight, clientVars
    <3>4. Actor(p, s)' => Actor(p, s)
      BY <2>1 DEF Actor
    <3>5. Actor(p, s) /\ ~Actor(p, s)' =>
            specCounts[s] = 1 /\ s \in warm'
      BY <1>2, <1>3, <1>5, <2>1, <3>2 DEF Actor, StartsRight
    <3>6. ~Actor(p, s) => (s \in warm' <=> s \in warm)
      BY <1>2, <1>5 DEF Actor
    <3>7. ~Leaver(p, s)
      BY <1>3 DEF Leaver
    <3> QED
      BY <1>3, <2>1, <2>3, <3>1, <3>2, <3>3, <3>4, <3>5, <3>6, <3>7, WorkKeeps
  <2> QED
    BY <2>2, <2>3
<1> QED
  BY <1>2, <1>4, <1>5

\* The filter of deactivateSpecs.
LEMMA FilterStopsSettled ==
  ASSUME SettledInv, NEW p \in Procs, FilterStops(p)
  PROVE  WorkInv' /\ \A s \in Specs \ leftBehind' : SpecInv(s)'
<1>1. TypeOK /\ WorkInv
  BY DEF SettledInv, RegistryInv
<1> DEFINE out == Unused(drop[p]) \ (AlwaysOn \cap catalog)
<1>2. /\ pc[p] = "deactivating" /\ add[p] = {}
      /\ pc'[p] = "stopping" /\ add' = add /\ drop'[p] = out
      /\ UNCHANGED <<catalog, clientVars, warm, client, workVars, leftBehind>>
      /\ \A q \in Procs \ {p} : pc'[q] = pc[q] /\ drop'[q] = drop[q]
  BY <1>1 DEF FilterStops, TypeOK, GoTo, WorkInv
<1>3. out \subseteq drop[p]
  BY DEF Unused
<1>4. WorkInv'
  BY <1>1, <1>2, <1>3 DEF WorkInv, clientVars, workVars, Procs
<1>5. ASSUME NEW s \in Specs \ leftBehind' PROVE SpecInv(s)'
  <2>1. SpecInv(s)
    BY <1>2 DEF SettledInv
  <2>2. StopsRight(p, s) /\ specCounts[s] \in Nat
    BY <1>1, <2>1 DEF SpecInv, TypeOK
  <2>3. StartsRight(p, s)' /\ StopsRight(p, s)'
    BY <1>2, <2>2 DEF StartsRight, StopsRight, Unused, clientVars
  <2>4. Actor(p, s)' => Actor(p, s)
    BY <1>2, <1>3 DEF Actor
  <2>5. Actor(p, s) /\ ~Actor(p, s)' =>
          \/ specCounts[s] > 0 /\ s \in warm
          \/ specCounts[s] = 0 /\ s \in AlwaysOn
    BY <1>2, <2>2 DEF Actor, StopsRight, Unused
  <2>6. ~Leaver(p, s)
    BY <1>2 DEF Leaver
  <2> QED
    BY <1>2, <1>5, <2>2, <2>3, <2>4, <2>5, <2>6, WorkKeeps
<1> QED
  BY <1>4, <1>5

\* One call of deactivateSpecs.
LEMMA StopOneSettled ==
  ASSUME SettledInv, NEW p \in Procs, StopOne(p)
  PROVE  WorkInv' /\ \A s \in Specs \ leftBehind' : SpecInv(s)'
<1>1. TypeOK /\ WorkInv
  BY DEF SettledInv, RegistryInv
<1>2. PICK t \in drop[p] : /\ warm' = warm \ {t}
                           /\ drop' = [drop EXCEPT ![p] = @ \ {t}]
  BY DEF StopOne
<1>3. /\ pc[p] = "stopping" /\ add[p] = {}
      /\ UNCHANGED <<catalog, clientVars, pc, client, add, workVars, leftBehind>>
      /\ drop'[p] = drop[p] \ {t}
      /\ \A q \in Procs \ {p} : drop'[q] = drop[q]
  BY <1>1, <1>2 DEF StopOne, WorkInv, TypeOK
<1>4. WorkInv'
  BY <1>1, <1>3 DEF WorkInv, clientVars, workVars, Procs
<1>5. ASSUME NEW s \in Specs \ leftBehind' PROVE SpecInv(s)'
  <2>1. SpecInv(s)
    BY <1>3 DEF SettledInv
  <2>2. StopsRight(p, s) /\ specCounts[s] \in Nat
    BY <1>1, <2>1 DEF SpecInv, TypeOK
  <2>3. StartsRight(p, s)' /\ StopsRight(p, s)'
    BY <1>3, <2>2 DEF StartsRight, StopsRight, clientVars
  <2>4. Actor(p, s)' => Actor(p, s)
    BY <1>3 DEF Actor
  <2>5. Actor(p, s) /\ ~Actor(p, s)' => specCounts[s] = 0 /\ s \notin warm'
    BY <1>2, <1>3, <2>2 DEF Actor, StopsRight
  <2>6. ~Leaver(p, s)
    BY <1>3 DEF Leaver
  <2>7. ~Actor(p, s) => (s \in warm' <=> s \in warm)
    BY <1>2 DEF Actor
  <2> QED
    BY <1>3, <1>5, <2>2, <2>3, <2>4, <2>5, <2>6, <2>7, WorkKeeps
<1> QED
  BY <1>4, <1>5

\* Every step of activateSpecs and deactivateSpecs.
LEMMA PropagateSettled ==
  ASSUME SettledInv, NEW p \in Procs, Propagate(p)
  PROVE  SettledInv'
<1>1. TypeOK /\ WorkInv
  BY DEF SettledInv, RegistryInv
<1>2. RegistryInv'
  BY PropagateInv DEF SettledInv
<1>3. CASE StartsDone(p)
  <2>1. /\ pc[p] = "starting" /\ pc'[p] = "deactivating" /\ add[p] = {}
        /\ UNCHANGED <<catalog, clientVars, warm, client, add, drop, workVars, leftBehind>>
        /\ \A q \in Procs \ {p} : pc'[q] = pc[q]
    BY <1>1, <1>3 DEF StartsDone, GoTo, TypeOK
  <2>2. WorkInv'
    BY <1>1, <2>1 DEF WorkInv, clientVars, workVars, Procs
  <2>3. ASSUME NEW s \in Specs \ leftBehind' PROVE SpecInv(s)'
    <3>1. SpecInv(s)
      BY <2>1 DEF SettledInv
    <3>2. StartsRight(p, s)' /\ StopsRight(p, s)'
      BY <2>1, <3>1 DEF SpecInv, StartsRight, StopsRight, clientVars
    <3>3. (Actor(p, s)' <=> Actor(p, s)) /\ ~Leaver(p, s)
      BY <2>1 DEF Actor, Leaver
    <3> QED
      BY <2>1, <2>3, <3>2, <3>3, WorkKeeps
  <2> QED
    BY <1>2, <2>2, <2>3 DEF SettledInv
<1>4. CASE StopsDone(p)
  <2>1. /\ pc[p] = "stopping" /\ pc'[p] \in {"reaping", "idle"}
        /\ pc'[p] = "reaping" => dead[p] # {}
        /\ add[p] = {} /\ drop[p] = {}
        /\ UNCHANGED <<catalog, clientVars, warm, add, drop, workVars, leftBehind>>
        /\ \A q \in Procs \ {p} : pc'[q] = pc[q] /\ client'[q] = client[q]
    BY <1>1, <1>4 DEF StopsDone, GoTo, TypeOK, WorkInv
  <2>2. WorkInv'
    BY <1>1, <2>1 DEF WorkInv, clientVars, workVars, Procs
  <2>3. \A s \in Specs \ leftBehind' : SpecInv(s)'
    BY <2>1, IdleKeeps
  <2> QED
    BY <1>2, <2>2, <2>3 DEF SettledInv
<1> QED
  BY <1>2, <1>3, <1>4, FilterStartsSettled, StartSpecSettled, FilterStopsSettled,
     StopOneSettled DEF Propagate, SettledInv

\* The beginnings and ends of calls.
LEMMA CallerOtherSettled ==
  ASSUME SettledInv, NEW p \in Callers,
         \/ \E c \in Clients, sel \in Selectors : RegisterClient(p, c, sel)
         \/ Heartbeat(p)
         \/ \E c \in registered : UnregisterClient(p, c)
         \/ ReapDeadClients(p) \/ ReapNext(p)
  PROVE  SettledInv'
<1>1. TypeOK /\ WorkInv /\ p \in Procs /\ p # Reloader
  BY RegistryAssumption DEF SettledInv, RegistryInv, Procs
<1>2. RegistryInv'
  BY CallerOtherInv DEF SettledInv
<1> DEFINE Edge ==
        /\ UNCHANGED <<catalog, clientVars, warm, add, drop, leftBehind>>
        /\ pc[p] \in {"idle", "registering", "reaping"}
        /\ pc'[p] \in {"idle", "registering", "reaping", "unregistering"}
        /\ pc'[p] = "registering" => visible'[p] \subseteq choice'[p]
        /\ \A q \in Procs \ {p} :
             /\ pc'[q] = pc[q] /\ client'[q] = client[q]
             /\ choice'[q] = choice[q] /\ visible'[q] = visible[q] /\ dead'[q] = dead[q]
<1>3. Edge
  <2> USE <1>1 DEF TypeOK, GoTo, clientVars
  <2>1. ASSUME NEW c \in Clients, NEW sel \in Selectors, RegisterClient(p, c, sel)
        PROVE  Edge
    BY <2>1 DEF RegisterClient
  <2>2. CASE Heartbeat(p)
    BY <2>2 DEF Heartbeat, ForgetCall
  <2>3. ASSUME NEW c \in registered, UnregisterClient(p, c)
        PROVE  Edge
    BY <2>3 DEF UnregisterClient, workVars
  <2>4. CASE ReapDeadClients(p)
    BY <2>4 DEF ReapDeadClients
  <2>5. CASE ReapNext(p)
    BY <2>5 DEF ReapNext
  <2> QED
    BY <2>1, <2>2, <2>3, <2>4, <2>5
<1>4. add[p] = {} /\ drop[p] = {}
  BY <1>1, <1>3 DEF WorkInv
<1>5. \A s \in Specs \ leftBehind' : SpecInv(s)'
  BY <1>1, <1>3, <1>4, IdleKeeps
<1>6. WorkInv'
  BY <1>1, <1>3, <1>4 DEF WorkInv, clientVars, Procs
<1> QED
  BY <1>2, <1>5, <1>6 DEF SettledInv

\* The new catalog becomes visible.
LEMMA UpdateCatalogSettled ==
  ASSUME SettledInv, NEW new \in Catalogs, UpdateCatalog(new)
  PROVE  SettledInv'
<1>1. TypeOK /\ WorkInv /\ Reloader \in Procs
  BY DEF SettledInv, RegistryInv, Procs
<1>2. RegistryInv'
  BY UpdateCatalogInv DEF SettledInv
<1>3. /\ pc[Reloader] = "idle" /\ pc'[Reloader] = "applying"
      /\ catalog' = new /\ visible'[Reloader] = new
      /\ add[Reloader] = {} /\ drop[Reloader] = {}
      /\ UNCHANGED <<clientVars, warm, client, add, drop, choice, dead, leftBehind>>
      /\ \A q \in Procs \ {Reloader} : pc'[q] = pc[q] /\ visible'[q] = visible[q]
  BY <1>1 DEF UpdateCatalog, GoTo, TypeOK, WorkInv
<1>4. \A s \in Specs \ leftBehind' : SpecInv(s)'
  BY <1>1, <1>3, IdleKeeps
<1>5. WorkInv'
  BY <1>1, <1>3, RegistryAssumption DEF WorkInv, clientVars, Procs
<1> QED
  BY <1>2, <1>4, <1>5 DEF SettledInv

\* Every step of every goroutine keeps the registry settled.
LEMMA SettledStep == SettledInv /\ [Next]_vars => SettledInv'
<1> SUFFICES ASSUME SettledInv, [Next]_vars PROVE SettledInv'
  OBVIOUS
<1>1. CASE UNCHANGED vars
  <2>1. RegistryInv'
    BY <1>1, RegistryInvStep DEF SettledInv
  <2>2. WorkInv'
    BY <1>1 DEF vars, clientVars, workVars, SettledInv, WorkInv
  <2>3. \A s \in Specs \ leftBehind : SpecInv(s)'
    BY <1>1 DEF vars, clientVars, workVars, SettledInv, SpecInv, Actor, Leaver,
       StartsRight, StopsRight, RestsRight
  <2> QED
    BY <1>1, <2>1, <2>2, <2>3 DEF SettledInv, vars
<1>2. ASSUME NEW p \in Callers, CallerStep(p) PROVE SettledInv'
  <2>1. p \in Procs
    BY DEF Procs
  <2> QED
    BY <1>2, <2>1, RegisterLockedSettled, UnregisterLockedSettled, CallerOtherSettled,
       PropagateSettled DEF CallerStep
<1>3. CASE ReloaderStep
  <2>1. Reloader \in Procs
    BY DEF Procs
  <2> QED
    BY <1>3, <2>1, UpdateCatalogSettled, ApplyCatalogUpdateSettled, PropagateSettled
       DEF ReloaderStep
<1> QED
  BY <1>1, <1>2, <1>3 DEF Next

\* When no registration, unregistration, reaping or reload is in progress, the
\* servers that run are those that clients use, always-on ones and those that two
\* operations fought over apart (client_registry_activation.go:18-60, 70-117).
THEOREM ServersFollowClients == Spec => []ActiveIffUsed
<1>1. SettledInv => ActiveIffUsed
  <2> SUFFICES ASSUME SettledInv, Quiet, NEW s \in Specs \ leftBehind
               PROVE  /\ specCounts[s] > 0 => s \in warm
                      /\ s \in warm => specCounts[s] > 0 \/ s \in AlwaysOn
    BY DEF ActiveIffUsed
  <2>1. \A p \in Procs : ~Actor(p, s) /\ ~Leaver(p, s)
    BY DEF SettledInv, WorkInv, Quiet, Actor, Leaver
  <2> QED
    BY <2>1 DEF SettledInv, SpecInv, RestsRight
<1> QED
  BY <1>1, SettledInit, SettledStep, PTL DEF Spec

--------------------------------------------------------------------------------
(* The task manager.                                                       *)

\* A task is known until it expires, runs until it has an outcome or expires, and its
\* done channel is closed with the outcome.
TaskLives ==
  \A t \in Tasks :
    /\ status[t] = "new" => t \notin tasks \cup running \cup late \cup due
    /\ status[t] # "new" => t \in tasks \cup late
    /\ status[t] = "working" => t \in running \cup late
    /\ tries[t] = IF status[t] \in Terminal THEN 1 ELSE 0

WaitersKnow == \A w \in Waiters : waits[w] # NoTask => status[waits[w]] # "new"

\* The order in which the tasks were made.
OrderIsSound ==
  \A t \in Tasks : t \notin earlier[t] /\ \A u \in earlier[t] : status[u] # "new"

\* What the client is due is its own, and shown, or on a page yet to come; while it
\* lists, the purge not yet done counts.
PlaceInTable(t) == Cardinality(earlier[t] \cap tasks)
PagesToCome ==
  /\ \A t \in due : owner[t] = reader
  /\ cursor # AtRest /\ ~shifted =>
       \A t \in due \cap Kept : t \in shown \/ cursor <= PlaceInTable(t)

TaskStrong ==
  /\ TaskInv /\ IsFiniteSet(tasks)
  /\ TaskLives /\ WaitersKnow /\ OrderIsSound /\ PagesToCome

\* Nothing is there at first.
LEMMA TaskInit == TMInit => TaskStrong
<1> SUFFICES ASSUME TMInit PROVE TaskStrong
  OBVIOUS
<1> USE TaskManagerAssumption DEF TMInit, Terminal, AtRest
<1>1. TMTypeOK
  <2>1. (CHOOSE o \in Owners : TRUE) \in Owners
    OBVIOUS
  <2>2. reader \in Owners /\ owner \in [Tasks -> Owners]
    BY <2>1
  <2>3. tries \in [Tasks -> 0..1]
    OBVIOUS
  <2>4. cursor \in Nat \cup {AtRest} /\ shifted \in BOOLEAN
    OBVIOUS
  <2> QED
    BY <2>2, <2>3, <2>4 DEF TMTypeOK
<1>2. ResultIsComing /\ PagesAreComplete
  BY DEF ResultIsComing, PagesAreComplete
<1>3. IsFiniteSet(tasks)
  BY FS_EmptySet
<1>4. TaskLives /\ WaitersKnow /\ OrderIsSound /\ PagesToCome
  BY DEF TaskLives, WaitersKnow, OrderIsSound, PagesToCome
<1> QED
  BY <1>1, <1>2, <1>3, <1>4 DEF TaskStrong, TaskInv

\* Every step keeps the types.
LEMMA TaskTypes == TaskStrong /\ [TMNext]_tmVars => TMTypeOK'
<1> SUFFICES ASSUME TMTypeOK, TaskLives, IsFiniteSet(tasks), [TMNext]_tmVars PROVE TMTypeOK'
  BY DEF TaskStrong, TaskInv
<1> USE TaskManagerAssumption DEF TMTypeOK, Terminal, AtRest, taskTableVars, taskVars, listVars, pageVars
<1>1. ASSUME NEW o \in Owners, NEW t \in Tasks, Create(o, t) PROVE TMTypeOK'
  BY <1>1 DEF Create
<1>2. ASSUME NEW o \in Owners, NEW t \in Tasks, Cancel(o, t) PROVE TMTypeOK'
  <2>1. tries'[t] \in 0..1
    BY <1>2 DEF Cancel, Finish, TaskLives
  <2> QED
    BY <1>2, <2>1 DEF Cancel, Finish, Purge, Kept
<1>3. ASSUME NEW t \in Tasks, NEW outcome \in {"completed", "failed"}, RunTask(t, outcome)
      PROVE  TMTypeOK'
  <2>1. tries' \in [Tasks -> 0..1] /\ status' \in [Tasks -> {"new", "working"} \cup Terminal]
    BY <1>3 DEF RunTask, Finish, TaskLives
  <2> QED
    BY <1>3, <2>1 DEF RunTask
<1>4. ASSUME NEW t \in Tasks, Expire(t) \/ ContextEnds(t) PROVE TMTypeOK'
  BY <1>4 DEF Expire, ContextEnds
<1>5. CASE PurgeExpired
  BY <1>5 DEF PurgeExpired, Purge, Kept
<1>6. CASE List
  <2>1. cursor' \in Nat \cup {AtRest} /\ shown' \subseteq Tasks
    BY <1>6 DEF List, OwnedBy, Kept
  <2> QED
    BY <1>6, <2>1 DEF List, Purge, Kept
<1>7. ASSUME NEW w \in Waiters, NEW o \in Owners, NEW t \in Tasks, Result(w, o, t) PROVE TMTypeOK'
  BY <1>7 DEF Result, Purge, Kept
<1>8. ASSUME NEW w \in Waiters, ResultReady(w) \/ ResultCancelled(w) PROVE TMTypeOK'
  BY <1>8 DEF ResultReady, ResultCancelled
<1>9. ASSUME NEW o \in Owners, BeginList(o) PROVE TMTypeOK'
  BY <1>9 DEF BeginList, OwnedBy, Kept
<1>10. CASE UNCHANGED tmVars
  BY <1>10 DEF tmVars
<1> QED
  BY <1>1, <1>2, <1>3, <1>4, <1>5, <1>6, <1>7, <1>8, <1>9, <1>10 DEF TMNext

\* The tasks stay finitely many.
LEMMA TasksAreFinite == TaskStrong /\ [TMNext]_tmVars => IsFiniteSet(tasks')
<1> SUFFICES ASSUME IsFiniteSet(tasks), [TMNext]_tmVars PROVE IsFiniteSet(tasks')
  BY DEF TaskStrong
<1>1. IsFiniteSet(Kept)
  BY FS_Subset DEF Kept
<1>2. \A t : IsFiniteSet(tasks \cup {t})
  BY FS_AddElement
<1>3. tasks' \in {tasks, Kept} \/ \E t \in Tasks : tasks' = tasks \cup {t}
  BY DEF TMNext, Create, Cancel, RunTask, Expire, ContextEnds, PurgeExpired, List, Result,
     ResultReady, ResultCancelled, BeginList, Purge, tmVars, taskTableVars
<1> QED
  BY <1>1, <1>2, <1>3

\* The life of a task, step by step.
LEMMA TaskLivesOn == TaskStrong /\ [TMNext]_tmVars => TaskLives'
<1> SUFFICES ASSUME TMTypeOK, TaskLives, [TMNext]_tmVars PROVE TaskLives'
  BY DEF TaskStrong, TaskInv
<1> USE TaskManagerAssumption
    DEF TMTypeOK, TaskLives, Terminal, taskTableVars, taskVars, listVars, pageVars
<1>1. ASSUME NEW o \in Owners, NEW t \in Tasks, Create(o, t) PROVE TaskLives'
  BY <1>1 DEF Create
<1>2. ASSUME NEW o \in Owners, NEW t \in Tasks, Cancel(o, t) PROVE TaskLives'
  BY <1>2 DEF Cancel, Finish, Purge, Kept, Seen
<1>3. ASSUME NEW t \in Tasks, NEW outcome \in {"completed", "failed"}, RunTask(t, outcome)
      PROVE  TaskLives'
  BY <1>3 DEF RunTask, Finish
<1>4. ASSUME NEW t \in Tasks, Expire(t) \/ ContextEnds(t) PROVE TaskLives'
  BY <1>4 DEF Expire, ContextEnds
<1>5. CASE PurgeExpired
  BY <1>5 DEF PurgeExpired, Purge, Kept
<1>6. CASE List
  BY <1>6 DEF List, Purge, Kept
<1>7. ASSUME NEW w \in Waiters, NEW o \in Owners, NEW t \in Tasks, Result(w, o, t) PROVE TaskLives'
  BY <1>7 DEF Result, Purge, Kept
<1>8. ASSUME NEW w \in Waiters, ResultReady(w) \/ ResultCancelled(w) PROVE TaskLives'
  BY <1>8 DEF ResultReady, ResultCancelled
<1>9. ASSUME NEW o \in Owners, BeginList(o) PROVE TaskLives'
  BY <1>9 DEF BeginList, OwnedBy, Kept
<1>10. CASE UNCHANGED tmVars
  BY <1>10 DEF tmVars
<1> QED
  BY <1>1, <1>2, <1>3, <1>4, <1>5, <1>6, <1>7, <1>8, <1>9, <1>10 DEF TMNext

\* A task that was made stays made, and keeps its owner and its place in the order.
LEMMA MadeOnce ==
  ASSUME TaskStrong, [TMNext]_tmVars
  PROVE  \A t \in Tasks :
           /\ status[t] # "new" => status'[t] # "new" /\ owner'[t] = owner[t]
           /\ earlier'[t] = earlier[t] \/ (status[t] = "new" /\ earlier'[t] = tasks)
           /\ status[t] = "new" /\ status'[t] # "new" => tasks' = tasks \cup {t}
<1> SUFFICES ASSUME TMTypeOK, TaskLives, [TMNext]_tmVars, NEW t \in Tasks
             PROVE  /\ status[t] # "new" => status'[t] # "new" /\ owner'[t] = owner[t]
                    /\ earlier'[t] = earlier[t] \/ (status[t] = "new" /\ earlier'[t] = tasks)
                    /\ status[t] = "new" /\ status'[t] # "new" => tasks' = tasks \cup {t}
  BY DEF TaskStrong, TaskInv
<1> USE DEF TMTypeOK, TaskLives, Terminal, taskTableVars, taskVars, listVars, pageVars
<1>1. ASSUME NEW o \in Owners, NEW u \in Tasks, Create(o, u)
      PROVE  /\ status[t] # "new" => status'[t] # "new" /\ owner'[t] = owner[t]
             /\ earlier'[t] = earlier[t] \/ (status[t] = "new" /\ earlier'[t] = tasks)
             /\ status[t] = "new" /\ status'[t] # "new" => tasks' = tasks \cup {t}
  BY <1>1 DEF Create
<1>2. ASSUME NEW o \in Owners, NEW u \in Tasks, Cancel(o, u)
      PROVE  UNCHANGED <<owner, earlier>> /\ (status[t] = "new" <=> status'[t] = "new")
  BY <1>2 DEF Cancel, Finish, Purge, Kept, Seen
<1>3. ASSUME NEW u \in Tasks, NEW outcome \in {"completed", "failed"}, RunTask(u, outcome)
      PROVE  UNCHANGED <<owner, earlier>> /\ (status[t] = "new" <=> status'[t] = "new")
  BY <1>3 DEF RunTask, Finish
<1>4. (\A o \in Owners, u \in Tasks : ~Create(o, u) /\ ~Cancel(o, u))
      /\ (\A u \in Tasks, outcome \in {"completed", "failed"} : ~RunTask(u, outcome))
      => UNCHANGED <<owner, earlier, status>>
  BY DEF TMNext, Expire, ContextEnds, PurgeExpired, List, Result, ResultReady, ResultCancelled,
     BeginList, Purge, tmVars
<1> QED
  BY <1>1, <1>2, <1>3, <1>4

\* So the order is sound after it.
LEMMA OrderStaysSound == TaskStrong /\ [TMNext]_tmVars => OrderIsSound'
<1> SUFFICES ASSUME TaskStrong, [TMNext]_tmVars, NEW t \in Tasks
             PROVE  t \notin earlier'[t] /\ \A u \in earlier'[t] : status'[u] # "new"
  BY DEF OrderIsSound
<1>1. /\ earlier[t] \subseteq Tasks /\ tasks \subseteq Tasks
      /\ t \notin earlier[t] /\ \A u \in earlier[t] : status[u] # "new"
  BY DEF TaskStrong, TaskInv, TMTypeOK, OrderIsSound
<1>2. \A u \in tasks : status[u] # "new"
  BY DEF TaskStrong, TaskInv, TMTypeOK, TaskLives
<1>3. \A u \in Tasks : status[u] # "new" => status'[u] # "new"
  BY MadeOnce
<1>4. earlier'[t] = earlier[t] \/ (status[t] = "new" /\ earlier'[t] = tasks)
  BY MadeOnce
<1> QED
  BY <1>1, <1>2, <1>3, <1>4

\* A task that is waited for was made.
LEMMA WaitersStillKnow == TaskStrong /\ [TMNext]_tmVars => WaitersKnow'
<1> SUFFICES ASSUME TaskStrong, [TMNext]_tmVars, NEW w \in Waiters, waits'[w] # NoTask
             PROVE  status'[waits'[w]] # "new"
  BY DEF WaitersKnow
<1> USE DEF TaskStrong, TaskInv, TMTypeOK
<1>1. waits[w] \in Tasks \cup {NoTask} /\ (waits[w] # NoTask => status[waits[w]] # "new")
  BY DEF WaitersKnow
<1>2. waits'[w] = waits[w] \/ (waits'[w] \in Tasks /\ status[waits'[w]] # "new")
  BY TaskManagerAssumption
     DEF TMNext, Create, Cancel, RunTask, Expire, ContextEnds, PurgeExpired, List, Result,
     ResultReady, ResultCancelled, BeginList, Purge, tmVars, Seen, Kept, TaskLives
<1>3. \A u \in Tasks : status[u] # "new" => status'[u] # "new"
  BY MadeOnce
<1> QED
  BY <1>1, <1>2, <1>3

\* A result that is waited for is coming.
LEMMA Coming ==
  ASSUME TMTypeOK, TaskLives, WaitersKnow
  PROVE  ResultIsComing
BY DEF TMTypeOK, TaskLives, WaitersKnow, ResultIsComing, Terminal

\* The places: one that no purge moved is the same, and every task known has a place
\* before the end.
LEMMA Places ==
  ASSUME TaskStrong, NEW t \in Tasks
  PROVE  /\ PlaceInTable(t) \in Nat /\ Place(t) \in Nat /\ Cardinality(Kept) \in Nat
         /\ t \in Kept => Place(t) < Cardinality(Kept)
<1>1. IsFiniteSet(tasks) /\ t \notin earlier[t]
  BY DEF TaskStrong, OrderIsSound
<1>2. /\ IsFiniteSet(Kept) /\ IsFiniteSet(earlier[t] \cap tasks)
      /\ earlier[t] \cap Kept \in SUBSET Kept
  BY <1>1, FS_Subset DEF Kept
<1>3. IsFiniteSet(earlier[t] \cap Kept) /\ Cardinality(earlier[t] \cap Kept) <= Cardinality(Kept)
  BY <1>2, FS_Subset
<1>4. t \in Kept => Cardinality(earlier[t] \cap Kept) # Cardinality(Kept)
  BY <1>1, <1>2, FS_Subset
<1>5. /\ Cardinality(earlier[t] \cap tasks) \in Nat /\ Cardinality(earlier[t] \cap Kept) \in Nat
      /\ Cardinality(Kept) \in Nat
  BY <1>2, <1>3, FS_CardinalityType
<1> QED
  BY <1>3, <1>4, <1>5 DEF PlaceInTable, Place

\* A step that leaves the client's listing alone: it purges or not, and may add a task.
LEMMA PagesKept ==
  ASSUME TaskStrong, [TMNext]_tmVars, UNCHANGED <<cursor, shown, due, reader>>,
         Kept' \cap due \subseteq Kept,
         \/ tasks' = tasks /\ shifted' = shifted
         \/ tasks' = Kept /\ shifted' = (shifted \/ (cursor > 0 /\ tasks # Kept))
         \/ \E u \in Tasks : tasks' = tasks \cup {u} /\ status[u] = "new" /\ shifted' = shifted
  PROVE  PagesAreComplete' /\ PagesToCome'
<1>1. /\ TMTypeOK /\ TaskLives /\ OrderIsSound /\ PagesToCome /\ PagesAreComplete
  BY DEF TaskStrong, TaskInv
<1>2. \A t \in due : status[t] # "new" /\ t \in Tasks
  BY <1>1 DEF TMTypeOK, TaskLives
<1>3. PagesAreComplete'
  BY <1>1 DEF PagesAreComplete, AtRest, TMTypeOK
<1>4. \A t \in due : owner'[t] = reader'
  BY <1>1, <1>2, MadeOnce DEF PagesToCome
<1>5. ASSUME cursor' # AtRest, ~shifted', NEW t \in (due \cap Kept)', t \notin shown'
      PROVE  cursor' <= PlaceInTable(t)'
  <2>1. t \in due \cap Kept /\ t \in Tasks /\ t \notin shown /\ cursor = cursor'
    BY <1>2, <1>5
  <2>2. earlier'[t] = earlier[t] /\ \A u \in earlier[t] : status[u] # "new"
    BY <1>1, <1>2, <2>1, MadeOnce DEF OrderIsSound
  <2>0. ~shifted
    BY <1>5
  <2>3. cursor <= PlaceInTable(t)
    BY <1>1, <1>5, <2>0, <2>1 DEF PagesToCome
  <2>4. (earlier[t] \cap tasks)' = earlier[t] \cap tasks => cursor' <= PlaceInTable(t)'
    BY <2>1, <2>3 DEF PlaceInTable
  <2>5. CASE tasks' # tasks /\ tasks' = Kept
    <3>1. cursor \in Nat /\ ~(cursor > 0)
      <4>1. shifted' = (shifted \/ (cursor > 0 /\ tasks # Kept))
        BY <2>5 DEF Kept
      <4>2. ~(cursor > 0 /\ tasks # Kept)
        BY <1>5, <4>1
      <4>3. ~(cursor > 0)
        BY <2>5, <4>2
      <4> QED
        BY <1>1, <1>5, <2>1, <4>3 DEF TMTypeOK
    <3>2. PlaceInTable(t)' = Place(t)
      BY <2>2, <2>5 DEF PlaceInTable, Place
    <3> QED
      BY <2>1, <3>1, <3>2, Places
  <2> QED
    BY <2>2, <2>4, <2>5
<1> QED
  BY <1>3, <1>4, <1>5 DEF PagesToCome

\* The page of a listing.
LEMMA PageShown ==
  ASSUME TaskStrong, [TMNext]_tmVars, List
  PROVE  PagesAreComplete' /\ PagesToCome'
<1>1. /\ TMTypeOK /\ PagesToCome /\ PageSize \in Nat \ {0}
  BY TaskManagerAssumption DEF TaskStrong, TaskInv
<1>2. /\ UNCHANGED <<owner, late, reader, due, earlier>> /\ tasks' = Kept /\ cursor # AtRest
      /\ shifted' = (shifted \/ (cursor > 0 /\ tasks # Kept))
      /\ shown' = shown \cup {t \in OwnedBy(reader) : Place(t) \in cursor..((cursor + PageSize) - 1)}
      /\ cursor' = IF cursor + PageSize < Cardinality(Kept) THEN cursor + PageSize ELSE AtRest
  <2>1. cursor' = IF cursor + PageSize < Cardinality(Kept) THEN cursor + PageSize ELSE AtRest
    BY DEF List
  <2>2. shown' = shown \cup {t \in OwnedBy(reader) : Place(t) \in cursor..((cursor + PageSize) - 1)}
    BY DEF List
  <2>3. /\ UNCHANGED <<owner, late, reader, due, earlier>> /\ tasks' = Kept /\ cursor # AtRest
        /\ shifted' = (shifted \/ (cursor > 0 /\ tasks # Kept))
    BY Zenon DEF List, Purge, taskVars
  <2> QED
    BY <2>1, <2>2, <2>3
<1>3. Kept' = Kept
  BY <1>2 DEF Kept
<1>4. cursor \in Nat
  BY <1>1, <1>2 DEF TMTypeOK
<1>5. ASSUME ~shifted', NEW t \in due \cap Kept, t \notin shown'
      PROVE  cursor' # AtRest /\ cursor' <= PlaceInTable(t)'
  <2>1. t \in Tasks /\ owner[t] = reader /\ t \notin shown
    BY <1>1, <1>2, <1>5 DEF TMTypeOK, PagesToCome
  <2>2. cursor <= PlaceInTable(t) /\ (cursor = 0 \/ tasks = Kept)
    <3>1. ~shifted /\ ~(cursor > 0 /\ tasks # Kept)
      BY <1>2, <1>5
    <3>2. cursor <= PlaceInTable(t)
      BY <1>1, <1>2, <1>5, <2>1, <3>1 DEF PagesToCome
    <3> QED
      BY <1>4, <3>1, <3>2
  <2>3. Place(t) \in Nat /\ Cardinality(Kept) \in Nat /\ Place(t) < Cardinality(Kept)
    BY <1>5, <2>1, Places
  <2>4. cursor <= Place(t)
    BY <1>4, <2>2, <2>3 DEF Place, PlaceInTable
  <2>5. Place(t) \notin cursor..((cursor + PageSize) - 1)
    BY <1>2, <1>5, <2>1 DEF OwnedBy
  <2>6. Place(t) >= cursor + PageSize
    BY <1>1, <1>4, <2>3, <2>4, <2>5
  <2>7. cursor' = cursor + PageSize /\ cursor' # AtRest
    BY <1>1, <1>2, <1>4, <2>3, <2>6 DEF AtRest
  <2>8. PlaceInTable(t)' = Place(t)
    BY <1>2 DEF PlaceInTable, Place
  <2> QED
    BY <2>6, <2>7, <2>8
<1>6. \A t \in due' : owner'[t] = reader'
  BY <1>1, <1>2 DEF PagesToCome
<1> QED
  BY <1>2, <1>3, <1>5, <1>6 DEF PagesAreComplete, PagesToCome

\* The pages, step by step.
LEMMA PagesStayComplete == TaskStrong /\ [TMNext]_tmVars => PagesAreComplete' /\ PagesToCome'
<1> SUFFICES ASSUME TaskStrong, [TMNext]_tmVars PROVE PagesAreComplete' /\ PagesToCome'
  OBVIOUS
<1>1. CASE List
  BY <1>1, PageShown
<1>2. ASSUME NEW o \in Owners, BeginList(o) PROVE PagesAreComplete' /\ PagesToCome'
  <2>1. /\ UNCHANGED <<tasks, late, owner, earlier>> /\ cursor' = 0 /\ due' = OwnedBy(o)
        /\ reader' = o /\ Kept' = Kept
    BY <1>2 DEF BeginList, taskTableVars, taskVars, Kept
  <2>2. \A t \in due' : t \in Tasks /\ owner'[t] = reader' /\ PlaceInTable(t)' = PlaceInTable(t)
    BY <2>1 DEF OwnedBy, PlaceInTable, TaskStrong, TaskInv, TMTypeOK, Kept
  <2>3. \A t \in due' : PlaceInTable(t) >= 0
    BY <2>2, Places
  <2> QED
    BY <2>1, <2>2, <2>3 DEF PagesAreComplete, PagesToCome, AtRest
<1>3. ASSUME ~List, \A o \in Owners : ~BeginList(o)
      PROVE  PagesAreComplete' /\ PagesToCome'
  <2>1. UNCHANGED <<cursor, shown, due, reader>>
    BY <1>3 DEF TMNext, Create, Cancel, RunTask, Expire, ContextEnds, PurgeExpired, Result,
       ResultReady, ResultCancelled, tmVars, listVars, pageVars
  <2>2. \/ tasks' = tasks /\ shifted' = shifted
        \/ tasks' = Kept /\ shifted' = (shifted \/ (cursor > 0 /\ tasks # Kept))
        \/ \E u \in Tasks : tasks' = tasks \cup {u} /\ status[u] = "new" /\ shifted' = shifted
    BY <1>3 DEF TMNext, Create, Cancel, RunTask, Expire, ContextEnds, PurgeExpired, Result, Purge,
       ResultReady, ResultCancelled, tmVars, listVars, taskTableVars
  <2>3. late \subseteq late'
    BY <1>3 DEF TMNext, Create, Cancel, RunTask, Expire, ContextEnds, PurgeExpired, Result,
       ResultReady, ResultCancelled, tmVars
  <2>4. \A u \in due : status[u] # "new"
    BY DEF TaskStrong, TaskInv, TaskLives, TMTypeOK
  <2>5. Kept' \cap due \subseteq Kept
    BY <2>2, <2>3, <2>4 DEF Kept
  <2> QED
    BY <2>1, <2>2, <2>5, PagesKept
<1> QED
  BY <1>1, <1>2, <1>3

\* All of it, step by step.
LEMMA TaskStep == TaskStrong /\ [TMNext]_tmVars => TaskStrong'
<1> SUFFICES ASSUME TaskStrong, [TMNext]_tmVars PROVE TaskStrong'
  OBVIOUS
<1>1. TMTypeOK' /\ TaskLives' /\ WaitersKnow'
  BY TaskTypes, TaskLivesOn, WaitersStillKnow
<1>2. (TMTypeOK /\ TaskLives /\ WaitersKnow => ResultIsComing)'
  BY DEF TMTypeOK, TaskLives, WaitersKnow, ResultIsComing, Terminal
<1> QED
  BY <1>1, <1>2, TasksAreFinite, OrderStaysSound, PagesStayComplete DEF TaskStrong, TaskInv

\* In every state of the task manager a caller of Result waits for a run that will give
\* it one, or for a task that expired, and a client that listed page by page saw all its
\* tasks unless a purge moved them (Result, List and the purge of tasks/manager.go).
THEOREM TasksAreSound == TMSpec => []TaskInv
<1>1. TaskStrong => TaskInv
  BY DEF TaskStrong
<1> QED
  BY <1>1, TaskInit, TaskStep, PTL DEF TMSpec

\* The outcome of a task is told once and never changes, whichever of runTask, Cancel and
\* the purge comes first (tasks/manager.go).
THEOREM OutcomesAreFinal == TMSpec => OutcomeIsFinal
<1>1. ASSUME TaskStrong, [TMNext]_tmVars
      PROVE  [\A t \in Tasks :
                /\ tries'[t] = (IF status'[t] \in Terminal THEN 1 ELSE 0)
                /\ status[t] \in Terminal => status'[t] = status[t]]_tmVars
  <2>1. \A t \in Tasks : tries'[t] = (IF status'[t] \in Terminal THEN 1 ELSE 0)
    BY <1>1, TaskStep DEF TaskStrong, TaskLives
  <2>2. TMTypeOK
    BY <1>1 DEF TaskStrong, TaskInv
  <2>3. ASSUME NEW t \in Tasks, status[t] \in Terminal PROVE status'[t] = status[t]
    <3> USE <1>1, <2>2, <2>3 DEF TMTypeOK, Terminal
    <3>1. ASSUME NEW o \in Owners, NEW u \in Tasks, Create(o, u) \/ Cancel(o, u)
          PROVE  status'[t] = status[t]
      BY <3>1 DEF Create, Cancel, Finish
    <3>2. ASSUME NEW u \in Tasks, NEW r \in {"completed", "failed"}, RunTask(u, r)
          PROVE  status'[t] = status[t]
      BY <3>2 DEF RunTask, Finish
    <3>3. (\A o \in Owners, u \in Tasks : ~Create(o, u) /\ ~Cancel(o, u))
          /\ (\A u \in Tasks, r \in {"completed", "failed"} : ~RunTask(u, r))
          => status' = status
      BY DEF TMNext, Expire, ContextEnds, PurgeExpired, List, Result, ResultReady, ResultCancelled,
         BeginList, taskVars, tmVars
    <3> QED
      BY <3>1, <3>2, <3>3
  <2> QED
    BY <2>1, <2>3
<1> QED
  BY <1>1, TaskInit, TaskStep, PTL DEF TMSpec, OutcomeIsFinal

--------------------------------------------------------------------------------
(* The stream.                                                             *)

Queue(S) == {<< >>} \cup {<<v>> : v \in S}
QueuesTyped == indexQ \in Queue(Lists) /\ outQ \in Queue(Snapshots) /\ wire \in Queue(Snapshots)

\* The goroutine of a watch runs while the gateway receives, and follows the index and the
\* registry from its subscriptions on.
WatchPhases ==
  /\ gpc = "recv" <=> wpc # "off"
  /\ wpc = "off" => outQ = << >> /\ sending = Nothing /\ wire = << >>
  /\ wpc \in {"off", "subscribe"} => indexQ = << >>
  /\ subscribed <=> wpc \notin {"off", "subscribe"}
  /\ ended \cup changeSubs \subseteq 1..watches
  /\ gpc = "recv" => watches \in 1..MaxWatches /\ watches \notin ended
  /\ wpc \in {"first", "run"} => watches \in changeSubs

\* Unless a snapshot was missed, what the goroutine has or is about to get of the index
\* is what the index stores, or a broadcast is still to come.
IndexFollowed ==
  /\ unsent \in {Nothing, published}
  /\ ~missed /\ subscribed /\ indexQ # << >> => indexQ = <<published>> \/ unsent # Nothing
  /\ ~missed /\ wpc = "run" /\ indexQ = << >> => last = published \/ unsent # Nothing

\* Unless a snapshot was missed, the last one on the way to the gateway is what the
\* client may see, or the event of a change has not been followed yet.
EventDue == eventQ \/ notice = "copy" \/ (notice = "send" /\ watches \in held)
ListDue == byServer /\ (indexQ # << >> \/ unsent # Nothing)
ViewFollowed == ~missed /\ wpc = "run" => Latest = Filtered(last) \/ EventDue \/ ListDue

StreamStrong == SWTypeOK /\ QueuesTyped /\ WatchPhases /\ IndexFollowed /\ ViewFollowed

\* What a stream that is quiet has mirrored.
LEMMA QuietMirror ==
  ASSUME StreamStrong
  PROVE  MirrorAgreesUnlessMissed
BY DEF StreamStrong, IndexFollowed, ViewFollowed, EventDue, ListDue, WatchQuiet, Latest, InFlight,
   MirrorAgreesUnlessMissed, WatchPhases

\* No stream is open at first.
LEMMA StreamInit == SWInit => StreamStrong
<1> SUFFICES ASSUME SWInit PROVE StreamStrong
  OBVIOUS
<1> USE SnapshotWatchAssumption DEF SWInit, Snapshots, Lists
<1>1. SWTypeOK /\ QueuesTyped
  <2>1. /\ publishes \in 0..MaxPublishes /\ flips \in 0..MaxFlips /\ watches \in 0..MaxWatches
        /\ byServer \in BOOLEAN
    OBVIOUS
  <2>2. indexQ \in Queue(Lists) /\ outQ \in Queue(Snapshots) /\ wire \in Queue(Snapshots)
    BY DEF Queue
  <2>3. \A q \in {indexQ, outQ, wire} : Len(q) <= 1
    OBVIOUS
  <2> QED
    BY <2>1, <2>2, <2>3 DEF SWTypeOK, QueuesTyped
<1>2. WatchPhases
  BY DEF WatchPhases
<1>3. IndexFollowed /\ ViewFollowed
  BY DEF IndexFollowed, ViewFollowed
<1> QED
  BY <1>1, <1>2, <1>3 DEF StreamStrong

\* The snapshots that are made and kept are snapshots.
LEMMA Made ==
  ASSUME SWTypeOK, QueuesTyped
  PROVE  /\ \A v \in Lists : Shown(v) \in Snapshots /\ Filtered(v) \in Snapshots
         /\ indexQ # << >> => Head(indexQ) \in Lists /\ indexQ = <<Head(indexQ)>>
         /\ outQ # << >> => Head(outQ) \in Snapshots /\ outQ = <<Head(outQ)>>
         /\ wire # << >> => Head(wire) \in Snapshots /\ wire = <<Head(wire)>>
         /\ InFlight \in Snapshots
BY DEF SWTypeOK, QueuesTyped, Queue, Shown, Filtered, Lists, Snapshots, InFlight

\* What a filtered snapshot that is sent leaves on the way, if none was missed.
LEMMA FilteredSent ==
  ASSUME SWTypeOK, QueuesTyped, NEW v \in Lists, SendFiltered(v),
         UNCHANGED <<byServer, published, inView, sending, wire, mirror>>
  PROVE  /\ outQ' \in Queue(Snapshots) /\ missed' \in BOOLEAN /\ Len(outQ') <= 1
         /\ ~missed' => ~missed /\ Latest' = Filtered(v)
         /\ Filtered(v)' = Filtered(v)
<1> DEFINE silent == byServer /\ published = Absent
<1>1. Filtered(v) \in Snapshots
  BY Made
<1>2. /\ outQ' = IF outQ = << >> /\ ~silent THEN <<Filtered(v)>> ELSE outQ
      /\ missed' = (missed \/ ((silent \/ outQ # << >>) /\ Latest # Filtered(v)))
  BY DEF SendFiltered
<1>3. Filtered(v)' = Filtered(v)
  BY DEF Filtered, Shown
<1>4. outQ' = outQ => Latest' = Latest
  BY DEF Latest, InFlight
<1>5. CASE outQ = << >> /\ ~silent
  <2>1. outQ' = <<Filtered(v)>> /\ missed' = missed
    BY <1>2, <1>5, <1>1 DEF SWTypeOK
  <2>2. Latest' = Filtered(v)
    BY <2>1 DEF Latest
  <2> QED
    BY <1>1, <1>3, <2>1, <2>2 DEF Queue, SWTypeOK
<1>6. CASE ~(outQ = << >> /\ ~silent)
  <2>1. outQ' = outQ /\ missed' = (missed \/ Latest # Filtered(v))
    BY <1>2, <1>6 DEF SWTypeOK
  <2> QED
    BY <1>3, <1>4, <2>1 DEF QueuesTyped, SWTypeOK
<1> QED
  BY <1>5, <1>6

\* The types, step by step.
StreamTyped == SWTypeOK /\ QueuesTyped

\* The variables of a watch and its queues keep their types.
LEMMA StreamTypes == StreamStrong /\ [SWNext]_swVars => StreamTyped'
<1> SUFFICES ASSUME StreamTyped, WatchPhases, [SWNext]_swVars PROVE StreamTyped'
  BY DEF StreamStrong, StreamTyped
<1> USE SnapshotWatchAssumption
    DEF StreamTyped, QueuesTyped, SWTypeOK, indexVars, noticeVars, subVars, watchVars, streamVars,
    gatewayVars
<1>0. /\ \A v \in Lists : Shown(v) \in Snapshots /\ Filtered(v) \in Snapshots
      /\ indexQ # << >> => Head(indexQ) \in Lists
      /\ outQ # << >> => Head(outQ) \in Snapshots
      /\ wire # << >> => Head(wire) \in Snapshots
  BY Made
<1>1. ASSUME NEW v \in Lists, StoreVersion(v) PROVE StreamTyped'
  BY <1>1 DEF StoreVersion
<1>2. CASE Broadcast
  <2>1. indexQ' \in Queue(Lists) /\ Len(indexQ') <= 1 /\ missed' \in BOOLEAN
    BY <1>2 DEF Broadcast, Queue
  <2> QED
    BY <1>2, <2>1 DEF Broadcast
<1>3. CASE ChangeVisibility
  BY <1>3 DEF ChangeVisibility
<1>4. CASE CopyChangeSubs \/ ChangeSent
  BY <1>4 DEF CopyChangeSubs, ChangeSent
<1>5. ASSUME NEW i \in Streams, SendChange(i) PROVE StreamTyped'
  BY <1>5 DEF SendChange
<1>6. ASSUME NEW i \in Streams, RemoveChangeSub(i) \/ CloseChangeSub(i) PROVE StreamTyped'
  BY <1>6 DEF RemoveChangeSub, CloseChangeSub
<1>7. CASE SubscribeIndex
  BY <1>7 DEF SubscribeIndex
<1>8. CASE SendInitial
  <2>1. indexQ' \in Queue(Lists) /\ Len(indexQ') <= 1 /\ missed' \in BOOLEAN
    BY <1>8 DEF SendInitial, Queue
  <2> QED
    BY <1>8, <2>1 DEF SendInitial
<1>9. CASE SubscribeChanges
  BY <1>9 DEF SubscribeChanges, WatchPhases, Streams
<1>10. CASE SendFirst
  <2>1. SendFiltered(published) /\ UNCHANGED <<byServer, published, inView, sending, wire, mirror>>
    BY <1>10 DEF SendFirst
  <2>2. outQ' \in Queue(Snapshots) /\ missed' \in BOOLEAN /\ Len(outQ') <= 1
    BY <2>1, FilteredSent
  <2> QED
    BY <1>10, <2>2 DEF SendFirst
<1>11. CASE FollowIndex
  <2>1. /\ SendFiltered(Head(indexQ)) /\ Head(indexQ) \in Lists
        /\ UNCHANGED <<byServer, published, inView, sending, wire, mirror>>
    BY <1>0, <1>11 DEF FollowIndex
  <2>2. outQ' \in Queue(Snapshots) /\ missed' \in BOOLEAN /\ Len(outQ') <= 1
    BY <2>1, FilteredSent
  <2>3. last' \in Lists /\ indexQ' = << >>
    BY <1>11, <2>1 DEF FollowIndex
  <2>4. indexQ' \in Queue(Lists) /\ Len(indexQ') <= 1
    BY <2>3 DEF Queue
  <2> QED
    BY <1>11, <2>2, <2>3, <2>4 DEF FollowIndex
<1>12. CASE FollowChange
  <2>1. SendFiltered(last) /\ UNCHANGED <<byServer, published, inView, sending, wire, mirror>>
    BY <1>12 DEF FollowChange
  <2>2. outQ' \in Queue(Snapshots) /\ missed' \in BOOLEAN /\ Len(outQ') <= 1
    BY <2>1, FilteredSent
  <2> QED
    BY <1>12, <2>2 DEF FollowChange
<1>13. CASE TakeUpdate
  <2>1. outQ' = << >> /\ sending' \in Snapshots \cup {Nothing} /\ missed' \in BOOLEAN
    BY <1>0, <1>13 DEF TakeUpdate
  <2> QED
    BY <1>13, <2>1 DEF TakeUpdate, Queue
<1>14. CASE SendUpdate
  <2>1. sending \in Snapshots /\ wire' = <<sending>>
    BY <1>14 DEF SendUpdate
  <2> QED
    BY <1>14, <2>1 DEF SendUpdate, Queue
<1>15. CASE ListOnce
  BY <1>0, <1>15 DEF ListOnce, Mirror
<1>16. CASE OpenWatch
  BY <1>16 DEF OpenWatch
<1>17. CASE ReceiveUpdate
  BY <1>0, <1>17 DEF ReceiveUpdate, Mirror, Queue
<1>18. CASE BreakStream
  <2>1. /\ indexQ' = << >> /\ outQ' = << >> /\ wire' = << >>
        /\ last' = Empty /\ streamEtag' = Empty /\ sending' = Nothing
        /\ ~subscribed' /\ ~eventQ' /\ wpc' = "off" /\ gpc' = "list"
        /\ UNCHANGED <<indexVars, noticeVars, changeSubs, closedSubs, watches, mirror, lastEtag, missed>>
    BY <1>18 DEF BreakStream
  <2>2. subscribed' = FALSE /\ eventQ' = FALSE
    BY <1>18 DEF BreakStream
  <2>3. ended' \subseteq Streams
    BY <1>18 DEF BreakStream, WatchPhases, Streams
  <2>4. \A q \in {indexQ', outQ', wire'} : Len(q) <= 1
    BY <2>1
  <2>5. QueuesTyped'
    BY <2>1 DEF Queue
  <2> QED
    BY <2>1, <2>2, <2>3, <2>4, <2>5 DEF Snapshots, Lists
<1>19. CASE UNCHANGED swVars
  BY <1>19 DEF swVars
<1> QED
  BY <1>1, <1>2, <1>3, <1>4, <1>5, <1>6, <1>7, <1>8, <1>9, <1>10, <1>11, <1>12, <1>13, <1>14, <1>15,
     <1>16, <1>17, <1>18, <1>19
     DEF SWNext, NoticeStep, ServiceStep, StreamStep, GatewayStep

\* The phases, step by step.
LEMMA StreamPhases == StreamStrong /\ [SWNext]_swVars => WatchPhases'
<1> SUFFICES ASSUME StreamTyped, WatchPhases, [SWNext]_swVars PROVE WatchPhases'
  BY DEF StreamStrong, StreamTyped
<1> USE SnapshotWatchAssumption
    DEF StreamTyped, QueuesTyped, SWTypeOK, WatchPhases, indexVars, noticeVars, subVars, watchVars,
    streamVars, gatewayVars
<1>1. ASSUME NEW v \in Lists, StoreVersion(v) PROVE WatchPhases'
  BY <1>1 DEF StoreVersion
<1>2. CASE Broadcast
  BY <1>2 DEF Broadcast
<1>3. CASE ChangeVisibility \/ CopyChangeSubs \/ ChangeSent
  BY <1>3 DEF ChangeVisibility, CopyChangeSubs, ChangeSent
<1>5. ASSUME NEW i \in Streams, SendChange(i) PROVE WatchPhases'
  BY <1>5 DEF SendChange
<1>6. ASSUME NEW i \in Streams, RemoveChangeSub(i) \/ CloseChangeSub(i) PROVE WatchPhases'
  BY <1>6 DEF RemoveChangeSub, CloseChangeSub
<1>7. CASE SubscribeIndex
  BY <1>7 DEF SubscribeIndex
<1>8. CASE SendInitial
  BY <1>8 DEF SendInitial
<1>9. CASE SubscribeChanges
  BY <1>9 DEF SubscribeChanges
<1>10. CASE SendFirst
  BY <1>10 DEF SendFirst
<1>11. CASE FollowIndex \/ FollowChange
  BY <1>11 DEF FollowIndex, FollowChange
<1>13. CASE TakeUpdate
  BY <1>13 DEF TakeUpdate
<1>14. CASE SendUpdate
  BY <1>14 DEF SendUpdate
<1>15. CASE ListOnce
  BY <1>15 DEF ListOnce, Mirror
<1>16. CASE OpenWatch
  BY <1>16 DEF OpenWatch
<1>17. CASE ReceiveUpdate
  BY <1>17 DEF ReceiveUpdate, Mirror
<1>18. CASE BreakStream
  BY <1>18 DEF BreakStream
<1>19. CASE UNCHANGED swVars
  BY <1>19 DEF swVars
<1> QED
  BY <1>1, <1>2, <1>3, <1>5, <1>6, <1>7, <1>8, <1>9, <1>10, <1>11, <1>13, <1>14, <1>15,
     <1>16, <1>17, <1>18, <1>19
     DEF SWNext, NoticeStep, ServiceStep, StreamStep, GatewayStep

\* What the goroutine has of the index, step by step.
LEMMA IndexStaysFollowed == StreamStrong /\ [SWNext]_swVars => IndexFollowed'
<1> SUFFICES ASSUME StreamTyped, WatchPhases, IndexFollowed, [SWNext]_swVars PROVE IndexFollowed'
  BY DEF StreamStrong, StreamTyped
<1> USE SnapshotWatchAssumption
    DEF StreamTyped, QueuesTyped, SWTypeOK, WatchPhases, IndexFollowed, indexVars, noticeVars,
    subVars, watchVars, streamVars, gatewayVars
<1>1. ASSUME NEW v \in Lists, StoreVersion(v) PROVE IndexFollowed'
  BY <1>1 DEF StoreVersion, Lists, Snapshots
<1>2. CASE Broadcast
  BY <1>2 DEF Broadcast, Queue
<1>3. CASE ChangeVisibility \/ CopyChangeSubs \/ ChangeSent
  BY <1>3 DEF ChangeVisibility, CopyChangeSubs, ChangeSent
<1>5. ASSUME NEW i \in Streams, SendChange(i) PROVE IndexFollowed'
  BY <1>5 DEF SendChange
<1>6. ASSUME NEW i \in Streams, RemoveChangeSub(i) \/ CloseChangeSub(i) PROVE IndexFollowed'
  BY <1>6 DEF RemoveChangeSub, CloseChangeSub
<1>7. CASE SubscribeIndex
  BY <1>7 DEF SubscribeIndex
<1>8. CASE SendInitial
  BY <1>8 DEF SendInitial, Queue
<1>9. CASE SubscribeChanges
  BY <1>9 DEF SubscribeChanges
<1>10. CASE SendFirst
  BY <1>10 DEF SendFirst, SendFiltered
<1>11. CASE FollowIndex
  BY <1>11 DEF FollowIndex, SendFiltered, Queue
<1>12. CASE FollowChange
  BY <1>12 DEF FollowChange, SendFiltered
<1>13. CASE TakeUpdate
  BY <1>13 DEF TakeUpdate
<1>14. CASE SendUpdate
  BY <1>14 DEF SendUpdate
<1>15. CASE ListOnce
  BY <1>15 DEF ListOnce, Mirror
<1>16. CASE OpenWatch
  BY <1>16 DEF OpenWatch
<1>17. CASE ReceiveUpdate
  BY <1>17 DEF ReceiveUpdate, Mirror
<1>18. CASE BreakStream
  BY <1>18 DEF BreakStream
<1>19. CASE UNCHANGED swVars
  BY <1>19 DEF swVars
<1> QED
  BY <1>1, <1>2, <1>3, <1>5, <1>6, <1>7, <1>8, <1>9, <1>10, <1>11, <1>12, <1>13, <1>14, <1>15,
     <1>16, <1>17, <1>18, <1>19
     DEF SWNext, NoticeStep, ServiceStep, StreamStep, GatewayStep

\* What is on the way to the gateway, step by step.
LEMMA ViewStaysFollowed == StreamStrong /\ [SWNext]_swVars => ViewFollowed'
<1> SUFFICES ASSUME StreamStrong, [SWNext]_swVars PROVE ViewFollowed'
  OBVIOUS
<1>0. StreamTyped /\ WatchPhases /\ IndexFollowed /\ ViewFollowed
  BY DEF StreamStrong, StreamTyped
<1> USE <1>0
<1> USE SnapshotWatchAssumption
    DEF StreamTyped, QueuesTyped, SWTypeOK, WatchPhases, ViewFollowed, EventDue, ListDue, indexVars,
    noticeVars, subVars, watchVars, streamVars, gatewayVars
<1>1. ASSUME NEW v \in Lists, StoreVersion(v) PROVE ViewFollowed'
  BY <1>1 DEF StoreVersion, Lists, Snapshots, Filtered, Shown, Latest, InFlight
<1>2. CASE Broadcast
  BY <1>2 DEF Broadcast, Queue, Filtered, Shown, Latest, InFlight
<1>3. CASE ChangeVisibility
  BY <1>3 DEF ChangeVisibility
<1>4. CASE CopyChangeSubs \/ ChangeSent
  BY <1>4 DEF CopyChangeSubs, ChangeSent, Filtered, Shown, Latest, InFlight
<1>5. ASSUME NEW i \in Streams, SendChange(i) PROVE ViewFollowed'
  BY <1>5 DEF SendChange, Filtered, Shown, Latest, InFlight
<1>6. ASSUME NEW i \in Streams, RemoveChangeSub(i) \/ CloseChangeSub(i) PROVE ViewFollowed'
  BY <1>6 DEF RemoveChangeSub, CloseChangeSub, Filtered, Shown, Latest, InFlight
<1>7. CASE SubscribeIndex \/ SendInitial \/ SubscribeChanges
  BY <1>7 DEF SubscribeIndex, SendInitial, SubscribeChanges
<1>10. CASE SendFirst
  <2>1. SendFiltered(published) /\ UNCHANGED <<byServer, published, inView, sending, wire, mirror>>
    BY <1>10 DEF SendFirst
  <2>2. ~missed' => Latest' = Filtered(published)
    BY <2>1, FilteredSent
  <2>3. last' = published /\ Filtered(published)' = Filtered(published)
    BY <1>10, <2>1, FilteredSent DEF SendFirst
  <2>4. Filtered(last)' = Filtered(published)
    BY <2>1, <2>3 DEF Filtered, Shown
  <2> QED
    BY <2>2, <2>4
<1>11. CASE FollowIndex
  <2>1. /\ SendFiltered(Head(indexQ)) /\ Head(indexQ) \in Lists /\ last' = Head(indexQ)
        /\ UNCHANGED <<byServer, published, inView, sending, wire, mirror>>
    BY <1>11, Made DEF FollowIndex
  <2>2. ~missed' => Latest' = Filtered(Head(indexQ))
    BY <2>1, FilteredSent
  <2>3. Filtered(last)' = Filtered(Head(indexQ))
    BY <2>1 DEF Filtered, Shown
  <2> QED
    BY <2>2, <2>3
<1>12. CASE FollowChange
  <2>1. /\ SendFiltered(last) /\ last' = last
        /\ UNCHANGED <<byServer, published, inView, sending, wire, mirror>>
    BY <1>12 DEF FollowChange
  <2>2. ~missed' => Latest' = Filtered(last)
    BY <2>1, FilteredSent
  <2>3. Filtered(last)' = Filtered(last)
    BY <2>1 DEF Filtered, Shown
  <2> QED
    BY <2>2, <2>3
<1>13. CASE TakeUpdate
  <2>1. ~missed' => ~missed /\ Latest' = Latest
    BY <1>13, Made DEF TakeUpdate, Latest, InFlight, Snapshots
  <2> QED
    BY <1>13, <2>1 DEF TakeUpdate, Filtered, Shown
<1>14. CASE SendUpdate
  <2>1. Latest' = Latest
    BY <1>14 DEF SendUpdate, Latest, InFlight
  <2> QED
    BY <1>14, <2>1 DEF SendUpdate, Filtered, Shown
<1>15. CASE ListOnce
  BY <1>15 DEF ListOnce
<1>16. CASE OpenWatch
  BY <1>16 DEF OpenWatch
<1>17. CASE ReceiveUpdate
  <2>1. Latest' = Latest
    BY <1>17 DEF ReceiveUpdate, Mirror, Latest, InFlight
  <2> QED
    BY <1>17, <2>1 DEF ReceiveUpdate, Filtered, Shown
<1>18. CASE BreakStream
  BY <1>18 DEF BreakStream
<1>19. CASE UNCHANGED swVars
  BY <1>19 DEF swVars, Filtered, Shown, Latest, InFlight
<1> QED
  BY <1>1, <1>2, <1>3, <1>4, <1>5, <1>6, <1>7, <1>10, <1>11, <1>12, <1>13, <1>14, <1>15,
     <1>16, <1>17, <1>18, <1>19
     DEF SWNext, NoticeStep, ServiceStep, StreamStep, GatewayStep

\* A gateway whose stream is quiet mirrors what its client may see unless a snapshot was
\* dropped on the way, whatever publications, tag changes and broken streams came before
\* (core/index_core.go, controlplane/discovery, gateway/syncer.go).
THEOREM StreamsAgree == SWSpec => []StreamInv
<1>1. StreamStrong /\ [SWNext]_swVars => StreamStrong'
  BY StreamTypes, StreamPhases, IndexStaysFollowed, ViewStaysFollowed DEF StreamStrong, StreamTyped
<1>2. StreamStrong => StreamInv
  BY QuietMirror DEF StreamStrong, StreamInv
<1> QED
  BY <1>1, <1>2, StreamInit, PTL DEF SWSpec

--------------------------------------------------------------------------------
(* The governance pipeline.                                                *)

\* The type invariant, in two parts: of the manager and of the requests.
PluginsTyped ==
  /\ {listed, instances, wanted, prior, existing} \subseteq Configs
  /\ procs \subseteq Processes /\ toStop \subseteq Processes
  /\ applying \in {"idle", "start", "install", "replace", "stop"}
  /\ todo \subseteq Plugins /\ current \in Plugins \cup {NoPlugin} /\ reloads \in 0..MaxReloads
  /\ {refused, undoing, torn, halted} \subseteq BOOLEAN
RequestsTyped ==
  /\ at \in [Askers -> {"idle", "observe", "ask", "passed", "refused"}]
  /\ flow \in [Askers -> {"request", "response"}] /\ seen \in [Askers -> Configs]
  /\ pos \in [Askers -> 0..Len(Order) + 1] /\ payload \in [Askers -> Content \cup {Original}]
  /\ approved \in [Askers -> SUBSET Plugins] /\ rejected \in [Askers -> SUBSET Plugins]

\* What Apply has in hand.  Halted or not, a plugin it has not come to, or that is to be
\* stopped, is in the table as it was copied, or no longer.
Untouched(p) == wanted[p] = 0 \/ p \in todo \/ (applying = "install" /\ p = current)
ApplyHolds ==
  /\ applying \in {"install", "replace"} =>
       current \in Plugins /\ current \notin todo /\ wanted[current] # 0
  /\ applying \in {"start", "install", "replace"} => \A p \in todo : wanted[p] # 0
  /\ applying = "stop" => \A p \in todo : wanted[p] = 0
  /\ applying # "idle" => prior = listed /\ \A p \in Plugins : Untouched(p)
       => instances[p] \in {0, existing[p]}
  /\ undoing => wanted = prior
  /\ ~halted => toStop = {}

\* What it has done: unless a required plugin did not start, the required plugins it has
\* come to are served, and those it has to stop are still before it.
ApplyDone ==
  /\ applying # "idle" /\ ~halted /\ ~refused =>
       \A p \in Required :
         wanted[p] # 0 => instances[p] = wanted[p] \/ p \in todo \/ (applying = "install" /\ p = current)
  /\ applying = "stop" /\ ~halted => \A p \in Plugins : wanted[p] = 0 => instances[p] = 0 \/ p \in todo

Manager == PluginsTyped /\ ApplyHolds /\ ApplyDone /\ ListedIsServed /\ NoOrphanPlugin

\* A request on its way has been let through by the required plugins asked so far.
PassedBy(c, p) == seen[c][p] # 0 => p \in approved[c]
RequestsJudged ==
  \A c \in Askers :
    /\ at[c] # "refused" => rejected[c] = {}
    /\ at[c] \in {"ask", "passed"} =>
         /\ pos[c] > 0
         /\ \A p \in Required \cap Observing : PassedBy(c, p)
         /\ \A k \in 1..Len(Order) :
              (k < pos[c] \/ at[c] = "passed") /\ Order[k] \in Required => PassedBy(c, Order[k])

PipelineStrong == Manager /\ RequestsTyped /\ RequestsJudged

\* What a configuration is.
LEMMA ConfigIs ==
  /\ \A f : f \in Configs <=> /\ f = [p \in Plugins |-> f[p]]
                              /\ \A p \in Plugins : f[p] \in PluginSpecs[p] \cup {0}
  /\ [p \in Plugins |-> 0] \in Configs
  /\ \A f \in Configs, g \in Configs, p \in Plugins : [f EXCEPT ![p] = g[p]] \in Configs
<1>1. \A f : f \in Configs <=> /\ f = [p \in Plugins |-> f[p]]
                              /\ \A p \in Plugins : f[p] \in PluginSpecs[p] \cup {0}
  <2>1. ASSUME NEW f, \A p \in Plugins : f[p] \in PluginSpecs[p] \cup {0}
        PROVE  \A p \in Plugins : f[p] \in (UNION {PluginSpecs[q] : q \in Plugins}) \cup {0}
    <3>1. \A p \in Plugins : PluginSpecs[p] \subseteq UNION {PluginSpecs[q] : q \in Plugins}
      OBVIOUS
    <3> QED
      BY <2>1, <3>1
  <2> QED
    BY <2>1 DEF Configs
<1>2. [p \in Plugins |-> 0] \in Configs
  <2> DEFINE none == [p \in Plugins |-> 0]
  <2>1. \A p \in Plugins : none[p] = 0
    OBVIOUS
  <2>2. none = [p \in Plugins |-> none[p]]
    OBVIOUS
  <2> HIDE DEF none
  <2>3. none \in Configs
    BY <1>1, <2>1, <2>2
  <2> QED
    BY <2>3 DEF none
<1>3. ASSUME NEW f \in Configs, NEW g \in Configs, NEW p \in Plugins
      PROVE  [f EXCEPT ![p] = g[p]] \in Configs
  BY <1>1
<1> QED
  BY <1>1, <1>2, <1>3

\* Processes: the number of a spec is not that of an absent one.
LEMMA ProcessIs ==
  /\ \A p \in Plugins : \A s \in PluginSpecs[p] : <<p, s>> \in Processes /\ s # 0
  /\ \A i \in Processes : i[1] \in Plugins /\ i[2] \in PluginSpecs[i[1]] /\ i = <<i[1], i[2]>> /\ i[2] # 0
BY PluginPipelineAssumption DEF Processes

\* The plugins of the order, and all of them.
LEMMA OrderIs ==
  /\ Len(Order) \in Nat /\ \A k \in 1..Len(Order) : Order[k] \in Plugins
  /\ \A p \in Plugins \ Observing : \E k \in 1..Len(Order) : Order[k] = p
BY PluginPipelineAssumption DEF ToSet

\* The first state.
LEMMA PipelineInit == PPInit => PipelineStrong
<1> SUFFICES ASSUME PPInit PROVE PipelineStrong
  OBVIOUS
<1> USE PluginPipelineAssumption, OrderIs DEF PPInit
<1>0. \A p \in Plugins : listed[p] \in PluginSpecs[p] \cup {0}
  BY ConfigIs
<1>1. procs \subseteq Processes
  BY <1>0, ProcessIs
<1>2. PluginsTyped /\ RequestsTyped
  <2>1. reloads \in 0..MaxReloads /\ toStop \subseteq Processes
    OBVIOUS
  <2>2. /\ at \in [Askers -> {"idle", "observe", "ask", "passed", "refused"}]
        /\ flow \in [Askers -> {"request", "response"}] /\ seen \in [Askers -> Configs]
    OBVIOUS
  <2>3. /\ pos \in [Askers -> 0..Len(Order) + 1] /\ payload \in [Askers -> Content \cup {Original}]
        /\ approved \in [Askers -> SUBSET Plugins] /\ rejected \in [Askers -> SUBSET Plugins]
    OBVIOUS
  <2> QED
    BY <1>1, <2>1, <2>2, <2>3 DEF PluginsTyped, RequestsTyped
<1>3. ApplyHolds /\ ApplyDone /\ ListedIsServed
  BY DEF ApplyHolds, ApplyDone, ListedIsServed
<1>4. NoOrphanPlugin
  BY DEF NoOrphanPlugin
<1>5. RequestsJudged
  BY DEF RequestsJudged
<1> QED
  BY <1>2, <1>3, <1>4, <1>5 DEF PipelineStrong, Manager

\* A step of a request keeps its types.
LEMMA RequestsMoveTyped ==
  ASSUME RequestsTyped, RequestsJudged, listed \in Configs,
         NEW c \in Askers, Ask(c) \/ RequestStep(c)
  PROVE  RequestsTyped'
<1> USE PluginPipelineAssumption, OrderIs DEF RequestsTyped
<1>0. at[c] = "ask" => pos[c] > 0
  BY DEF RequestsJudged
<1>1. CASE Ask(c)
  BY <1>1 DEF Ask
<1>2. CASE Observe(c)
  BY <1>2 DEF Observe
<1>3. CASE SkipUnlisted(c)
  BY <1>3 DEF SkipUnlisted, Advance
<1>4. CASE PluginContinues(c)
  <2> DEFINE p == Order[pos[c]]
  <2>1. p \in Plugins /\ pos[c] + 1 \in 0..Len(Order) + 1
    BY <1>0, <1>4 DEF PluginContinues, Asked
  <2>2. payload' \in [Askers -> Content \cup {Original}]
    BY <1>4 DEF PluginContinues
  <2>3. approved' \in [Askers -> SUBSET Plugins] /\ pos' \in [Askers -> 0..Len(Order) + 1]
    BY <1>4, <2>1 DEF PluginContinues, Advance
  <2> QED
    BY <1>4, <2>2, <2>3 DEF PluginContinues
<1>5. CASE PluginRejects(c)
  <2> DEFINE p == Order[pos[c]]
  <2>1. p \in Plugins
    BY <1>0, <1>5 DEF PluginRejects, Asked
  <2> QED
    BY <1>5, <2>1 DEF PluginRejects
<1>6. CASE PluginErrs(c)
  <2>1. pos[c] + 1 \in 0..Len(Order) + 1
    BY <1>6 DEF PluginErrs, Asked
  <2>2. at' \in [Askers -> {"idle", "observe", "ask", "passed", "refused"}]
    BY <1>6 DEF PluginErrs
  <2>3. pos' \in [Askers -> 0..Len(Order) + 1]
    BY <1>6, <2>1 DEF PluginErrs, Advance
  <2> QED
    BY <1>6, <2>2, <2>3 DEF PluginErrs
<1>7. CASE Decided(c)
  BY <1>7 DEF Decided
<1>8. CASE AskAboutResponse(c)
  BY <1>8 DEF AskAboutResponse
<1> QED
  BY <1>1, <1>2, <1>3, <1>4, <1>5, <1>6, <1>7, <1>8 DEF RequestStep

\* A step of a request keeps it judged.
LEMMA RequestsMoveJudged ==
  ASSUME RequestsTyped, RequestsJudged, NEW c \in Askers, Ask(c) \/ RequestStep(c)
  PROVE  RequestsJudged'
<1> DEFINE
      Judged(d) ==
        /\ at[d] # "refused" => rejected[d] = {}
        /\ at[d] \in {"ask", "passed"} =>
             /\ pos[d] > 0
             /\ \A p \in Required \cap Observing : PassedBy(d, p)
             /\ \A k \in 1..Len(Order) :
                  (k < pos[d] \/ at[d] = "passed") /\ Order[k] \in Required => PassedBy(d, Order[k])
<1> USE PluginPipelineAssumption, OrderIs DEF RequestsTyped
<1>0. Judged(c)
  BY DEF RequestsJudged
<1>a. ASSUME NEW d \in Askers, d # c PROVE Judged(d)'
  <2>1. /\ at'[d] = at[d] /\ seen'[d] = seen[d] /\ pos'[d] = pos[d] /\ approved'[d] = approved[d]
        /\ rejected'[d] = rejected[d]
    BY <1>a DEF RequestStep, Ask, Observe, SkipUnlisted, PluginContinues, PluginRejects, PluginErrs,
       Decided, AskAboutResponse, Advance
  <2>2. Judged(d)
    BY DEF RequestsJudged
  <2> QED
    BY <2>1, <2>2 DEF PassedBy
<1>1. CASE Ask(c) \/ AskAboutResponse(c)
  <2>1. at'[c] = "observe" /\ rejected'[c] = {}
    BY <1>0, <1>1 DEF Ask, AskAboutResponse
  <2> QED
    BY <1>a, <2>1 DEF RequestsJudged
<1>2. CASE Observe(c)
  <2>1. PICK bad \in SUBSET {p \in Observing : seen[c][p] # 0} :
          /\ approved' = [approved EXCEPT ![c] = {p \in Observing : seen[c][p] # 0} \ bad]
          /\ at' = [at EXCEPT ![c] = IF bad \cap Required = {} THEN "ask" ELSE "refused"]
    BY <1>2 DEF Observe
  <2>2. pos'[c] = 1 /\ seen' = seen /\ rejected'[c] = {}
    BY <1>0, <1>2 DEF Observe
  <2>5. \A k \in 1..Len(Order) : ~(k < pos'[c])
    BY <2>2
  <2>3. at'[c] = "ask" => \A p \in Required \cap Observing : PassedBy(c, p)'
    BY <2>1, <2>2 DEF PassedBy
  <2>4. at'[c] \in {"ask", "refused"} /\ pos'[c] > 0
    BY <2>1, <2>2
  <2>6. Judged(c)'
    <3>1. at'[c] # "refused" => rejected'[c] = {}
      BY <2>2
    <3>2. at'[c] \in {"ask", "passed"} => pos'[c] > 0 /\ \A p \in Required \cap Observing : PassedBy(c, p)'
      BY <2>3, <2>4
    <3>3. \A k \in 1..Len(Order) : ~(k < pos'[c] \/ at'[c] = "passed")
      BY <2>4, <2>5
    <3> QED
      BY <3>1, <3>2, <3>3
  <2> QED
    BY <1>a, <2>6 DEF RequestsJudged, PassedBy
<1>3. CASE SkipUnlisted(c)
  <2>1. /\ pos'[c] = pos[c] + 1 /\ at' = at /\ seen' = seen /\ approved' = approved
        /\ rejected' = rejected /\ seen[c][Order[pos[c]]] = 0 /\ at[c] = "ask" /\ pos[c] \in Nat
    BY <1>3 DEF SkipUnlisted, Advance
  <2>2. \A k \in 1..Len(Order) : k < pos'[c] /\ Order[k] \in Required => PassedBy(c, Order[k])
    BY <1>0, <2>1 DEF PassedBy
  <2> QED
    BY <1>0, <1>a, <2>1, <2>2 DEF RequestsJudged, PassedBy
<1>4. CASE PluginContinues(c)
  <2>1. /\ pos'[c] = pos[c] + 1 /\ at' = at /\ seen' = seen /\ rejected' = rejected
        /\ approved'[c] = approved[c] \cup {Order[pos[c]]} /\ at[c] = "ask" /\ pos[c] \in Nat
    BY <1>4 DEF PluginContinues, Advance, Asked
  <2>2. \A k \in 1..Len(Order) : k < pos'[c] /\ Order[k] \in Required => PassedBy(c, Order[k])'
    BY <1>0, <2>1 DEF PassedBy
  <2> QED
    BY <1>0, <1>a, <2>1, <2>2 DEF RequestsJudged, PassedBy
<1>5. CASE PluginRejects(c)
  <2>1. at'[c] = "refused"
    BY <1>5 DEF PluginRejects
  <2> QED
    BY <1>a, <2>1 DEF RequestsJudged
<1>6. CASE PluginErrs(c)
  <2>1. CASE Order[pos[c]] \in Required
    <3>1. at'[c] = "refused"
      BY <1>6, <2>1 DEF PluginErrs
    <3> QED
      BY <1>a, <3>1 DEF RequestsJudged
  <2>2. CASE Order[pos[c]] \notin Required
    <3>1. /\ pos'[c] = pos[c] + 1 /\ at' = at /\ seen' = seen /\ approved' = approved
          /\ rejected' = rejected /\ at[c] = "ask" /\ pos[c] \in Nat
      BY <1>6, <2>2 DEF PluginErrs, Advance, Asked
    <3>2. \A k \in 1..Len(Order) : k < pos'[c] /\ Order[k] \in Required => PassedBy(c, Order[k])
      BY <1>0, <2>2, <3>1
    <3> QED
      BY <1>0, <1>a, <3>1, <3>2 DEF RequestsJudged, PassedBy
  <2> QED
    BY <2>1, <2>2
<1>7. CASE Decided(c)
  <2>1. /\ at[c] = "ask" /\ pos[c] > Len(Order) /\ pos[c] \in Nat /\ at'[c] = "passed"
        /\ UNCHANGED <<seen, pos, approved, rejected>>
    BY <1>7 DEF Decided
  <2>2. \A k \in 1..Len(Order) : k < pos[c]
    BY <2>1
  <2> QED
    BY <1>0, <1>a, <2>1, <2>2 DEF RequestsJudged, PassedBy
<1> QED
  BY <1>1, <1>2, <1>3, <1>4, <1>5, <1>6, <1>7 DEF RequestStep

\* What has passed is not a bypass.
LEMMA PassedIsNoBypass ==
  ASSUME RequestsTyped, RequestsJudged
  PROVE  NoBypass
<1> SUFFICES ASSUME NEW c \in Askers, at[c] = "passed"
             PROVE  (\A p \in Required : seen[c][p] # 0 => p \in approved[c]) /\ rejected[c] = {}
  BY DEF NoBypass
<1>1. /\ rejected[c] = {} /\ \A p \in Required \cap Observing : PassedBy(c, p)
      /\ \A k \in 1..Len(Order) : Order[k] \in Required => PassedBy(c, Order[k])
  BY DEF RequestsJudged
<1>2. \A p \in Required : p \in Observing \/ \E k \in 1..Len(Order) : Order[k] = p
  BY OrderIs, PluginPipelineAssumption
<1> QED
  BY <1>1, <1>2 DEF PassedBy

\* A new Apply.
LEMMA BegunApply ==
  ASSUME PluginsTyped, NEW specs \in Configs, BeginApply(specs), UNCHANGED <<instances, halted, toStop>>,
         ~halted => toStop = {}, prior' = listed', undoing' => specs = prior'
  PROVE  ApplyHolds' /\ ApplyDone' /\ wanted' \in Configs /\ existing' \in Configs /\ todo' \subseteq Plugins
<1> USE DEF BeginApply
<1>1. wanted' \in Configs /\ existing' \in Configs /\ todo' \subseteq Plugins
  BY DEF PluginsTyped
<1>2. \A p \in Plugins : instances'[p] = existing'[p]
  OBVIOUS
<1>3. ApplyHolds'
  BY <1>1, <1>2 DEF ApplyHolds, Untouched
<1>4. ApplyDone'
  BY <1>1, PluginPipelineAssumption DEF ApplyDone
<1> QED
  BY <1>1, <1>3, <1>4

\* The manager, step by step.
ManagerMoves == Reload \/ ApplyStep \/ StopManager \/ \E i \in Processes : StopOnePlugin(i)

\* The steps of the manager keep what it knows of its processes.
LEMMA ManagerStep == Manager /\ ManagerMoves => Manager'
<1> SUFFICES ASSUME Manager, ManagerMoves PROVE Manager'
  OBVIOUS
<1> USE PluginPipelineAssumption DEF Manager
<1>0. /\ \A p \in Plugins : listed[p] \in PluginSpecs[p] \cup {0} /\ instances[p] \in PluginSpecs[p] \cup {0}
      /\ \A p \in Plugins : wanted[p] \in PluginSpecs[p] \cup {0} /\ existing[p] \in PluginSpecs[p] \cup {0}
      /\ instances = [p \in Plugins |-> instances[p]]
  BY ConfigIs DEF PluginsTyped
<1>1. CASE Reload
  <2>1. PICK specs \in Configs : BeginApply(specs)
    BY <1>1 DEF Reload
  <2>2. /\ prior' = listed /\ undoing' = FALSE /\ reloads' = reloads + 1 /\ reloads < MaxReloads
        /\ UNCHANGED <<listed, instances, procs, torn, halted, toStop>> /\ applying = "idle"
    BY <1>1 DEF Reload
  <2>3. ApplyHolds' /\ ApplyDone' /\ wanted' \in Configs /\ existing' \in Configs /\ todo' \subseteq Plugins
    BY <2>1, <2>2, BegunApply DEF ApplyHolds
  <2>4. applying' = "start" /\ refused' = FALSE /\ current' = NoPlugin
    BY <2>1 DEF BeginApply
  <2>5. PluginsTyped'
    <3>1. reloads' \in 0..MaxReloads
      BY <2>2 DEF PluginsTyped
    <3> QED
      BY <2>2, <2>3, <2>4, <3>1 DEF PluginsTyped
  <2>6. NoOrphanPlugin'
    BY <2>2 DEF NoOrphanPlugin
  <2> QED
    BY <2>3, <2>4, <2>5, <2>6 DEF ListedIsServed
<1>2. ASSUME NEW p \in Plugins, StartPlugin(p) PROVE Manager'
  <2>1. /\ applying = "start" /\ p \in todo /\ todo' = todo \ {p}
        /\ UNCHANGED <<listed, instances, wanted, prior, existing, undoing, torn, reloads, halted, toStop>>
        /\ wanted[p] # 0
    BY <1>2 DEF StartPlugin, ApplyHolds
  <2>2. CASE procs' = procs \cup {<<p, wanted[p]>>} /\ applying' = "install" /\ current' = p
          /\ UNCHANGED refused
    <3>1. <<p, wanted[p]>> \in Processes
      BY <1>0, <2>1, ProcessIs
    <3>2. PluginsTyped'
      BY <2>1, <2>2, <3>1 DEF PluginsTyped
    <3>3. ApplyHolds' /\ ApplyDone' /\ ListedIsServed'
      BY <2>1, <2>2 DEF ApplyHolds, ApplyDone, ListedIsServed, Untouched
    <3>4. NoOrphanPlugin'
      BY <2>1, <2>2 DEF NoOrphanPlugin
    <3> QED
      BY <3>2, <3>3, <3>4
  <2>3. CASE refused' = (refused \/ p \in Required) /\ UNCHANGED <<procs, applying, current>>
    <3>1. PluginsTyped'
      BY <2>1, <2>3 DEF PluginsTyped
    <3>2. ApplyHolds' /\ ListedIsServed' /\ NoOrphanPlugin'
      BY <2>1, <2>3 DEF ApplyHolds, ListedIsServed, NoOrphanPlugin, Untouched
    <3>3. ~refused' => ~refused /\ p \notin Required
      BY <2>3
    <3>4. ApplyDone'
      BY <2>1, <2>3, <3>3 DEF ApplyDone
    <3> QED
      BY <3>1, <3>2, <3>4
  <2> QED
    BY <1>2, <2>2, <2>3 DEF StartPlugin
<1>3. ASSUME NEW p \in Plugins, StopRemoved(p) PROVE Manager'
  <2>1. /\ applying = "stop" /\ p \in todo /\ todo' = todo \ {p} /\ wanted[p] = 0
        /\ instances' = [instances EXCEPT ![p] = 0] /\ procs' = procs \ {<<p, existing[p]>>}
        /\ UNCHANGED <<listed, applying, wanted, prior, existing, current, refused, undoing, torn, reloads,
                       halted, toStop>>
    BY <1>3 DEF StopRemoved, ApplyHolds
  <2>2. instances' \in Configs
    BY <1>0, <2>1, ConfigIs
  <2>3. PluginsTyped'
    BY <2>1, <2>2 DEF PluginsTyped
  <2>4. \A q \in Plugins : instances'[q] = (IF q = p THEN 0 ELSE instances[q])
    BY <1>0, <2>1
  <2>5. ApplyHolds' /\ ApplyDone' /\ ListedIsServed'
    BY <2>1, <2>4 DEF ApplyHolds, ApplyDone, ListedIsServed, Untouched
  <2>6. instances[p] \in {0, existing[p]}
    BY <2>1 DEF ApplyHolds, Untouched
  <2>7. ASSUME NEW i \in procs' PROVE instances'[i[1]] = i[2] \/ i \in toStop'
    <3>1. i \in procs /\ i # <<p, existing[p]>> /\ i[1] \in Plugins /\ i = <<i[1], i[2]>> /\ i[2] # 0
      BY <2>1, <2>7, ProcessIs DEF PluginsTyped
    <3>2. instances[i[1]] = i[2] \/ i \in toStop
      BY <2>1, <3>1 DEF NoOrphanPlugin
    <3> QED
      BY <2>1, <2>4, <2>6, <3>1, <3>2
  <2>8. NoOrphanPlugin'
    BY <2>7 DEF NoOrphanPlugin
  <2> QED
    BY <2>3, <2>5, <2>8
<1>4. CASE InstallPlugin
  <2>1. /\ applying = "install" /\ applying' = "replace" /\ current \in Plugins
        /\ current \notin todo
        /\ wanted[current] # 0 /\ instances' = [instances EXCEPT ![current] = wanted[current]]
        /\ UNCHANGED <<listed, procs, wanted, prior, existing, todo, current, refused, undoing, torn,
                       reloads, halted, toStop>>
    BY <1>4 DEF InstallPlugin, ApplyHolds
  <2>2. instances' \in Configs
    BY <2>1, ConfigIs DEF PluginsTyped
  <2>3. PluginsTyped'
    BY <2>1, <2>2 DEF PluginsTyped
  <2>4. \A q \in Plugins : instances'[q] = (IF q = current THEN wanted[q] ELSE instances[q])
    BY <1>0, <2>1
  <2>5. ApplyHolds' /\ ApplyDone' /\ ListedIsServed'
    BY <2>1, <2>4 DEF ApplyHolds, ApplyDone, ListedIsServed, Untouched
  <2>6. instances[current] \in {0, existing[current]}
    BY <2>1 DEF ApplyHolds, Untouched
  <2>7. ASSUME NEW i \in procs'
        PROVE  instances'[i[1]] = i[2] \/ i \in toStop' \/ i = <<current, existing[current]>>
    <3>1. i \in procs /\ i[1] \in Plugins /\ i = <<i[1], i[2]>> /\ i[2] # 0
      BY <2>1, <2>7, ProcessIs DEF PluginsTyped
    <3>2. instances[i[1]] = i[2] \/ i \in toStop \/ i = <<current, wanted[current]>>
      BY <2>1, <3>1 DEF NoOrphanPlugin
    <3> QED
      BY <2>1, <2>4, <2>6, <3>1, <3>2
  <2>8. NoOrphanPlugin'
    BY <2>1, <2>7 DEF NoOrphanPlugin
  <2> QED
    BY <2>3, <2>5, <2>8
<1>5. CASE StopReplaced
  <2>1. /\ applying = "replace" /\ applying' = "start"
        /\ procs' = procs \ {<<current, existing[current]>>}
        /\ current' = NoPlugin
        /\ UNCHANGED <<listed, instances, wanted, prior, existing, todo, refused, undoing, torn, reloads,
                       halted, toStop>>
    BY <1>5 DEF StopReplaced
  <2>2. PluginsTyped'
    BY <2>1 DEF PluginsTyped
  <2>3. ApplyHolds' /\ ApplyDone' /\ ListedIsServed'
    BY <2>1 DEF ApplyHolds, ApplyDone, ListedIsServed, Untouched
  <2>4. NoOrphanPlugin'
    BY <2>1 DEF NoOrphanPlugin
  <2> QED
    BY <2>2, <2>3, <2>4
<1>6. CASE BeginStops
  <2>1. /\ applying = "start" /\ todo = {} /\ applying' = "stop"
        /\ todo' = {p \in Plugins : existing[p] # 0 /\ wanted[p] = 0}
        /\ UNCHANGED <<listed, instances, procs, wanted, prior, existing, current, refused, undoing, torn,
                       reloads, halted, toStop>>
    BY <1>6 DEF BeginStops
  <2>2. PluginsTyped'
    BY <2>1 DEF PluginsTyped
  <2>3. ApplyHolds'
    BY <2>1 DEF ApplyHolds, Untouched
  <2>4. ApplyDone'
    BY <2>1 DEF ApplyHolds, ApplyDone, Untouched
  <2>5. ListedIsServed' /\ NoOrphanPlugin'
    BY <2>1 DEF ListedIsServed, NoOrphanPlugin
  <2> QED
    BY <2>2, <2>3, <2>4, <2>5
<1>7. CASE ApplyReturns
  <2>1. /\ applying = "stop" /\ todo = {}
        /\ UNCHANGED <<instances, procs, prior, reloads, halted, toStop>>
    BY <1>7 DEF ApplyReturns
  <2>2. CASE refused /\ ~undoing
    <3>1. BeginApply(prior) /\ undoing' = TRUE /\ UNCHANGED <<listed, torn>> /\ prior \in Configs
            /\ prior = listed
      BY <1>7, <2>1, <2>2 DEF ApplyReturns, ApplyHolds, PluginsTyped
    <3>2. ApplyHolds' /\ ApplyDone' /\ wanted' \in Configs /\ existing' \in Configs /\ todo' \subseteq Plugins
      BY <2>1, <3>1, BegunApply DEF ApplyHolds
    <3>3. applying' = "start" /\ refused' = FALSE /\ current' = NoPlugin
      BY <3>1 DEF BeginApply
    <3>4. PluginsTyped'
      BY <2>1, <3>1, <3>2, <3>3 DEF PluginsTyped
    <3>5. NoOrphanPlugin'
      BY <2>1 DEF NoOrphanPlugin
    <3> QED
      BY <3>2, <3>3, <3>4, <3>5 DEF ListedIsServed
  <2>3. CASE ~(refused /\ ~undoing)
    <3>1. /\ applying' = "idle" /\ torn' = (torn \/ refused)
          /\ listed' = IF undoing THEN listed ELSE wanted
          /\ wanted' = listed' /\ existing' = instances /\ refused' = FALSE /\ undoing' = FALSE
          /\ UNCHANGED <<current, todo>>
      BY <1>7, <2>3 DEF ApplyReturns
    <3>2. listed' = wanted
      BY <2>1, <3>1 DEF ApplyHolds
    <3>3. PluginsTyped'
      BY <2>1, <3>1, <3>2 DEF PluginsTyped
    <3>4. ApplyHolds' /\ ApplyDone'
      BY <2>1, <3>1 DEF ApplyHolds, ApplyDone
    <3>5. NoOrphanPlugin'
      BY <2>1 DEF NoOrphanPlugin
    <3>6. ~torn' => ~refused
      BY <3>1
    <3>7. ListedIsServed'
      BY <2>1, <3>1, <3>2, <3>6 DEF ListedIsServed, ApplyDone
    <3> QED
      BY <3>3, <3>4, <3>5, <3>7
  <2> QED
    BY <2>2, <2>3
<1>8. CASE StopManager
  <2>1. /\ ~halted /\ halted' = TRUE /\ toStop = {} /\ instances' = [p \in Plugins |-> 0]
        /\ toStop' = {<<p, instances[p]>> : p \in {q \in Plugins : instances[q] # 0}}
        /\ UNCHANGED <<listed, procs, applying, wanted, prior, existing, todo, current, refused, undoing,
                       torn, reloads>>
    BY <1>8 DEF StopManager, ApplyHolds
  <2>2. toStop' \subseteq Processes
    BY <1>0, <2>1, ProcessIs
  <2>3. PluginsTyped'
    BY <2>1, <2>2, ConfigIs DEF PluginsTyped
  <2>4. ApplyHolds' /\ ApplyDone' /\ ListedIsServed'
    BY <2>1 DEF ApplyHolds, ApplyDone, ListedIsServed, Untouched
  <2>5. \A i \in procs : i[1] \in Plugins /\ i = <<i[1], i[2]>> /\ i[2] # 0
    BY ProcessIs DEF PluginsTyped
  <2>6. NoOrphanPlugin'
    BY <2>1, <2>5 DEF NoOrphanPlugin
  <2> QED
    BY <2>3, <2>4, <2>6
<1>9. ASSUME NEW i \in Processes, StopOnePlugin(i) PROVE Manager'
  <2>1. /\ i \in toStop /\ toStop' = toStop \ {i} /\ procs' = procs \ {i}
        /\ UNCHANGED <<listed, instances, applying, wanted, prior, existing, todo, current, refused,
                       undoing, torn, reloads, halted>>
    BY <1>9 DEF StopOnePlugin
  <2>2. PluginsTyped' /\ NoOrphanPlugin' /\ ListedIsServed'
    BY <2>1 DEF PluginsTyped, NoOrphanPlugin, ListedIsServed
  <2>3. ApplyHolds' /\ ApplyDone'
    BY <2>1 DEF ApplyHolds, ApplyDone, Untouched
  <2> QED
    BY <2>2, <2>3
<1> QED
  BY <1>1, <1>2, <1>3, <1>4, <1>5, <1>6, <1>7, <1>8, <1>9 DEF ManagerMoves, ApplyStep

\* A step of anybody.
LEMMA PipelineStep == PipelineStrong /\ [PPNext]_ppVars => PipelineStrong'
<1> SUFFICES ASSUME Manager, RequestsTyped, RequestsJudged, [PPNext]_ppVars
             PROVE  (Manager /\ RequestsTyped /\ RequestsJudged)'
  BY DEF PipelineStrong
<1>1. CASE ManagerMoves
  <2>1. UNCHANGED requestVars
    BY <1>1 DEF ManagerMoves, Reload, ApplyStep, StartPlugin, StopRemoved, InstallPlugin, StopReplaced,
       BeginStops, ApplyReturns, StopManager, StopOnePlugin
  <2>2. RequestsTyped' /\ RequestsJudged'
    BY <2>1 DEF requestVars, RequestsTyped, RequestsJudged, PassedBy
  <2> QED
    BY <1>1, <2>2, ManagerStep
<1>2. ASSUME NEW c \in Askers, Ask(c) \/ RequestStep(c)
      PROVE  (Manager /\ RequestsTyped /\ RequestsJudged)'
  <2>1. UNCHANGED <<listed, managerVars, halted, toStop>>
    BY <1>2 DEF RequestStep, Ask, Observe, SkipUnlisted, PluginContinues, PluginRejects, PluginErrs,
       Decided, AskAboutResponse
  <2>2. Manager'
    BY <2>1 DEF managerVars, Manager, PluginsTyped, ApplyHolds, ApplyDone, ListedIsServed,
       NoOrphanPlugin, Untouched
  <2>3. listed \in Configs
    BY DEF Manager, PluginsTyped
  <2> QED
    BY <1>2, <2>2, <2>3, RequestsMoveTyped, RequestsMoveJudged
<1>3. CASE UNCHANGED ppVars
  BY <1>3 DEF ppVars, managerVars, requestVars, Manager, PluginsTyped, ApplyHolds, ApplyDone,
     ListedIsServed, NoOrphanPlugin, Untouched, RequestsTyped, RequestsJudged, PassedBy
<1> QED
  BY <1>1, <1>2, <1>3 DEF PPNext, ManagerMoves

\* Governance fails closed, the pipeline lists what the manager serves after reloads that
\* succeeded or were undone, and no plugin process is forgotten (infra/pipeline/engine.go,
\* infra/plugin/manager), with any number of requests and plugins.
THEOREM GovernanceHolds == PPSpec => []PluginInv
<1>1. PipelineStrong => PluginInv
  BY PassedIsNoBypass
     DEF PipelineStrong, Manager, PluginsTyped, RequestsTyped, PluginInv, PPTypeOK
<1> QED
  BY <1>1, PipelineInit, PipelineStep, PTL DEF PPSpec
=================================================================================
