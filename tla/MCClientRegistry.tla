---------------------------- MODULE MCClientRegistry ----------------------------
(***************************************************************************)
(* What a client may see and use: the registry with two ordinary clients   *)
(* and two servers of which the catalog may lose one, the stream that      *)
(* carries a change to a gateway, the plugins that every request has to    *)
(* pass, and the tasks that long calls become.  A behaviour follows one of *)
(* the four.                                                               *)
(***************************************************************************)
EXTENDS ClientRegistry, SnapshotWatch, PluginPipeline, TaskManager, TLC

CONSTANTS x, y, auth, edit, watch

MCSelectors == {{x}, {x, y}}
MCCatalogs == {{x, y}, {x}}
RegistrySymmetry == Permutations(Callers) \cup Permutations(Clients \ Internal)

MCOrder == <<auth, edit>>
MCPluginSpecs == [p \in Plugins |-> IF p = auth THEN {1, 2} ELSE {1}]

VARIABLE part  \* the component that runs

allVars == <<part, vars, swVars, ppVars, tmVars>>

AllInit ==
  /\ part \in {"registry", "stream", "plugins", "tasks"}
  /\ Init /\ SWInit /\ PPInit /\ TMInit
  /\ part = "registry" \/ catalog = Specs
  /\ part = "stream" \/ byServer
  /\ IF part = "plugins" THEN listed[edit] = 1 ELSE listed = [p \in Plugins |-> 0]

AllNext ==
  /\ UNCHANGED part
  /\ \/ part = "registry" /\ Next /\ UNCHANGED <<swVars, ppVars, tmVars>>
     \/ part = "stream" /\ SWNext /\ UNCHANGED <<vars, ppVars, tmVars>>
     \/ part = "plugins" /\ PPNext /\ UNCHANGED <<vars, swVars, tmVars>>
     \/ part = "tasks" /\ TMNext /\ UNCHANGED <<vars, swVars, ppVars>>

AllSpec == AllInit /\ [][AllNext]_allVars

================================================================================
