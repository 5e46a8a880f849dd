--------------------------- MODULE MCCatalogReload ---------------------------
(***************************************************************************)
(* The catalog, from the file to the pools: the editor that writes the     *)
(* file, the reload that applies it and the scheduler's table of pools that*)
(* an applied catalog changes.  A behaviour follows one of the three.  The *)
(* reload has three catalogs: an update can change the servers, the        *)
(* plugins, the reload mode, some of them or a field that needs a restart. *)
(***************************************************************************)
EXTENDS CatalogReload, PoolTable, CatalogEditor

CONSTANTS c1, s1, s2, p1, p2

Cat(s, p, m, f) == [servers |-> s, plugins |-> p, mode |-> m, fixed |-> f]
OldCatalog == Cat("A", "P", "lenient", "x")
SmallCatalogs == {OldCatalog, Cat("B", "Q", "strict", "x"), Cat("A", "Q", "lenient", "y")}

\* Two files by hand: one without a server and one with two plugins, the first
\* of which does not say that it is required.
Entry(o) == [ver |-> 1, off |-> FALSE, opt |-> o]
MCFirstFiles ==
  {[x \in Names |-> CASE x = s1 -> [Entry("some") EXCEPT !.off = TRUE]
                      [] x = s2 -> Entry("zero") [] x = p1 -> Entry("unset")
                      [] OTHER -> Absent],
   [x \in Names |-> IF x \in PluginNames THEN Entry("yes") ELSE Absent]}

VARIABLE part  \* the component that runs

allVars == <<part, vars, ptVars, edVars>>

AllInit ==
  /\ part \in {"reload", "pools", "editor"}
  /\ Init /\ PTInit /\ EDInit
  /\ part = "editor" \/ conf = CHOOSE f \in FirstFiles : TRUE

AllNext ==
  /\ UNCHANGED part
  /\ \/ part = "reload" /\ Next /\ UNCHANGED <<ptVars, edVars>>
     \/ part = "pools" /\ PTNext /\ UNCHANGED <<vars, edVars>>
     \/ part = "editor" /\ EDNext /\ UNCHANGED <<vars, ptVars>>

AllSpec == AllInit /\ [][AllNext]_allVars

\* Fairness of CatalogReload while it is the part that runs: its run loop does not rest
\* in the initial state, the fair actions of PoolTable do.
ReloadFairness ==
  /\ WF_vars(part = "reload" /\ ~down /\ LoopStep)
  /\ WF_vars(part = "reload" /\ ~down /\ WatcherStep)
  /\ \A c \in Callers : WF_vars(part = "reload" /\ ~down /\ pc[c] # "idle" /\ CallerStep(c))

AllFairSpec == AllSpec /\ ReloadFairness /\ PTFairness

================================================================================
