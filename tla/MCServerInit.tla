------------------------------ MODULE MCServerInit ------------------------------
(* Instances of ServerInit. *)
EXTENDS ServerInit

CONSTANTS s1

SpecSet == {s1}
ActiveDef == [s \in Specs |-> 2]
\* The spec is on demand, always on, or not in the catalog.
CatalogSet == {[s \in Specs |-> "on-demand"], [s \in Specs |-> "always-on"],
               [s \in {} |-> "on-demand"]}

================================================================================
