--------------------------------- MODULE MCDesktop ---------------------------------
(***************************************************************************)
(* The desktop application and the gateway it runs beside its core: the    *)
(* life of the core, the gateway process, the checker of releases and the  *)
(* update; a runtime of the gateway, and the pool of runtimes.  They meet  *)
(* only through calls that each abstracts, so a behaviour follows one.     *)
(***************************************************************************)
EXTENDS GatewaySync, GatewayPool, GatewayProcess, DesktopManager, UpdateChecker, SelfUpdate

VARIABLE part  \* the component that runs

vars == <<part, gsVars, gpVars, gpsVars, dmVars, ucVars, suVars>>

Init ==
  /\ part \in {"runtime", "pool", "process", "core", "checker", "update"}
  /\ GSInit /\ GPInit /\ GPSInit /\ DMInit /\ UCInit /\ SUInit
  /\ part = "process" \/ stored = CHOOSE c \in GatewayConfigs : TRUE

Next ==
  /\ UNCHANGED part
  /\ \/ part = "runtime" /\ GSNext /\ UNCHANGED <<gpVars, gpsVars, dmVars, ucVars, suVars>>
     \/ part = "pool" /\ GPNext /\ UNCHANGED <<gsVars, gpsVars, dmVars, ucVars, suVars>>
     \/ part = "process" /\ GPSNext /\ UNCHANGED <<gsVars, gpVars, dmVars, ucVars, suVars>>
     \/ part = "core" /\ DMNext /\ UNCHANGED <<gsVars, gpVars, gpsVars, ucVars, suVars>>
     \/ part = "checker" /\ UCNext /\ UNCHANGED <<gsVars, gpVars, gpsVars, dmVars, suVars>>
     \/ part = "update" /\ SUNext /\ UNCHANGED <<gsVars, gpVars, gpsVars, dmVars, ucVars>>

\* A component that does not run rests where none of its fair actions is enabled.
Spec == Init /\ [][Next]_vars /\ GSFairness /\ GPFairness /\ DMFairness /\ UCFairness

\* Two versions of the gateway's settings.
TwoConfigs == {[enabled |-> TRUE, version |-> v] : v \in {1, 2}}

Asset(arch, ext, universal) == [arch |-> arch, ext |-> ext, universal |-> universal]

\* Releases without files, for this machine and another, and with files that do not install.
AssetChoices ==
  { << >>,
    <<Asset("arm64", ".zip", FALSE), Asset("amd64", ".dmg", FALSE), Asset("arm64", ".dmg", TRUE)>>,
    <<Asset("other", ".pkg", FALSE)>>,
    <<Asset("arm64", ".txt", FALSE), Asset("other", ".zip", FALSE)>> }

\* What holds in every state of the gateway.
GatewayInv == GSTypeOK /\ PoolInv /\ GatewayProcessInv

\* What holds in every state of the application.
ApplicationInv == DesktopInv /\ CheckerInv /\ UpdateInv

\* Mirrors catch up; runtimes, a closed pool, cores and the checker's loops come to their end.
\* A behaviour follows one component, so each gets there on its own.
DesktopSettles == <>[](MirrorsShow /\ RuntimeOver /\ PoolSettled /\ CoresOver /\ CheckerOver)

================================================================================
