---------------------------- MODULE IndexLifecycle ----------------------------
(***************************************************************************)
(* When an aggregator index refreshes: Start and Stop of the generic index *)
(* (aggregator/core/index_core.go), the base index that starts it, restarts*)
(* it when an update changes the interval or hides it, and stops it        *)
(* (aggregator/index/base_index.go), and the goroutines these start.  What *)
(* a Refresh does is the subject of IndexRefresh.tla; here it holds the    *)
(* gate for a while.                                                       *)
(***************************************************************************)
EXTENDS Integers

CONSTANTS
  Loops,        \* bound: goroutines of the periodic refresh
  Configs,      \* runtime configurations a reload can choose
  MaxUpdates,   \* bound: updates of the catalog or the runtime configuration
  NoLoop        \* no ticker; nobody holds the gate

ASSUME IndexLifecycleAssumption ==
  /\ MaxUpdates \in Nat
  /\ Configs \subseteq {"hidden", "once", "slow", "fast"}
  /\ NoLoop \notin Loops /\ (Loops \cup {NoLoop}) \cap {"boot", "update", "listen", "halt"} = {}

VARIABLES
  baseCfg, prevCfg,  \* BaseIndex.cfg and the value an update replaced
  baseCtx,           \* BaseIndex.baseCtx: "unset", "live" or "cleared"
  ctxDone,           \* the context given to Start is cancelled
  indexCfg,          \* GenericIndex.cfg
  started, ticker, stop, closes,
  loopStop,          \* the stop channel each loop waits on
  listeners,         \* list-change goroutines
  refreshing,        \* holder of the gate
  lpc, startCfg, startStop,  \* locals of the goroutines
  updates

baseVars == <<baseCfg, prevCfg, baseCtx, updates>>
coreVars == <<indexCfg, started, ticker, stop, closes, loopStop>>
startVars == <<startCfg, startStop>>
ilVars == <<baseVars, ctxDone, coreVars, listeners, refreshing, lpc, startVars>>

\* The application's start, the reload, the list-change and bootstrap refresh, the
\* shutdown, and the periodic refresh loops.
Runners == {"boot", "update", "listen", "halt"} \cup Loops
Starters == {"boot", "update"}

\* "hidden" is a configuration that does not expose tools, "once" one without a
\* refresh interval.
ShouldStart(c) == c # "hidden"
Interval(c) == CASE c = "slow" -> 2 [] c = "fast" -> 1 [] OTHER -> 0

\* Stop channels are numbered; the first `closes` are closed, stop = 0 is nil.
ILInit ==
  /\ baseCfg \in Configs /\ prevCfg = baseCfg /\ indexCfg = baseCfg
  /\ baseCtx = "unset" /\ ctxDone = FALSE /\ updates = 0
  /\ started = FALSE /\ ticker = NoLoop /\ stop = 1 /\ closes = 0
  /\ loopStop = [l \in Loops |-> 0] /\ listeners = 0 /\ refreshing = NoLoop
  /\ lpc = [p \in Runners |-> IF p \in Loops THEN "unused" ELSE "idle"]
  /\ startCfg = [p \in Starters |-> "once"] /\ startStop = [p \in Starters |-> 0]

LGoto(p, l) == lpc' = [lpc EXCEPT ![p] = l]

LiveLoops == {l \in Loops : lpc[l] # "unused" /\ loopStop[l] > closes}

(***************************************************************************)
(* GenericIndex.Start and Stop.                                            *)
(***************************************************************************)

\* Start returns at once when the index is hidden or already started; a stop
\* channel that was closed is replaced.
StartBegin(p) ==
  /\ lpc[p] = "start"
  /\ IF ShouldStart(indexCfg) /\ ~started
     THEN /\ started' = TRUE
          /\ stop' = closes + 1
          /\ startStop' = [startStop EXCEPT ![p] = closes + 1]
          /\ startCfg' = [startCfg EXCEPT ![p] = indexCfg]
          /\ LGoto(p, "gate")
     ELSE LGoto(p, "listen") /\ UNCHANGED <<started, stop, startVars>>
  /\ UNCHANGED <<baseVars, ctxDone, indexCfg, ticker, closes, loopStop, listeners, refreshing>>

UnusedLoops == {l \in Loops : lpc[l] = "unused"}

\* After the initial refresh Start creates the ticker and the loop, unless there is
\* a ticker.  The loop listens to the stop channel read at the beginning.
StartTicker(p) ==
  /\ lpc[p] = "ticker"
  /\ IF Interval(startCfg[p]) > 0 /\ ticker = NoLoop
     THEN \E l \in UnusedLoops :
            /\ l = CHOOSE m \in UnusedLoops : TRUE  \* they are all alike
            /\ ticker' = l
            /\ loopStop' = [loopStop EXCEPT ![l] = startStop[p]]
            /\ lpc' = [lpc EXCEPT ![p] = "listen", ![l] = "wait"]
     ELSE LGoto(p, "listen") /\ UNCHANGED <<ticker, loopStop>>
  /\ UNCHANGED <<baseVars, ctxDone, indexCfg, started, stop, closes, listeners, refreshing, startVars>>

\* Mutant: Stop forgets its channel without closing it.
StopKeepsChannel ==
  /\ ticker' = NoLoop
  /\ stop' = 0
  /\ started' = FALSE
  /\ UNCHANGED <<closes, indexCfg, loopStop>>

\* The critical section of Stop.
StopSection ==
  /\ ticker' = NoLoop
  /\ closes' = IF stop = 0 THEN closes ELSE closes + 1
  /\ stop' = 0
  /\ started' = FALSE
  /\ UNCHANGED <<indexCfg, loopStop>>

\* The loop: a tick of its ticker, which Stop stops, or the end because its stop
\* channel or its context is closed.
LoopTick(l) ==
  /\ lpc[l] = "wait" /\ ticker = l
  /\ LGoto(l, "gate")
  /\ UNCHANGED <<baseVars, ctxDone, coreVars, listeners, refreshing, startVars>>

LoopExit(l) ==
  /\ lpc[l] = "wait"
  /\ loopStop[l] <= closes \/ ctxDone
  /\ LGoto(l, "unused")
  /\ loopStop' = [loopStop EXCEPT ![l] = 0]
  /\ UNCHANGED <<baseVars, ctxDone, indexCfg, started, ticker, stop, closes, listeners, refreshing,
                 startVars>>

(***************************************************************************)
(* A Refresh, by whoever calls it.                                         *)
(***************************************************************************)

AfterRefresh(p) == CASE p = "listen" -> "idle" [] p \in Loops -> "wait" [] OTHER -> "ticker"

TakeGate(p) ==
  /\ lpc[p] = "gate" /\ refreshing = NoLoop
  /\ refreshing' = p
  /\ LGoto(p, "refresh")
  /\ UNCHANGED <<baseVars, ctxDone, coreVars, listeners, startVars>>

GiveUpGate(p) ==
  /\ lpc[p] = "gate" /\ ctxDone
  /\ LGoto(p, AfterRefresh(p))
  /\ UNCHANGED <<baseVars, ctxDone, coreVars, listeners, refreshing, startVars>>

RefreshEnds(p) ==
  /\ lpc[p] = "refresh"
  /\ refreshing' = NoLoop
  /\ LGoto(p, AfterRefresh(p))
  /\ UNCHANGED <<baseVars, ctxDone, coreVars, listeners, startVars>>

\* A list-change event, or the end of bootstrap, makes the listener refresh.
ListChange ==
  /\ lpc["listen"] = "idle" /\ listeners > 0 /\ ~ctxDone
  /\ ShouldStart(baseCfg)
  /\ LGoto("listen", "gate")
  /\ UNCHANGED <<baseVars, ctxDone, coreVars, listeners, refreshing, startVars>>

(***************************************************************************)
(* BaseIndex: Start, UpdateSpecs and ApplyRuntimeConfig, Stop.             *)
(***************************************************************************)

BaseStart ==
  /\ lpc["boot"] = "idle"
  /\ baseCtx' = "live"
  /\ LGoto("boot", "start")
  /\ UNCHANGED <<baseCfg, prevCfg, updates, ctxDone, coreVars, listeners, refreshing, startVars>>

\* startListChangeListener: after the first Start, and after an update that shows
\* a hidden index; a listener that is there already is not looked for.
StartListener(p) ==
  /\ lpc[p] = "listen" /\ p \in Starters
  /\ listeners' = IF ShouldStart(baseCfg) /\ (p = "update" => ~ShouldStart(prevCfg))
                  THEN listeners + 1 ELSE listeners
  /\ LGoto(p, IF p = "boot" THEN "done" ELSE "idle")
  /\ startCfg' = [startCfg EXCEPT ![p] = "once"]
  /\ startStop' = [startStop EXCEPT ![p] = 0]
  /\ UNCHANGED <<baseVars, ctxDone, coreVars, refreshing>>

\* UpdateSpecs and ApplyRuntimeConfig, as far as the configuration goes.
UpdateConfig(c) ==
  /\ lpc["update"] = "idle" /\ updates < MaxUpdates
  /\ updates' = updates + 1
  /\ prevCfg' = baseCfg /\ baseCfg' = c
  /\ LGoto("update", "apply")
  /\ UNCHANGED <<baseCtx, ctxDone, coreVars, listeners, refreshing, startVars>>

ApplyConfig ==
  /\ lpc["update"] = "apply"
  /\ indexCfg' = baseCfg
  /\ LGoto("update", "after")
  /\ UNCHANGED <<baseVars, ctxDone, started, ticker, stop, closes, loopStop, listeners, refreshing,
                 startVars>>

\* An update restarts a live index whose interval or visibility changed.
AfterUpdate ==
  /\ lpc["update"] = "after"
  /\ LGoto("update",
       CASE baseCtx # "live" -> "idle"
         [] Interval(prevCfg) # Interval(baseCfg) \/ ShouldStart(prevCfg) # ShouldStart(baseCfg)
              -> "restart"
         [] OTHER -> "listen")
  /\ UNCHANGED <<baseVars, ctxDone, coreVars, listeners, refreshing, startVars>>

Restart ==
  /\ lpc["update"] = "restart"
  /\ StopSection
  /\ LGoto("update", "start")
  /\ UNCHANGED <<baseVars, ctxDone, listeners, refreshing, startVars>>

\* The application's context ends; Deactivate stops the index and then clears the
\* base context.
CancelContext ==
  /\ ~ctxDone
  /\ ctxDone' = TRUE
  /\ UNCHANGED <<baseVars, coreVars, listeners, refreshing, lpc, startVars>>

BaseStop ==
  /\ lpc["halt"] = "idle" /\ lpc["boot"] = "done"
  /\ StopSection
  /\ LGoto("halt", "clear")
  /\ UNCHANGED <<baseVars, ctxDone, listeners, refreshing, startVars>>

\* Mutant: the base context is forgotten, but not cancelled.
ClearWithoutCancel ==
  /\ lpc["halt"] = "clear"
  /\ baseCtx' = "cleared"
  /\ LGoto("halt", "done")
  /\ UNCHANGED <<baseCfg, prevCfg, updates, ctxDone, coreVars, listeners, refreshing, startVars>>

ClearContext ==
  /\ lpc["halt"] = "clear"
  /\ baseCtx' = "cleared" /\ ctxDone' = TRUE
  /\ LGoto("halt", "done")
  /\ UNCHANGED <<baseCfg, prevCfg, updates, coreVars, listeners, refreshing, startVars>>

RunnerStep(p) == TakeGate(p) \/ GiveUpGate(p) \/ RefreshEnds(p)
StarterStep(p) == StartBegin(p) \/ StartTicker(p) \/ StartListener(p)
UpdateStep == ApplyConfig \/ AfterUpdate \/ Restart

ILNext ==
  \/ \E p \in Runners : RunnerStep(p)
  \/ \E p \in Starters : StarterStep(p)
  \/ \E l \in Loops : LoopTick(l) \/ LoopExit(l)
  \/ \E c \in Configs : UpdateConfig(c)
  \/ UpdateStep \/ BaseStart \/ ListChange \/ CancelContext \/ BaseStop \/ ClearContext

\* Every runnable goroutine runs, a Refresh ends (IndexRefresh!RefreshReturns), and a
\* loop that finds its stop channel or context closed again and again takes that
\* branch of its select.
ILFairness ==
  /\ \A p \in Runners : WF_ilVars(RunnerStep(p))
  /\ \A p \in Starters : WF_ilVars(StarterStep(p))
  /\ SF_ilVars(\E l \in Loops : LoopExit(l))
  /\ WF_ilVars(UpdateStep) /\ WF_ilVars(ClearContext)

(***************************************************************************)
(* Properties.                                                             *)
(***************************************************************************)

\* The type invariant.
ILTypeOK ==
  /\ {baseCfg, prevCfg, indexCfg} \subseteq Configs /\ updates \in 0..MaxUpdates
  /\ baseCtx \in {"unset", "live", "cleared"} /\ ctxDone \in BOOLEAN
  /\ started \in BOOLEAN /\ ticker \in Loops \cup {NoLoop} /\ stop \in {0, closes + 1}
  /\ loopStop \in [Loops -> 0..(closes + 1)] /\ listeners \in 0..(MaxUpdates + 1)
  /\ refreshing \in Runners \cup {NoLoop}

\* However the start, the restarts of updates and the shutdown interleave, at most
\* one refresh loop waits on a stop channel that nobody closed (index_core.go Start
\* and Stop, base_index.go UpdateSpecs).
OneLiveLoop == \A l, m \in LiveLoops : l = m

\* That, and the type invariant.
LifecycleInv == ILTypeOK /\ OneLiveLoop

\* Once the base index was stopped every refresh loop ends, also one that an update
\* or a start still in flight creates afterwards (base_index.go Stop).
LoopsOver == lpc["halt"] = "done" => \A l \in Loops : lpc[l] = "unused"
StopEndsLoops == <>[]LoopsOver
================================================================================
