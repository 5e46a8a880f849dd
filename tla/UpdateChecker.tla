----------------------------- MODULE UpdateChecker -----------------------------
(***************************************************************************)
(* The update checker of the desktop application (ui/update_checker.go):   *)
(* a loop that asks for the newest release, the settings page that changes *)
(* the channel and the interval while it runs, checks on demand, and Stop. *)
(*                                                                         *)
(* Releases are numbered in the order they are published and 0 stands for  *)
(* none; an etag is the number of releases there were.  A ticker and its   *)
(* two channels are made together by Start and bear its number, 0 is nil.  *)
(***************************************************************************)
EXTENDS Integers, FiniteSets, FiniteSetsExt

CONSTANTS
  Clients,       \* goroutines of the settings page
  Current,       \* the version that runs
  PreReleases,
  MaxReleases,   \* bound: releases published
  MaxStarts,     \* bound: tickers made
  MaxSettings    \* bound: changes of the settings

Loops == 1..MaxStarts
Checkers == Loops \cup Clients
Releases == 0..MaxReleases
NoWish == <<FALSE, 1>>

ASSUME UpdateCheckerAssumption ==
  /\ MaxReleases \in Nat \ {0} /\ MaxStarts \in Nat \ {0} /\ MaxSettings \in Nat
  /\ Clients \cap Loops = {} /\ PreReleases \subseteq Releases /\ Current \in Releases

VARIABLES
  ticker, stopCh, doneCh, starts,   \* c.ticker, c.stop, c.done; tickers made so far
  stopClosed, doneClosed,           \* the channels that were closed
  loop, watches,                    \* a run goroutine, and the stop channel it waits on
  channel, interval,                \* the options: with pre-releases or not, how often
  etag, cachedRelease, lastNotified, checkInFlight,
  check, asked, sentTag, answer,    \* a check: its step, options, If-None-Match, release
  setting, wish,                    \* a SetOptions and what it was called with
  upstream, savedSettings, halted, crashed,
  raced, overtaken                  \* ghosts, see the properties

loopVars == <<ticker, stopCh, doneCh, starts, stopClosed, doneClosed, loop, watches>>
optionVars == <<channel, interval>>
cacheVars == <<etag, cachedRelease, lastNotified, checkInFlight>>
checkVars == <<check, asked, sentTag, answer>>
settingVars == <<setting, wish, savedSettings>>
ghostVars == <<raced, overtaken>>
ucVars == <<loopVars, optionVars, cacheVars, checkVars, settingVars, upstream, halted, crashed, ghostVars>>

UCInit ==
  /\ ticker = 0 /\ stopCh = 0 /\ doneCh = 0 /\ starts = 0 /\ stopClosed = {} /\ doneClosed = {}
  /\ loop = [l \in Loops |-> "none"] /\ watches = [l \in Loops |-> 0]
  /\ channel = FALSE /\ interval = 1
  /\ etag = 0 /\ cachedRelease = 0 /\ lastNotified = 0 /\ checkInFlight = FALSE
  /\ check = [c \in Checkers |-> "idle"] /\ asked = [c \in Checkers |-> FALSE]
  /\ sentTag = [c \in Checkers |-> 0] /\ answer = [c \in Checkers |-> 0]
  /\ setting = [c \in Clients |-> "idle"] /\ wish = [c \in Clients |-> NoWish] /\ savedSettings = 0
  /\ upstream = 1 /\ halted = FALSE /\ crashed = FALSE /\ raced = FALSE /\ overtaken = FALSE

\* The newest of the first u releases on a channel.
SelectRelease(u, pre) == Max({0} \cup {k \in 1..u : pre \/ k \notin PreReleases})

(***************************************************************************)
(* Start, the loop and Stop.                                               *)
(***************************************************************************)

\* Start makes a ticker and its channels; the goroutine begins with a check.
Started ==
  /\ starts < MaxStarts
  /\ starts' = starts + 1
  /\ ticker' = starts' /\ stopCh' = starts' /\ doneCh' = starts'
  /\ loop' = [loop EXCEPT ![starts'] = "check"]
  /\ check' = [check EXCEPT ![starts'] = "gate"]
  /\ UNCHANGED <<stopClosed, doneClosed, watches>>

StartChecker ==
  /\ starts = 0
  /\ Started
  /\ UNCHANGED <<optionVars, cacheVars, asked, sentTag, answer, settingVars, upstream, halted,
                 crashed, ghostVars>>

\* After every check, and after every tick, the loop reads what to wait for.
ReadTicker(l) ==
  /\ loop[l] = "check" /\ check[l] = "idle"
  /\ loop' = [loop EXCEPT ![l] = IF ticker = 0 \/ stopCh = 0 THEN "exit" ELSE "select"]
  /\ watches' = [watches EXCEPT ![l] = stopCh]
  /\ UNCHANGED <<ticker, stopCh, doneCh, starts, stopClosed, doneClosed, optionVars, cacheVars,
                 checkVars, settingVars, upstream, halted, crashed, ghostVars>>

TickerFires(l) ==
  /\ loop[l] = "select" /\ ticker = watches[l]
  /\ loop' = [loop EXCEPT ![l] = "check"]
  /\ check' = [check EXCEPT ![l] = "gate"]
  /\ UNCHANGED <<ticker, stopCh, doneCh, starts, stopClosed, doneClosed, watches, optionVars,
                 cacheVars, asked, sentTag, answer, settingVars, upstream, halted, crashed, ghostVars>>

StopSeen(l) ==
  /\ loop[l] = "select" /\ watches[l] \in stopClosed
  /\ loop' = [loop EXCEPT ![l] = "exit"]
  /\ watches' = [watches EXCEPT ![l] = 0]
  /\ UNCHANGED <<ticker, stopCh, doneCh, starts, stopClosed, doneClosed, optionVars,
                 cacheVars, checkVars, settingVars, upstream, halted, crashed, ghostVars>>

\* The deferred function closes the channel that c.done is now, if any: after Stop there
\* is none, after a restart it is the next loop's, and closing one twice is a panic.
LoopEnds(l) ==
  /\ loop[l] = "exit"
  /\ loop' = [loop EXCEPT ![l] = "ended"]
  /\ doneClosed' = doneClosed \cup ({doneCh} \ {0})
  /\ crashed' = (doneCh \in doneClosed)
  /\ UNCHANGED <<ticker, stopCh, doneCh, starts, stopClosed, watches, optionVars, cacheVars,
                 checkVars, settingVars, upstream, halted, ghostVars>>

\* Mutant: a stopped checker leaves its loop the open channel.
StopsOpen ==
  /\ ticker # 0 /\ ~halted
  /\ halted' = TRUE
  /\ ticker' = 0 /\ stopCh' = 0 /\ doneCh' = 0
  /\ UNCHANGED <<starts, stopClosed, doneClosed, loop, watches, optionVars, cacheVars, checkVars,
                 settingVars, upstream, crashed, ghostVars>>

\* StopWithTimeout: what follows the section is a wait that its timer ends.
StopChecker ==
  /\ ticker # 0 /\ ~halted
  /\ halted' = TRUE
  /\ ticker' = 0 /\ stopCh' = 0 /\ doneCh' = 0
  /\ stopClosed' = stopClosed \cup ({stopCh} \ {0})
  /\ UNCHANGED <<starts, doneClosed, loop, watches, optionVars, cacheVars, checkVars, settingVars,
                 upstream, crashed, ghostVars>>

(***************************************************************************)
(* SetOptions: the options, then the ticker, then a new one.               *)
(***************************************************************************)

InFetch == \E c \in Checkers : check[c] \in {"fetch", "answer"}

\* A change of the channel forgets the cache.
SetOptions(c, pre, hours) ==
  /\ setting[c] = "idle" /\ savedSettings < MaxSettings
  /\ savedSettings' = savedSettings + 1
  /\ <<pre, hours>> # <<channel, interval>>
  /\ wish' = [wish EXCEPT ![c] = IF hours # interval /\ ticker # 0 THEN <<pre, hours>> ELSE NoWish]
  /\ channel' = pre /\ interval' = hours
  /\ IF pre # channel THEN etag' = 0 /\ cachedRelease' = 0 /\ lastNotified' = 0
     ELSE UNCHANGED <<etag, cachedRelease, lastNotified>>
  /\ raced' = (raced \/ (pre # channel /\ InFetch))
  /\ setting' = [setting EXCEPT ![c] = IF hours # interval /\ ticker # 0 THEN "restart" ELSE "idle"]
  /\ UNCHANGED <<loopVars, checkInFlight, checkVars, upstream, halted, crashed, overtaken>>

\* restartTicker writes the options once more, whatever they are by now.
RestartTicker(c) ==
  /\ setting[c] = "restart"
  /\ setting' = [setting EXCEPT ![c] = "start"]
  /\ ticker' = 0 /\ stopCh' = 0
  /\ stopClosed' = stopClosed \cup ({stopCh} \ {0})
  /\ channel' = wish[c][1] /\ interval' = wish[c][2] /\ wish' = [wish EXCEPT ![c] = NoWish]
  /\ raced' = (raced \/ channel' # channel)
  /\ overtaken' = (overtaken \/ halted \/ \E l \in Loops : loop[l] = "check")
  /\ UNCHANGED <<doneCh, starts, doneClosed, loop, watches, cacheVars, checkVars, savedSettings,
                 upstream, halted, crashed>>

StartAgain(c) ==
  /\ setting[c] = "start"
  /\ setting' = [setting EXCEPT ![c] = "idle"]
  /\ IF ticker = 0 THEN Started ELSE UNCHANGED <<loopVars, check>>
  /\ overtaken' = (overtaken \/ halted \/ ticker # 0 \/ \E l \in Loops : loop[l] = "check")
  /\ UNCHANGED <<optionVars, cacheVars, asked, sentTag, answer, wish, savedSettings, upstream, halted,
                 crashed, raced>>

(***************************************************************************)
(* One check.  Checks take turns.                                          *)
(***************************************************************************)

CheckNow(c) ==
  /\ check[c] = "idle" /\ c \in Clients /\ setting[c] = "idle" /\ savedSettings < MaxSettings
  /\ savedSettings' = savedSettings + 1
  /\ check' = [check EXCEPT ![c] = "gate"]
  /\ UNCHANGED <<loopVars, optionVars, cacheVars, asked, sentTag, answer, setting, wish, upstream,
                 halted, crashed, ghostVars>>

EnterCheck(c) ==
  /\ check[c] = "gate" /\ ~checkInFlight
  /\ checkInFlight' = TRUE
  /\ check' = [check EXCEPT ![c] = "fetch"]
  /\ asked' = [asked EXCEPT ![c] = channel]
  /\ UNCHANGED <<loopVars, optionVars, etag, cachedRelease, lastNotified, sentTag, answer,
                 settingVars, upstream, halted, crashed, ghostVars>>

ReadETag(c) ==
  /\ check[c] = "fetch"
  /\ check' = [check EXCEPT ![c] = "answer"]
  /\ sentTag' = [sentTag EXCEPT ![c] = etag]
  /\ UNCHANGED <<loopVars, optionVars, cacheVars, asked, answer, settingVars, upstream, halted,
                 crashed, ghostVars>>

\* Mutant: the etag of an answer without a release on the channel is kept as well.
AnsweredAlways(c) ==
  LET selected == SelectRelease(upstream, asked[c]) IN
  /\ check[c] = "answer" /\ sentTag[c] # upstream
  /\ etag' = upstream /\ cachedRelease' = IF selected # 0 THEN selected ELSE cachedRelease
  /\ answer' = [answer EXCEPT ![c] = selected]
  /\ check' = [check EXCEPT ![c] = "done"]
  /\ UNCHANGED <<loopVars, optionVars, lastNotified, checkInFlight, asked, sentTag, settingVars,
                 upstream, halted, crashed, ghostVars>>

\* The list came: the newest release of the channel is cached with its etag.
Answered(c) ==
  LET selected == SelectRelease(upstream, asked[c]) IN
  /\ check[c] = "answer" /\ sentTag[c] # upstream
  /\ IF selected # 0 THEN etag' = upstream /\ cachedRelease' = selected
     ELSE UNCHANGED <<etag, cachedRelease>>
  /\ answer' = [answer EXCEPT ![c] = selected]
  /\ check' = [check EXCEPT ![c] = "done"]
  /\ UNCHANGED <<loopVars, optionVars, lastNotified, checkInFlight, asked, sentTag, settingVars,
                 upstream, halted, crashed, ghostVars>>

\* 304: the cache is the answer; an empty one is an error.
NotModified(c) ==
  /\ check[c] = "answer" /\ sentTag[c] = upstream
  /\ answer' = [answer EXCEPT ![c] = cachedRelease]
  /\ check' = [check EXCEPT ![c] = "done"]
  /\ UNCHANGED <<loopVars, optionVars, cacheVars, asked, sentTag, settingVars, upstream, halted,
                 crashed, ghostVars>>

\* The request fails or its ten seconds are over.
FetchFails(c) ==
  /\ check[c] = "answer"
  /\ answer' = [answer EXCEPT ![c] = 0]
  /\ check' = [check EXCEPT ![c] = "done"]
  /\ UNCHANGED <<loopVars, optionVars, cacheVars, asked, sentTag, settingVars, upstream, halted,
                 crashed, ghostVars>>

\* A newer release is announced once, and the next check is let in.
EndCheck(c) ==
  /\ check[c] = "done"
  /\ lastNotified' = IF answer[c] > Current THEN answer[c] ELSE lastNotified
  /\ checkInFlight' = FALSE
  /\ check' = [check EXCEPT ![c] = "idle"]
  /\ asked' = [asked EXCEPT ![c] = FALSE]
  /\ sentTag' = [sentTag EXCEPT ![c] = 0] /\ answer' = [answer EXCEPT ![c] = 0]
  /\ UNCHANGED <<loopVars, optionVars, etag, cachedRelease, settingVars, upstream, halted, crashed,
                 ghostVars>>

Release ==
  /\ upstream < MaxReleases
  /\ upstream' = upstream + 1
  /\ UNCHANGED <<loopVars, optionVars, cacheVars, checkVars, settingVars, halted, crashed, ghostVars>>

CheckStep(c) ==
  EnterCheck(c) \/ ReadETag(c) \/ Answered(c) \/ NotModified(c) \/ FetchFails(c) \/ EndCheck(c)
LoopStep(l) == ReadTicker(l) \/ StopSeen(l) \/ LoopEnds(l)
SettingStep(c) == RestartTicker(c) \/ StartAgain(c)

UCNext ==
  /\ ~crashed
  /\ \/ StartChecker \/ StopChecker \/ Release
     \/ \E l \in Loops : TickerFires(l) \/ LoopStep(l)
     \/ \E c \in Checkers : CheckStep(c) \/ CheckNow(c)
     \/ \E c \in Clients :
          \/ SettingStep(c)
          \/ \E pre \in BOOLEAN, hours \in {1, 2} : SetOptions(c, pre, hours)

\* Every runnable goroutine runs and a request ends.
UCFairness ==
  /\ \A l \in Loops : WF_ucVars(~crashed /\ LoopStep(l))
  /\ \A c \in Checkers : WF_ucVars(~crashed /\ CheckStep(c))
  /\ \A c \in Clients : WF_ucVars(~crashed /\ SettingStep(c))

(***************************************************************************)
(* Properties.                                                             *)
(***************************************************************************)

\* The type invariant.
UCTypeOK ==
  /\ {ticker, stopCh, doneCh, starts} \cup stopClosed \cup doneClosed \subseteq 0..MaxStarts
  /\ loop \in [Loops -> {"none", "check", "select", "exit", "ended"}]
  /\ watches \in [Loops -> 0..MaxStarts]
  /\ {etag, cachedRelease, lastNotified, upstream} \subseteq Releases
  /\ check \in [Checkers -> {"idle", "gate", "fetch", "answer", "done"}]
  /\ answer \in [Checkers -> Releases] /\ sentTag \in [Checkers -> Releases]
  /\ setting \in [Clients -> {"idle", "restart", "start"}] /\ savedSettings \in 0..MaxSettings

\* What is cached is what its etag stands for on the channel that is set, so that a reply
\* `not modified' offers no pre-release to who opted out, however changes of the settings
\* and checks alternate: unless the channel changed under a request, or a restart wrote
\* older options back (update_checker.go:86-93, 220, 324-371).
CacheFollowsChannel ==
  ~raced /\ etag # 0 => cachedRelease = SelectRelease(etag, channel) /\ cachedRelease # 0

\* However often the interval changes one loop asks for releases, unless a restart found
\* it in the middle of a check, or Stop between its steps.
LiveLoops == {l \in Loops : loop[l] = "check" \/ (loop[l] = "select" /\ watches[l] \notin stopClosed)}
OneLoop == ~overtaken => Cardinality(LiveLoops) <= 1

\* The two, and the type invariant.
CheckerInv == UCTypeOK /\ CacheFollowsChannel /\ OneLoop

\* A checker that was stopped ends its loops, with the same exception.
CheckerOver == halted => overtaken \/ crashed \/ \A l \in Loops : loop[l] \in {"none", "ended"}
CheckerEnds == <>[]CheckerOver
================================================================================
