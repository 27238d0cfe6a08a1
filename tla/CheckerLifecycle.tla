-------------------------- MODULE CheckerLifecycle --------------------------
(* StartMonitoring, monitoringLoop and Stop of health.Checker: the running   *)
(* flag and the two channels that are made once, in NewChecker.  Closing a   *)
(* closed channel panics outside any handler and ends the process.           *)
EXTENDS Naturals, FiniteSets

CONSTANTS
  Checked,   \* the backends that every round checks
  Loop,      \* the monitoring goroutines that may be started (bound)
  Stopper    \* the goroutines that call Stop, once each (bound)

ASSUME LifecycleAssumption == IsFiniteSet(Loop) /\ IsFiniteSet(Stopper)

VARIABLES
  running,
  cancelled,   \* cancelled[l]: the context that loop l was started with is done
  stopCh, stoppedCh,   \* "open" or "closed"
  loop,        \* loop[l]: where monitoring goroutine l is
  inFlight,    \* inFlight[l]: the backends with a check of loop l in flight
  stop,        \* stop[s]: where the call of Stop by s is
  crashed

lifecycleVars == <<running, cancelled, stopCh, stoppedCh, loop, inFlight, stop, crashed>>

LifecycleInit ==
  /\ running = FALSE
  /\ cancelled = [l \in Loop |-> FALSE]
  /\ stopCh = "open" /\ stoppedCh = "open"
  /\ loop = [l \in Loop |-> "unborn"]
  /\ inFlight = [l \in Loop |-> {}]
  /\ stop = [s \in Stopper |-> "idle"]
  /\ crashed = FALSE

LoopAt(l, from, to) ==
  ~crashed /\ loop[l] = from /\ loop' = [loop EXCEPT ![l] = to]

StopAt(s, from, to) ==
  ~crashed /\ stop[s] = from /\ stop' = [stop EXCEPT ![s] = to]

\* performHealthChecks starts one goroutine per backend ...
StartChecks(l) == inFlight' = [inFlight EXCEPT ![l] = Checked]

\* Mutant: running is set and not looked at.
StartAgain(l) ==
  /\ running' = TRUE
  /\ LoopAt(l, "unborn", "checking")
  /\ StartChecks(l)
  /\ UNCHANGED <<cancelled, stopCh, stoppedCh, stop, crashed>>

StartMonitoring(l) ==
  /\ ~running
  /\ running' = TRUE
  /\ LoopAt(l, "unborn", "checking")
  /\ StartChecks(l)
  /\ UNCHANGED <<cancelled, stopCh, stoppedCh, stop, crashed>>

CheckDone(l, b) ==
  /\ ~crashed
  /\ b \in inFlight[l]
  /\ inFlight' = [inFlight EXCEPT ![l] = @ \ {b}]
  /\ UNCHANGED <<running, cancelled, stopCh, stoppedCh, loop, stop, crashed>>

\* Mutant: wg.Wait is missing.
ChecksLeftRunning(l) ==
  /\ LoopAt(l, "checking", "select")
  /\ UNCHANGED <<running, cancelled, stopCh, stoppedCh, inFlight, stop, crashed>>

\* ... and waits for all of them.
ChecksFinished(l) ==
  /\ LoopAt(l, "checking", "select")
  /\ inFlight[l] = {}
  /\ UNCHANGED <<running, cancelled, stopCh, stoppedCh, inFlight, stop, crashed>>

Tick(l) ==
  /\ LoopAt(l, "select", "checking")
  /\ StartChecks(l)
  /\ UNCHANGED <<running, cancelled, stopCh, stoppedCh, stop, crashed>>

\* Mutant: the loop looks at its context only.
LeaveIfCancelled(l) ==
  /\ cancelled[l]
  /\ LoopAt(l, "select", "leaving")
  /\ UNCHANGED <<running, cancelled, stopCh, stoppedCh, inFlight, stop, crashed>>

Leave(l) ==
  /\ cancelled[l] \/ stopCh = "closed"
  /\ LoopAt(l, "select", "leaving")
  /\ UNCHANGED <<running, cancelled, stopCh, stoppedCh, inFlight, stop, crashed>>

\* The deferred functions: running is cleared first, stoppedCh closed last.
ClearRunning(l) ==
  /\ LoopAt(l, "leaving", "cleared")
  /\ running' = FALSE
  /\ UNCHANGED <<cancelled, stopCh, stoppedCh, inFlight, stop, crashed>>

CloseStoppedCh(l) ==
  /\ LoopAt(l, "cleared", "exited")
  /\ stoppedCh' = "closed"
  /\ crashed' = (stoppedCh = "closed")
  /\ UNCHANGED <<running, cancelled, stopCh, inFlight, stop>>

Cancel(l) ==
  /\ ~crashed /\ ~cancelled[l]
  /\ cancelled' = [cancelled EXCEPT ![l] = TRUE]
  /\ UNCHANGED <<running, stopCh, stoppedCh, loop, inFlight, stop, crashed>>

CallStop(s) ==
  /\ StopAt(s, "idle", IF running THEN "closing" ELSE "nothing to stop")
  /\ UNCHANGED <<running, cancelled, stopCh, stoppedCh, loop, inFlight, crashed>>

\* Mutant: Stop closes the channel of the loop as well.
CloseBothChannels(s) ==
  /\ StopAt(s, "closing", "waiting")
  /\ stopCh' = "closed" /\ stoppedCh' = "closed"
  /\ crashed' = (stopCh = "closed")
  /\ UNCHANGED <<running, cancelled, loop, inFlight>>

CloseStopCh(s) ==
  /\ StopAt(s, "closing", "waiting")
  /\ stopCh' = "closed"
  /\ crashed' = (stopCh = "closed")
  /\ UNCHANGED <<running, cancelled, stoppedCh, loop, inFlight>>

StopSeesEnd(s) ==
  /\ stoppedCh = "closed"
  /\ StopAt(s, "waiting", "stopped")
  /\ UNCHANGED <<running, cancelled, stopCh, stoppedCh, loop, inFlight, crashed>>

\* stopTimeoutSeconds pass: a round of checks may take longer than that.
StopTimesOut(s) ==
  /\ StopAt(s, "waiting", "timed out")
  /\ UNCHANGED <<running, cancelled, stopCh, stoppedCh, loop, inFlight, crashed>>

LoopStep(l) ==
  \/ StartMonitoring(l) \/ ChecksFinished(l) \/ Tick(l) \/ Leave(l)
  \/ ClearRunning(l) \/ CloseStoppedCh(l)

LifecycleNext ==
  \/ \E l \in Loop : LoopStep(l) \/ Cancel(l)
  \/ \E l \in Loop, b \in Checked : CheckDone(l, b)
  \/ \E s \in Stopper :
       CallStop(s) \/ CloseStopCh(s) \/ StopSeesEnd(s) \/ StopTimesOut(s)

LifecycleSpec == LifecycleInit /\ [][LifecycleNext]_lifecycleVars

\* Checks have a timeout; select chooses at random among the ready cases, so a
\* closed stopCh cannot lose to the ticker for ever; Stop's timer fires.
FairLifecycle ==
  /\ LifecycleSpec
  /\ \A l \in Loop : /\ \A b \in Checked : WF_lifecycleVars(CheckDone(l, b))
                     /\ WF_lifecycleVars(ChecksFinished(l))
                     /\ SF_lifecycleVars(Leave(l))
                     /\ WF_lifecycleVars(ClearRunning(l))
                     /\ WF_lifecycleVars(CloseStoppedCh(l))
  /\ \A s \in Stopper : /\ WF_lifecycleVars(CloseStopCh(s))
                        /\ WF_lifecycleVars(StopSeesEnd(s) \/ StopTimesOut(s))
-----------------------------------------------------------------------------
\* When Stop returns because the loop ended, and monitoring was started once,
\* no health check is in flight and none will start: the callback cannot fire
\* into a service that is closing.
StopQuiesces ==
  \A s \in Stopper, l \in Loop :
    stop[s] = "stopped" /\ (\A k \in Loop \ {l} : loop[k] = "unborn") =>
      loop[l] = "exited" /\ inFlight[l] = {}

\* A second StartMonitoring is refused: two rounds of checks, which would both
\* count towards the thresholds, never run at the same time.
OneLoop ==
  \A k, l \in Loop : inFlight[k] # {} /\ inFlight[l] # {} => k = l

\* A call of Stop always returns, and monitoring it asked to end does end (or
\* a channel closed twice has ended the process).
StopEnds ==
  /\ \A s \in Stopper :
       stop[s] = "closing" ~> stop[s] \in {"stopped", "timed out"} \/ crashed
  /\ stopCh = "closed" ~> (\A l \in Loop : loop[l] \in {"unborn", "exited"}) \/ crashed

Started == {l \in Loop : loop[l] # "unborn"}

Closers == {s \in Stopper : stop[s] \notin {"idle", "nothing to stop"}}

\* stopCh and stoppedCh are closed twice only if monitoring was started again
\* or two calls of Stop found it running: one start and any one Stop are safe
\* whatever the timing of the loop, the context and the timeout.
CrashNeedsRepeat ==
  crashed => Cardinality(Started) > 1 \/ Cardinality(Closers) > 1
=============================================================================
