--------------------------- MODULE MCHealthChecker ---------------------------
(* health.Checker for model checking: its rounds of checks and what they tell *)
(* the load balancer (HealthChecker), or how it is started and stopped        *)
(* (CheckerLifecycle), one at a time.                                         *)
EXTENDS HealthChecker, CheckerLifecycle

VARIABLE part    \* the half that is checked; the other one stands still

checkedVars == <<part, vars, lifecycleVars>>

CheckerInit ==
  /\ part \in {"rounds", "lifecycle"}
  /\ Init /\ LifecycleInit
  /\ part = "lifecycle" => \A b \in Backend : up[b]

CheckerNext ==
  \/ part = "rounds" /\ Next /\ UNCHANGED <<part, lifecycleVars>>
  \/ part = "lifecycle" /\ LifecycleNext /\ UNCHANGED <<part, vars>>

\* With the fairness of FairSpec and of FairLifecycle for the half that is checked.
CheckerSpec ==
  /\ CheckerInit /\ [][CheckerNext]_checkedVars
  /\ WF_vars(part = "rounds" /\ PerformHealthChecks)
  /\ WF_vars(part = "rounds" /\ RoundDone)
  /\ \A b \in Backend : /\ WF_vars(part = "rounds" /\ CheckHealth(b))
                        /\ SF_vars(part = "rounds" /\ RecordHealthCheck(b))
                        /\ WF_vars(part = "rounds" /\ OnBackendStateChange(b))
  /\ \A l \in Loop :
       /\ \A b \in Checked : WF_lifecycleVars(part = "lifecycle" /\ CheckDone(l, b))
       /\ WF_lifecycleVars(part = "lifecycle" /\ ChecksFinished(l))
       /\ SF_lifecycleVars(part = "lifecycle" /\ Leave(l))
       /\ WF_lifecycleVars(part = "lifecycle" /\ ClearRunning(l))
       /\ WF_lifecycleVars(part = "lifecycle" /\ CloseStoppedCh(l))
  /\ \A s \in Stopper :
       /\ WF_lifecycleVars(part = "lifecycle" /\ CloseStopCh(s))
       /\ WF_lifecycleVars(part = "lifecycle" /\ (StopSeesEnd(s) \/ StopTimesOut(s)))
=============================================================================
