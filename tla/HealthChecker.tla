---------------------------- MODULE HealthChecker ----------------------------
(* health.Checker's rounds of checks, the thresholds of recordHealthCheck,   *)
(* the callback into the load balancer and EnhancedService.SetMaintenance-   *)
(* Mode, which writes the same entry of the load balancer.  known is the     *)
(* checker's own copy of the backends, routed the balancer's.                *)
EXTENDS Naturals, Sequences

CONSTANTS
  Backend, NoBackend,
  HealthyThreshold, UnhealthyThreshold,
  Maintainable    \* the backends an operator puts into and out of maintenance

ASSUME ThresholdAssumption ==
  /\ HealthyThreshold \in Nat \ {0}
  /\ UnhealthyThreshold \in Nat \ {0}
  /\ Maintainable \subseteq Backend
  /\ NoBackend \notin Backend

VARIABLES
  up,          \* up[b]: what a health request to b would be answered now
  known,       \* known[b]: hc.backends[i].State
  successes,   \* consecutiveSuccesses, counted up to HealthyThreshold
  failures,    \* consecutiveFailures, counted up to UnhealthyThreshold
  round,       \* "waiting" in the loop's select, "checking" in wg.Wait
  check,       \* check[b]: where the check goroutine of b is
  statesMu,    \* the backend whose check holds statesMu, or NoBackend
  routed,      \* routed[b]: the state in the load balancer
  outcomes     \* history: the latest recorded outcomes of b, newest first

checkerVars == <<known, successes, failures, round, check, statesMu>>
vars == <<up, checkerVars, routed, outcomes>>

Init ==
  /\ up \in [Backend -> BOOLEAN]
  /\ known = [b \in Backend |-> "healthy"]
  /\ successes = [b \in Backend |-> 0]
  /\ failures = [b \in Backend |-> 0]
  /\ round = "waiting"
  /\ check = [b \in Backend |-> "none"]
  /\ statesMu = NoBackend
  /\ routed = [b \in Backend |-> "healthy"]
  /\ outcomes = [b \in Backend |-> <<>>]

\* Environment: a backend starts or stops answering health requests with 2xx.
Flip(b) ==
  /\ up' = [up EXCEPT ![b] = ~@]
  /\ UNCHANGED <<checkerVars, routed, outcomes>>

\* The ticker fires (or the loop starts): one check per backend.
PerformHealthChecks ==
  /\ round = "waiting"
  /\ round' = "checking"
  /\ check' = [b \in Backend |-> IF known[b] = "maintenance" THEN "none" ELSE "sent"]
  /\ UNCHANGED <<up, known, successes, failures, statesMu, routed, outcomes>>

\* The health request is answered, fails or times out.
CheckHealth(b) ==
  /\ check[b] = "sent"
  /\ check' = [check EXCEPT ![b] = IF up[b] THEN "passed" ELSE "missed"]
  /\ UNCHANGED <<up, known, successes, failures, round, statesMu, routed, outcomes>>

Capped(n, max) == IF n < max THEN n + 1 ELSE max

\* Mutant: the thresholds must be exceeded.
NewStateLate(b, isHealthy, s, f) ==
  IF isHealthy /\ s > HealthyThreshold THEN "healthy"
  ELSE IF ~isHealthy /\ f > UnhealthyThreshold THEN "unhealthy"
  ELSE known[b]

\* Mutant: one passed check is enough to recover.
NewStateEager(b, isHealthy, s, f) ==
  IF isHealthy THEN "healthy"
  ELSE IF f >= UnhealthyThreshold THEN "unhealthy"
  ELSE known[b]

\* The state that the switch of recordHealthCheck decides on.
NewState(b, isHealthy, s, f) ==
  IF isHealthy /\ s >= HealthyThreshold THEN "healthy"
  ELSE IF ~isHealthy /\ f >= UnhealthyThreshold THEN "unhealthy"
  ELSE known[b]

Window == IF HealthyThreshold > UnhealthyThreshold
          THEN HealthyThreshold ELSE UnhealthyThreshold

Remember(b, isHealthy) ==
  outcomes' = [outcomes EXCEPT ![b] =
                 SubSeq(<<isHealthy>> \o @, 1,
                        IF Len(@) < Window THEN Len(@) + 1 ELSE Window)]

\* recordHealthCheck up to the callback, which runs with statesMu held.
RecordHealthCheck(b) ==
  LET isHealthy == check[b] = "passed"
      s == IF isHealthy THEN Capped(successes[b], HealthyThreshold) ELSE 0
      f == IF isHealthy THEN 0 ELSE Capped(failures[b], UnhealthyThreshold)
      new == NewState(b, isHealthy, s, f)
      changed == known[b] # "maintenance" /\ new # known[b]
  IN /\ check[b] \in {"passed", "missed"}
     /\ statesMu = NoBackend
     /\ successes' = [successes EXCEPT ![b] = s]
     /\ failures' = [failures EXCEPT ![b] = f]
     /\ known' = [known EXCEPT ![b] = IF changed THEN new ELSE @]
     /\ statesMu' = IF changed THEN b ELSE NoBackend
     /\ check' = [check EXCEPT ![b] = IF changed THEN "callback" ELSE "none"]
     /\ Remember(b, isHealthy)
     /\ UNCHANGED <<up, round, routed>>

\* Mutant: the callback does not reach the load balancer.
OnBackendStateChangeLost(b) ==
  /\ check[b] = "callback"
  /\ statesMu' = NoBackend
  /\ check' = [check EXCEPT ![b] = "none"]
  /\ UNCHANGED <<up, known, successes, failures, round, routed, outcomes>>

\* onStateChange tells the load balancer, then recordHealthCheck unlocks.
OnBackendStateChange(b) ==
  /\ check[b] = "callback"
  /\ routed' = [routed EXCEPT ![b] = known[b]]
  /\ statesMu' = NoBackend
  /\ check' = [check EXCEPT ![b] = "none"]
  /\ UNCHANGED <<up, known, successes, failures, round, outcomes>>

\* wg.Wait returns: all checks of the round are done.
RoundDone ==
  /\ round = "checking"
  /\ \A b \in Backend : check[b] = "none"
  /\ round' = "waiting"
  /\ UNCHANGED <<up, known, successes, failures, check, statesMu, routed, outcomes>>

\* SetMaintenanceMode updates the load balancer and nothing else.
SetMaintenanceMode(b, enabled) ==
  /\ routed' = [routed EXCEPT ![b] = IF enabled THEN "maintenance" ELSE "healthy"]
  /\ UNCHANGED <<up, checkerVars, outcomes>>

CheckerStep ==
  \/ PerformHealthChecks
  \/ RoundDone
  \/ \E b \in Backend : CheckHealth(b) \/ RecordHealthCheck(b) \/ OnBackendStateChange(b)

Next ==
  \/ CheckerStep
  \/ \E b \in Backend : Flip(b)
  \/ \E b \in Maintainable, enabled \in BOOLEAN : SetMaintenanceMode(b, enabled)

Spec == Init /\ [][Next]_vars

\* The ticker keeps firing and the scheduler runs every check goroutine; a
\* mutex that is released for ever is acquired by one that waits for it.
Fairness ==
  /\ WF_vars(PerformHealthChecks)
  /\ WF_vars(RoundDone)
  /\ \A b \in Backend : /\ WF_vars(CheckHealth(b))
                        /\ SF_vars(RecordHealthCheck(b))
                        /\ WF_vars(OnBackendStateChange(b))

FairSpec == Spec /\ Fairness
-----------------------------------------------------------------------------
LastAll(b, n, v) ==
  Len(outcomes[b]) >= n /\ \A i \in 1 .. n : outcomes[b][i] = v

Earned(b) ==
  \/ known[b] = "unhealthy" /\ LastAll(b, UnhealthyThreshold, FALSE)
  \/ known[b] = "healthy" /\ LastAll(b, HealthyThreshold, TRUE)

\* recordHealthCheck misses no transition: once the latest UnhealthyThreshold
\* checks of a backend all failed the checker has it unhealthy, and once the
\* latest HealthyThreshold checks all passed it has it healthy.
ThresholdsActed ==
  \A b \in Backend :
    /\ LastAll(b, UnhealthyThreshold, FALSE) => known[b] = "unhealthy"
    /\ LastAll(b, HealthyThreshold, TRUE) => known[b] = "healthy"

\* recordHealthCheck makes no transition too early: the state changes only by
\* a check that completes a full run of equal outcomes.
TransitionsEarned ==
  [][\A b \in Backend : known'[b] # known[b] => Earned(b)']_vars

\* The load balancer follows the checker: outside the callback of a backend
\* its two states agree (no operator touching the backend's state).
RoutingFollowsChecker ==
  \A b \in Backend \ Maintainable : statesMu = b \/ routed[b] = known[b]

\* The load balancer converges to what a backend that no operator touches
\* really is: one that stays down is in the end no longer offered to requests,
\* and one that stays up is offered.
RoutingConverges ==
  \A b \in Backend \ Maintainable :
    /\ <>[](~up[b]) => <>[](routed[b] = "unhealthy")
    /\ <>[](up[b]) => <>[](routed[b] = "healthy")

\* "Don't change maintenance state via health checks", recordHealthCheck says: the
\* maintenance of a backend in the load balancer ends by SetMaintenanceMode only.  It does
\* not hold: the checker does not know of it, and its callback writes over it.
MaintenanceStays ==
  [][\A b \in Backend : routed[b] = "maintenance" /\ routed'[b] # "maintenance"
                          => SetMaintenanceMode(b, FALSE)]_vars
=============================================================================
