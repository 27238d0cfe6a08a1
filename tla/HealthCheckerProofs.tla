------------------------ MODULE HealthCheckerProofs ------------------------
(* The load balancer follows the health checker, for any set of backends,    *)
(* any thresholds and any operator: the callback runs under statesMu, so     *)
(* outside it the two copies of a backend's state agree.  And the counters   *)
(* of recordHealthCheck are the runs of equal outcomes that the thresholds   *)
(* are about: no transition is missed and none is made too early.            *)
(*                                                                           *)
(* Then StartMonitoring, the loop and Stop, for any number of loops and of   *)
(* calls of Stop: the running flag admits one loop at a time, a closed       *)
(* channel is the trace of the goroutine that closed it, and a second close  *)
(* needs a second one.                                                       *)
EXTENDS HealthChecker, CheckerLifecycle, SequenceTheorems, FiniteSetTheorems, TLAPS

\* Only the parts of the state that the argument is about: exactly the check
\* that holds statesMu is in the callback, and no check outlives its round, so
\* that a new round never starts over a callback.
RoutingInv ==
  /\ known \in [Backend -> {"healthy", "unhealthy"}]
  /\ check \in [Backend -> {"none", "sent", "passed", "missed", "callback"}]
  /\ statesMu \in Backend \cup {NoBackend}
  /\ routed \in [Backend -> {"healthy", "unhealthy", "maintenance"}]
  /\ \A b \in Backend : check[b] = "callback" <=> statesMu = b
  /\ round = "waiting" => \A b \in Backend : check[b] = "none"
  /\ RoutingFollowsChecker

\* recordHealthCheck only ever decides on healthy or unhealthy.
LEMMA NewStateType ==
  ASSUME known \in [Backend -> {"healthy", "unhealthy"}],
         NEW b \in Backend, NEW isHealthy, NEW s, NEW f
  PROVE  NewState(b, isHealthy, s, f) \in {"healthy", "unhealthy"}
BY Zenon DEF NewState

\* recordHealthCheck takes statesMu with it into the callback if it changed
\* the state, and releases it otherwise.
LEMMA RecordStep ==
  ASSUME RoutingInv, NEW b \in Backend, RecordHealthCheck(b)
  PROVE  RoutingInv'
<1>1. PICK new \in {"healthy", "unhealthy"}, changed \in BOOLEAN :
        /\ changed <=> new # known[b]
        /\ known' = [known EXCEPT ![b] = IF changed THEN new ELSE @]
        /\ statesMu' = IF changed THEN b ELSE NoBackend
        /\ check' = [check EXCEPT ![b] = IF changed THEN "callback" ELSE "none"]
  <2> DEFINE isHealthy == check[b] = "passed"
             s == IF isHealthy THEN Capped(successes[b], HealthyThreshold) ELSE 0
             f == IF isHealthy THEN 0 ELSE Capped(failures[b], UnhealthyThreshold)
             new == NewState(b, isHealthy, s, f)
             changed == known[b] # "maintenance" /\ new # known[b]
  <2>1. new \in {"healthy", "unhealthy"}
    BY NewStateType, Zenon DEF RoutingInv
  <2>2. /\ known' = [known EXCEPT ![b] = IF changed THEN new ELSE @]
        /\ statesMu' = IF changed THEN b ELSE NoBackend
        /\ check' = [check EXCEPT ![b] = IF changed THEN "callback" ELSE "none"]
    BY Zenon DEF RecordHealthCheck
  <2>3. changed \in BOOLEAN /\ (changed <=> new # known[b])
    BY Zenon DEF RoutingInv
  <2> HIDE DEF new, changed
  <2>4. QED
    BY <2>1, <2>2, <2>3, Zenon
<1>2. statesMu = NoBackend /\ check[b] # "none" /\ UNCHANGED <<round, routed>>
  BY Zenon DEF RecordHealthCheck
<1>3. CASE changed
  BY <1>1, <1>2, <1>3, ThresholdAssumption, Zenon DEF RoutingInv, RoutingFollowsChecker
<1>4. CASE ~changed
  BY <1>1, <1>2, <1>4, ThresholdAssumption, Zenon DEF RoutingInv, RoutingFollowsChecker
<1>5. QED
  BY <1>3, <1>4, Zenon

\* Every step keeps the two copies in agreement.
LEMMA RoutingStep ==
  ASSUME RoutingInv, [Next]_vars
  PROVE  RoutingInv'
<1>1. ASSUME PerformHealthChecks PROVE RoutingInv'
  <2>1. \A b \in Backend : check'[b] # "callback"
    BY <1>1, Zenon DEF PerformHealthChecks
  <2>2. \A b \in Backend : check[b] # "callback"
    BY <1>1, Zenon DEF PerformHealthChecks, RoutingInv
  <2>3. QED
    BY <1>1, <2>1, <2>2, Zenon DEF PerformHealthChecks, RoutingInv, RoutingFollowsChecker
<1>2. ASSUME NEW b \in Backend, CheckHealth(b) PROVE RoutingInv'
  BY <1>2, Zenon DEF CheckHealth, RoutingInv, RoutingFollowsChecker
<1>3. ASSUME NEW b \in Backend, RecordHealthCheck(b) PROVE RoutingInv'
  BY <1>3, RecordStep, Zenon
<1>4. ASSUME NEW b \in Backend, OnBackendStateChange(b) PROVE RoutingInv'
  BY <1>4, ThresholdAssumption, Zenon DEF OnBackendStateChange, RoutingInv,
     RoutingFollowsChecker
<1>5. ASSUME RoundDone PROVE RoutingInv'
  BY <1>5, Zenon DEF RoundDone, RoutingInv, RoutingFollowsChecker
<1>6. ASSUME NEW b \in Backend, Flip(b) PROVE RoutingInv'
  BY <1>6, Zenon DEF Flip, checkerVars, RoutingInv, RoutingFollowsChecker
<1>7. ASSUME NEW b \in Maintainable, NEW enabled \in BOOLEAN, SetMaintenanceMode(b, enabled)
      PROVE  RoutingInv'
  BY <1>7, ThresholdAssumption, Zenon
     DEF SetMaintenanceMode, checkerVars, RoutingInv, RoutingFollowsChecker
<1>8. ASSUME UNCHANGED vars PROVE RoutingInv'
  BY <1>8, Zenon DEF vars, checkerVars, RoutingInv, RoutingFollowsChecker
<1>9. QED
  BY <1>1, <1>2, <1>3, <1>4, <1>5, <1>6, <1>7, <1>8, Zenon DEF Next, CheckerStep

\* Outside the callback of a backend that no operator touches, the load
\* balancer's state is the checker's, whatever the interleaving of the checks.
THEOREM RoutingFollows == Spec => []RoutingFollowsChecker
<1>1. Init => RoutingInv
  BY ThresholdAssumption DEF Init, RoutingInv, RoutingFollowsChecker
<1>2. RoutingInv /\ [Next]_vars => RoutingInv'
  BY RoutingStep, Zenon
<1>3. RoutingInv => RoutingFollowsChecker
  BY Zenon DEF RoutingInv
<1>4. QED
  BY <1>1, <1>2, <1>3, PTL DEF Spec
-----------------------------------------------------------------------------
\* LastAll of a given history, one operator for each outcome.
Passed(out, n) == Len(out) >= n /\ \A i \in 1 .. n : out[i] = TRUE
Missed(out, n) == Len(out) >= n /\ \A i \in 1 .. n : out[i] = FALSE

\* Each counter is the length of the run of its outcome that the history of a
\* backend begins with, as far as its threshold.
CountersTell ==
  \A b \in Backend :
    /\ \A n \in 0 .. HealthyThreshold : Passed(outcomes[b], n) <=> n <= successes[b]
    /\ \A n \in 0 .. UnhealthyThreshold : Missed(outcomes[b], n) <=> n <= failures[b]

\* A counter at its threshold has been acted on, and the callback is on its way
\* only for a state that a full run of outcomes has earned.
CountersActed ==
  \A b \in Backend :
    /\ successes[b] = HealthyThreshold => known[b] = "healthy"
    /\ failures[b] = UnhealthyThreshold => known[b] = "unhealthy"
    /\ check[b] = "callback" => Earned(b)

ThresholdInv ==
  /\ RoutingInv
  /\ outcomes \in [Backend -> Seq(BOOLEAN)]
  /\ \A b \in Backend : Len(outcomes[b]) <= Window
  /\ successes \in [Backend -> 0 .. HealthyThreshold]
  /\ failures \in [Backend -> 0 .. UnhealthyThreshold]
  /\ CountersTell
  /\ CountersActed

\* A recorded outcome is put in front of the history, which keeps the latest
\* Window outcomes.
LEMMA RememberShifts ==
  ASSUME NEW out \in Seq(BOOLEAN), Len(out) <= Window, NEW v \in BOOLEAN,
         NEW new, new = SubSeq(<<v>> \o out, 1,
                               IF Len(out) < Window THEN Len(out) + 1 ELSE Window)
  PROVE  /\ new \in Seq(BOOLEAN)
         /\ Len(new) = IF Len(out) < Window THEN Len(out) + 1 ELSE Window
         /\ new[1] = v
         /\ \A i \in 2 .. Len(new) : new[i] = out[i - 1]
<1> DEFINE n == IF Len(out) < Window THEN Len(out) + 1 ELSE Window
           all == <<v>> \o out
<1>1. Window \in Nat \ {0} /\ Len(out) \in Nat
  BY ThresholdAssumption DEF Window
<1>2. n \in Nat \ {0} /\ n <= Len(out) + 1
  BY <1>1
<1>3. /\ all \in Seq(BOOLEAN) /\ Len(all) = Len(out) + 1
      /\ all[1] = v /\ \A i \in 2 .. Len(out) + 1 : all[i] = out[i - 1]
  <2>1. <<v>> \in Seq(BOOLEAN) /\ Len(<<v>>) = 1 /\ <<v>>[1] = v
    OBVIOUS
  <2>2. QED
    BY <1>1, <2>1, ConcatProperties
<1>4. \A i \in 1 .. n : all[i] \in BOOLEAN
  BY <1>1, <1>2, <1>3, ElementOfSeq
<1> HIDE DEF all, n
<1>5. /\ SubSeq(all, 1, n) \in Seq(BOOLEAN) /\ Len(SubSeq(all, 1, n)) = n
      /\ \A i \in 1 .. n : SubSeq(all, 1, n)[i] = all[i]
  BY <1>2, <1>4, SubSeqProperties
<1>6. new = SubSeq(all, 1, n)
  BY Zenon DEF all, n
<1>7. QED
  BY <1>2, <1>3, <1>5, <1>6 DEF n

\* The run of the recorded outcome grows by one; that of the other is over.
LEMMA RunsGrow ==
  ASSUME outcomes \in [Backend -> Seq(BOOLEAN)], NEW b \in Backend,
         Len(outcomes[b]) <= Window, NEW v \in BOOLEAN, Remember(b, v)
  PROVE  /\ outcomes' \in [Backend -> Seq(BOOLEAN)] /\ Len(outcomes'[b]) <= Window
         /\ \A c \in Backend \ {b} : outcomes'[c] = outcomes[c]
         /\ \A n \in 1 .. Window :
              IF v THEN /\ Passed(outcomes'[b], n) <=> Passed(outcomes[b], n - 1)
                        /\ ~Missed(outcomes'[b], n)
              ELSE /\ Missed(outcomes'[b], n) <=> Missed(outcomes[b], n - 1)
                   /\ ~Passed(outcomes'[b], n)
<1> DEFINE out == outcomes[b]
           new == outcomes'[b]
<1>1. Window \in Nat \ {0} /\ Len(out) \in Nat /\ out \in Seq(BOOLEAN)
  BY ThresholdAssumption DEF Window
<1>2. new = SubSeq(<<v>> \o out, 1, IF Len(out) < Window THEN Len(out) + 1 ELSE Window)
  BY Zenon DEF Remember
<1>3. /\ new \in Seq(BOOLEAN)
      /\ Len(new) = IF Len(out) < Window THEN Len(out) + 1 ELSE Window
      /\ new[1] = v
      /\ \A i \in 2 .. Len(new) : new[i] = out[i - 1]
  BY <1>1, <1>2, RememberShifts
<1>4. /\ \A c \in Backend \ {b} : outcomes'[c] = outcomes[c]
      /\ outcomes' \in [Backend -> Seq(BOOLEAN)]
  <2>1. outcomes' = [outcomes EXCEPT ![b] = new]
    BY <1>2, Zenon DEF Remember
  <2>2. QED
    BY <1>3, <2>1, Zenon
<1>5. ASSUME NEW n \in 1 .. Window
      PROVE  IF v THEN /\ Passed(new, n) <=> Passed(out, n - 1)
                       /\ ~Missed(new, n)
             ELSE /\ Missed(new, n) <=> Missed(out, n - 1)
                  /\ ~Passed(new, n)
  <2> DEFINE run == Len(new) >= n /\ \A i \in 1 .. n : new[i] = v
             before == Len(out) >= n - 1 /\ \A i \in 1 .. n - 1 : out[i] = v
  <2> HIDE DEF new, out
  <2>1. ASSUME run PROVE before
    <3>1. Len(out) >= n - 1
      BY <1>1, <1>3, <2>1
    <3>2. ASSUME NEW i \in 1 .. n - 1 PROVE out[i] = v
      <4>1. i + 1 \in 2 .. Len(new) /\ i + 1 \in 1 .. n /\ (i + 1) - 1 = i
        BY <1>1, <1>3, <2>1
      <4>2. new[i + 1] = out[i]
        BY <1>3, <4>1, Zenon
      <4>3. QED
        BY <2>1, <4>1, <4>2, Zenon
    <3>3. QED
      BY <3>1, <3>2, Zenon
  <2>2. ASSUME before PROVE run
    <3>1. Len(new) >= n
      BY <1>1, <1>3, <2>2
    <3>2. ASSUME NEW i \in 2 .. n PROVE new[i] = v
      <4>1. i \in 2 .. Len(new) /\ i - 1 \in 1 .. n - 1
        BY <1>1, <1>3, <3>1
      <4>2. QED
        BY <1>3, <2>2, <4>1, Zenon
    <3>3. QED
      BY <1>3, <3>1, <3>2
  <2>3. ASSUME NEW u \in BOOLEAN, u # v
        PROVE  ~(Len(new) >= n /\ \A i \in 1 .. n : new[i] = u)
    BY <1>3, <2>3
  <2>4. CASE v = TRUE
    <3>1. (Passed(new, n) <=> run) /\ (Passed(out, n - 1) <=> before)
      BY <2>4, Zenon DEF Passed
    <3>2. ~Missed(new, n)
      BY <2>3, <2>4, Zenon DEF Missed
    <3>3. QED
      BY <2>1, <2>2, <2>4, <3>1, <3>2, Zenon
  <2>5. CASE v = FALSE
    <3>1. (Missed(new, n) <=> run) /\ (Missed(out, n - 1) <=> before)
      BY <2>5, Zenon DEF Missed
    <3>2. ~Passed(new, n)
      BY <2>3, <2>5, Zenon DEF Passed
    <3>3. QED
      BY <2>1, <2>2, <2>5, <3>1, <3>2, Zenon
  <2>6. QED
    BY <2>4, <2>5, Zenon
<1>6. QED
  BY <1>1, <1>3, <1>4, <1>5

\* A check that passes or misses adds one to the run its counter stands for,
\* clears the other counter, and changes the state exactly when that completes
\* the run.
LEMMA RecordCounts ==
  ASSUME ThresholdInv, NEW b \in Backend, NEW v \in BOOLEAN,
         v <=> check[b] = "passed", RecordHealthCheck(b)
  PROVE  /\ Remember(b, v)
         /\ successes' = [successes EXCEPT ![b] =
                            IF v THEN Capped(successes[b], HealthyThreshold) ELSE 0]
         /\ failures' = [failures EXCEPT ![b] =
                            IF v THEN 0 ELSE Capped(failures[b], UnhealthyThreshold)]
         /\ known' \in [Backend -> {"healthy", "unhealthy"}]
         /\ known'[b] = IF v /\ successes'[b] >= HealthyThreshold THEN "healthy"
                        ELSE IF ~v /\ failures'[b] >= UnhealthyThreshold THEN "unhealthy"
                        ELSE known[b]
         /\ check'[b] = "callback" => known'[b] # known[b]
         /\ \A c \in Backend \ {b} : known'[c] = known[c] /\ check'[c] = check[c]
<1> DEFINE s == IF v THEN Capped(successes[b], HealthyThreshold) ELSE 0
           f == IF v THEN 0 ELSE Capped(failures[b], UnhealthyThreshold)
           new == NewState(b, v, s, f)
           changed == known[b] # "maintenance" /\ new # known[b]
<1>1. v = (check[b] = "passed")
  BY Zenon
<1>2. /\ Remember(b, v)
      /\ successes' = [successes EXCEPT ![b] = s]
      /\ failures' = [failures EXCEPT ![b] = f]
      /\ known' = [known EXCEPT ![b] = IF changed THEN new ELSE @]
      /\ check' = [check EXCEPT ![b] = IF changed THEN "callback" ELSE "none"]
  BY <1>1, Zenon DEF RecordHealthCheck
<1>3. changed <=> new # known[b]
  BY Zenon DEF ThresholdInv, RoutingInv
<1>4. /\ successes \in [Backend -> 0 .. HealthyThreshold]
      /\ failures \in [Backend -> 0 .. UnhealthyThreshold]
      /\ known \in [Backend -> {"healthy", "unhealthy"}]
      /\ check \in [Backend -> {"none", "sent", "passed", "missed", "callback"}]
      /\ known' \in [Backend -> {"healthy", "unhealthy"}]
  BY RecordStep, Zenon DEF ThresholdInv, RoutingInv
<1> HIDE DEF changed, s, f
<1>5. new = IF v /\ s >= HealthyThreshold THEN "healthy"
            ELSE IF ~v /\ f >= UnhealthyThreshold THEN "unhealthy"
            ELSE known[b]
  BY Zenon DEF NewState
<1> HIDE DEF new
<1>6. successes'[b] = s /\ failures'[b] = f /\ known'[b] = new
  BY <1>2, <1>3, <1>4, Zenon
<1>7. /\ check'[b] = "callback" => known'[b] # known[b]
      /\ \A c \in Backend \ {b} : known'[c] = known[c] /\ check'[c] = check[c]
  BY <1>2, <1>3, <1>4, <1>6, Zenon
<1>8. QED
  BY <1>2, <1>4, <1>5, <1>6, <1>7, Zenon DEF s, f

\* A recorded check keeps the counters equal to the runs, acts on a counter
\* that reaches its threshold, and changes the state for no other reason.
LEMMA RecordKeepsThresholds ==
  ASSUME ThresholdInv, NEW b \in Backend, RecordHealthCheck(b)
  PROVE  ThresholdInv' /\ \A c \in Backend : known'[c] # known[c] => Earned(c)'
<1>1. PICK v \in BOOLEAN : v <=> check[b] = "passed"
  BY Zenon
<1>2. /\ Remember(b, v)
      /\ successes' = [successes EXCEPT ![b] =
                         IF v THEN Capped(successes[b], HealthyThreshold) ELSE 0]
      /\ failures' = [failures EXCEPT ![b] =
                         IF v THEN 0 ELSE Capped(failures[b], UnhealthyThreshold)]
      /\ known' \in [Backend -> {"healthy", "unhealthy"}]
      /\ known'[b] = IF v /\ successes'[b] >= HealthyThreshold THEN "healthy"
                     ELSE IF ~v /\ failures'[b] >= UnhealthyThreshold THEN "unhealthy"
                     ELSE known[b]
      /\ check'[b] = "callback" => known'[b] # known[b]
      /\ \A c \in Backend \ {b} : known'[c] = known[c] /\ check'[c] = check[c]
  BY <1>1, RecordCounts, Zenon
<1>3. /\ outcomes' \in [Backend -> Seq(BOOLEAN)] /\ Len(outcomes'[b]) <= Window
      /\ \A c \in Backend \ {b} : outcomes'[c] = outcomes[c]
      /\ \A n \in 1 .. Window :
           IF v THEN /\ Passed(outcomes'[b], n) <=> Passed(outcomes[b], n - 1)
                     /\ ~Missed(outcomes'[b], n)
           ELSE /\ Missed(outcomes'[b], n) <=> Missed(outcomes[b], n - 1)
                /\ ~Passed(outcomes'[b], n)
  BY <1>2, RunsGrow, Zenon DEF ThresholdInv
<1>4. /\ HealthyThreshold \in Nat \ {0} /\ HealthyThreshold <= Window
      /\ UnhealthyThreshold \in Nat \ {0} /\ UnhealthyThreshold <= Window
      /\ Window \in Nat
  BY ThresholdAssumption DEF Window
<1>5. /\ successes' \in [Backend -> 0 .. HealthyThreshold]
      /\ failures' \in [Backend -> 0 .. UnhealthyThreshold]
      /\ \A c \in Backend \ {b} : successes'[c] = successes[c] /\ failures'[c] = failures[c]
  BY <1>2, <1>4 DEF ThresholdInv, Capped
<1>6. Passed(outcomes'[b], 0) /\ Missed(outcomes'[b], 0)
  BY <1>3 DEF Passed, Missed
<1>7. /\ \A n \in 0 .. HealthyThreshold : Passed(outcomes'[b], n) <=> n <= successes'[b]
      /\ \A n \in 0 .. UnhealthyThreshold : Missed(outcomes'[b], n) <=> n <= failures'[b]
  <2>1. CASE v = TRUE
    <3>1. successes'[b] = Capped(successes[b], HealthyThreshold) /\ failures'[b] = 0
      BY <1>2, <2>1, Zenon DEF ThresholdInv
    <3>2. ASSUME NEW n \in 1 .. HealthyThreshold
          PROVE  Passed(outcomes'[b], n) <=> n <= successes'[b]
      <4>1. n \in 1 .. Window /\ n - 1 \in 0 .. HealthyThreshold
        BY <1>4
      <4>2. Passed(outcomes'[b], n) <=> Passed(outcomes[b], n - 1)
        BY <1>3, <2>1, <4>1, Zenon
      <4>3. Passed(outcomes[b], n - 1) <=> n - 1 <= successes[b]
        BY <4>1, Zenon DEF ThresholdInv, CountersTell
      <4>4. successes[b] \in 0 .. HealthyThreshold
        BY Zenon DEF ThresholdInv
      <4>5. n - 1 <= successes[b] <=> n <= Capped(successes[b], HealthyThreshold)
        BY <1>4, <4>4 DEF Capped
      <4>6. QED
        BY <3>1, <4>2, <4>3, <4>5, Zenon
    <3>3. \A n \in 1 .. UnhealthyThreshold : ~Missed(outcomes'[b], n)
      BY <1>3, <1>4, <2>1
    <3>4. ASSUME NEW n \in 0 .. HealthyThreshold
          PROVE  Passed(outcomes'[b], n) <=> n <= successes'[b]
      <4>1. CASE n = 0
        BY <1>5, <1>6, <4>1
      <4>2. CASE n # 0
        BY <3>2, <4>2
      <4>3. QED
        BY <4>1, <4>2, Zenon
    <3>5. ASSUME NEW n \in 0 .. UnhealthyThreshold
          PROVE  Missed(outcomes'[b], n) <=> n <= failures'[b]
      <4>1. CASE n = 0
        BY <1>6, <3>1, <4>1
      <4>2. CASE n # 0
        BY <3>1, <3>3, <4>2
      <4>3. QED
        BY <4>1, <4>2
    <3>6. QED
      BY <3>4, <3>5, Zenon
  <2>2. CASE v = FALSE
    <3>1. failures'[b] = Capped(failures[b], UnhealthyThreshold) /\ successes'[b] = 0
      BY <1>2, <2>2, Zenon DEF ThresholdInv
    <3>2. ASSUME NEW n \in 1 .. UnhealthyThreshold
          PROVE  Missed(outcomes'[b], n) <=> n <= failures'[b]
      <4>1. n \in 1 .. Window /\ n - 1 \in 0 .. UnhealthyThreshold
        BY <1>4
      <4>2. Missed(outcomes'[b], n) <=> Missed(outcomes[b], n - 1)
        BY <1>3, <2>2, <4>1, Zenon
      <4>3. Missed(outcomes[b], n - 1) <=> n - 1 <= failures[b]
        BY <4>1, Zenon DEF ThresholdInv, CountersTell
      <4>4. failures[b] \in 0 .. UnhealthyThreshold
        BY Zenon DEF ThresholdInv
      <4>5. n - 1 <= failures[b] <=> n <= Capped(failures[b], UnhealthyThreshold)
        BY <1>4, <4>4 DEF Capped
      <4>6. QED
        BY <3>1, <4>2, <4>3, <4>5
    <3>3. \A n \in 1 .. HealthyThreshold : ~Passed(outcomes'[b], n)
      BY <1>3, <1>4, <2>2
    <3>4. ASSUME NEW n \in 0 .. UnhealthyThreshold
          PROVE  Missed(outcomes'[b], n) <=> n <= failures'[b]
      <4>1. CASE n = 0
        BY <1>5, <1>6, <4>1
      <4>2. CASE n # 0
        BY <3>2, <4>2
      <4>3. QED
        BY <4>1, <4>2
    <3>5. ASSUME NEW n \in 0 .. HealthyThreshold
          PROVE  Passed(outcomes'[b], n) <=> n <= successes'[b]
      <4>1. CASE n = 0
        BY <1>6, <3>1, <4>1
      <4>2. CASE n # 0
        BY <3>1, <3>3, <4>2
      <4>3. QED
        BY <4>1, <4>2
    <3>6. QED
      BY <3>4, <3>5, Zenon
  <2>3. QED
    BY <2>1, <2>2, Zenon
<1>8. known'[b] # known[b] => Earned(b)'
  <2>1. ASSUME v, successes'[b] >= HealthyThreshold PROVE Earned(b)'
    BY <1>2, <1>4, <1>5, <1>7, <2>1 DEF Earned, LastAll, Passed, Missed
  <2>2. ASSUME ~v, failures'[b] >= UnhealthyThreshold PROVE Earned(b)'
    BY <1>2, <1>4, <1>5, <1>7, <2>2 DEF Earned, LastAll, Passed, Missed
  <2>3. QED
    BY <1>2, <2>1, <2>2, Zenon
<1>9. ASSUME NEW c \in Backend \ {b}
      PROVE  /\ Earned(c)' <=> Earned(c)
             /\ \A n \in Nat : /\ Passed(outcomes'[c], n) <=> Passed(outcomes[c], n)
                               /\ Missed(outcomes'[c], n) <=> Missed(outcomes[c], n)
  BY <1>2, <1>3, Zenon DEF Earned, LastAll, Passed, Missed
<1>10. CountersTell'
  <2>1. ASSUME NEW c \in Backend \ {b}
        PROVE  /\ \A n \in 0 .. HealthyThreshold : Passed(outcomes'[c], n) <=> n <= successes'[c]
               /\ \A n \in 0 .. UnhealthyThreshold : Missed(outcomes'[c], n) <=> n <= failures'[c]
    BY <1>4, <1>5, <1>9 DEF ThresholdInv, CountersTell
  <2>2. QED
    BY <1>7, <2>1, Zenon DEF CountersTell
<1>11. CountersActed'
  <2>1. /\ successes'[b] = HealthyThreshold => known'[b] = "healthy"
        /\ failures'[b] = UnhealthyThreshold => known'[b] = "unhealthy"
    <3>1. (v => failures'[b] = 0) /\ (~v => successes'[b] = 0)
      BY <1>2, Zenon DEF ThresholdInv
    <3>2. QED
      BY <1>2, <1>4, <1>5, <3>1
  <2>2. check'[b] = "callback" => Earned(b)'
    BY <1>2, <1>8, Zenon
  <2>3. QED
    BY <1>2, <1>5, <1>9, <2>1, <2>2 DEF ThresholdInv, CountersActed
<1>12. QED
  BY <1>2, <1>3, <1>5, <1>8, <1>10, <1>11, RecordStep, Zenon DEF ThresholdInv

\* Every other step leaves the counters, the history and the checker's states
\* alone and enters no callback, so that only the recorded checks matter.
LEMMA ThresholdStep ==
  ASSUME ThresholdInv, [Next]_vars
  PROVE  ThresholdInv' /\ \A b \in Backend : known'[b] # known[b] => Earned(b)'
<1>1. RoutingInv'
  BY RoutingStep, Zenon DEF ThresholdInv
<1>2. ASSUME UNCHANGED <<known, successes, failures, outcomes>>,
             \A b \in Backend : check'[b] = "callback" => check[b] = "callback"
      PROVE  ThresholdInv' /\ \A b \in Backend : known'[b] # known[b] => Earned(b)'
  <2>1. CountersTell'
    BY <1>2, Zenon DEF ThresholdInv, CountersTell
  <2>2. CountersActed'
    BY <1>2, Zenon DEF ThresholdInv, CountersActed, Earned, LastAll
  <2>3. QED
    BY <1>1, <1>2, <2>1, <2>2, Zenon DEF ThresholdInv
<1>3. CASE PerformHealthChecks
  BY <1>2, <1>3, Zenon DEF PerformHealthChecks
<1>4. ASSUME NEW b \in Backend, CheckHealth(b)
      PROVE  ThresholdInv' /\ \A c \in Backend : known'[c] # known[c] => Earned(c)'
  BY <1>2, <1>4, Zenon DEF CheckHealth, ThresholdInv, RoutingInv
<1>5. ASSUME NEW b \in Backend, RecordHealthCheck(b)
      PROVE  ThresholdInv' /\ \A c \in Backend : known'[c] # known[c] => Earned(c)'
  BY <1>5, RecordKeepsThresholds, Zenon
<1>6. ASSUME NEW b \in Backend, OnBackendStateChange(b)
      PROVE  ThresholdInv' /\ \A c \in Backend : known'[c] # known[c] => Earned(c)'
  BY <1>2, <1>6, Zenon DEF OnBackendStateChange, ThresholdInv, RoutingInv
<1>7. CASE RoundDone
  BY <1>2, <1>7, Zenon DEF RoundDone
<1>8. ASSUME NEW b \in Backend, Flip(b)
      PROVE  ThresholdInv' /\ \A c \in Backend : known'[c] # known[c] => Earned(c)'
  BY <1>2, <1>8, Zenon DEF Flip, checkerVars
<1>9. ASSUME NEW b \in Maintainable, NEW enabled \in BOOLEAN, SetMaintenanceMode(b, enabled)
      PROVE  ThresholdInv' /\ \A c \in Backend : known'[c] # known[c] => Earned(c)'
  BY <1>2, <1>9, Zenon DEF SetMaintenanceMode, checkerVars
<1>10. CASE UNCHANGED vars
  BY <1>2, <1>10, Zenon DEF vars, checkerVars
<1>11. QED
  BY <1>3, <1>4, <1>5, <1>6, <1>7, <1>8, <1>9, <1>10, Zenon DEF Next, CheckerStep

\* A checker starts with empty histories and counters at zero.
LEMMA ThresholdsAtFirst ==
  ASSUME Init PROVE ThresholdInv
<1>1. RoutingInv
  BY ThresholdAssumption, Zenon DEF Init, RoutingInv, RoutingFollowsChecker
<1>2. Window \in Nat
  BY ThresholdAssumption, Zenon DEF Window
<1>3. /\ outcomes \in [Backend -> Seq(BOOLEAN)]
      /\ \A b \in Backend : outcomes[b] = <<>> /\ Len(outcomes[b]) = 0
  BY DEF Init
<1>4. CountersTell
  <2>1. \A b \in Backend : successes[b] = 0 /\ failures[b] = 0
    BY Zenon DEF Init
  <2>2. ASSUME NEW b \in Backend, NEW n \in Nat
        PROVE  /\ Passed(outcomes[b], n) <=> n <= successes[b]
               /\ Missed(outcomes[b], n) <=> n <= failures[b]
    BY <1>3, <2>1 DEF Passed, Missed
  <2>3. \A n \in 0 .. HealthyThreshold : n \in Nat
    BY ThresholdAssumption
  <2>4. \A n \in 0 .. UnhealthyThreshold : n \in Nat
    BY ThresholdAssumption
  <2>5. QED
    BY <2>2, <2>3, <2>4, Zenon DEF CountersTell
<1>5. CountersActed
  BY ThresholdAssumption, Zenon DEF Init, CountersActed
<1>6. QED
  BY <1>1, <1>2, <1>3, <1>4, <1>5, ThresholdAssumption DEF Init, ThresholdInv

\* The counters of every backend agree with its history at all times
\* (processHealthResult, SetBackendMaintenance).
LEMMA ThresholdsKept == Spec => []ThresholdInv
<1>1. Init => ThresholdInv
  BY ThresholdsAtFirst, Zenon
<1>2. ThresholdInv /\ [Next]_vars => ThresholdInv'
  BY ThresholdStep, Zenon
<1>3. QED
  BY <1>1, <1>2, PTL DEF Spec

\* recordHealthCheck misses no transition, whatever the thresholds: after that
\* many equal outcomes in a row the checker has the state they stand for.
THEOREM NoTransitionMissed == Spec => []ThresholdsActed
<1>1. ThresholdInv => ThresholdsActed
  <2> SUFFICES ASSUME ThresholdInv, NEW b \in Backend
               PROVE  /\ LastAll(b, UnhealthyThreshold, FALSE) => known[b] = "unhealthy"
                      /\ LastAll(b, HealthyThreshold, TRUE) => known[b] = "healthy"
    BY Zenon DEF ThresholdsActed
  <2>1. /\ LastAll(b, UnhealthyThreshold, FALSE) <=> Missed(outcomes[b], UnhealthyThreshold)
        /\ LastAll(b, HealthyThreshold, TRUE) <=> Passed(outcomes[b], HealthyThreshold)
    BY Zenon DEF LastAll, Passed, Missed
  <2>2. /\ Missed(outcomes[b], UnhealthyThreshold) => failures[b] = UnhealthyThreshold
        /\ Passed(outcomes[b], HealthyThreshold) => successes[b] = HealthyThreshold
    BY ThresholdAssumption DEF ThresholdInv, CountersTell
  <2>3. QED
    BY <2>1, <2>2, Zenon DEF ThresholdInv, CountersActed
<1>2. QED
  BY <1>1, ThresholdsKept, PTL

\* recordHealthCheck makes no transition too early: a state changes only by the
\* check that completes a full run of equal outcomes.
THEOREM NoTransitionUnearned == Spec => TransitionsEarned
<1>1. ThresholdInv /\ [Next]_vars
        => [\A b \in Backend : known'[b] # known[b] => Earned(b)']_vars
  BY ThresholdStep, Zenon
<1>2. QED
  BY <1>1, ThresholdsKept, PTL DEF Spec, TransitionsEarned
-----------------------------------------------------------------------------
\* Loop l is between StartMonitoring and the deferred running = false.
Active(l) == loop[l] \in {"checking", "select", "leaving"}

LifecycleTypes ==
  /\ running \in BOOLEAN /\ crashed \in BOOLEAN
  /\ loop \in [Loop -> {"unborn", "checking", "select", "leaving", "cleared", "exited"}]
  /\ inFlight \in [Loop -> SUBSET Checked]
  /\ stop \in [Stopper -> {"idle", "nothing to stop", "closing", "waiting", "stopped", "timed out"}]

\* The flag is set while a loop is active, there is at most one such loop, and
\* checks are in flight only inside performHealthChecks.
RunningInv ==
  /\ \A l \in Loop : Active(l) => running
  /\ \A k, l \in Loop : Active(k) /\ Active(l) => k = l
  /\ \A l \in Loop : inFlight[l] # {} => loop[l] = "checking"

\* Who has closed what is closed, and that a crash is a second close.
ChannelInv ==
  /\ stoppedCh = "closed" => \E l \in Loop : loop[l] = "exited"
  /\ stopCh = "closed" => \E s \in Stopper : stop[s] \in {"waiting", "stopped", "timed out"}
  /\ \A s \in Stopper : stop[s] = "stopped" => stoppedCh = "closed"
  /\ crashed => \/ \E k, l \in Started : k # l
                \/ \E r, s \in Closers : r # s

LifecycleInv == LifecycleTypes /\ RunningInv /\ ChannelInv

\* A step of one loop that leaves both channels alone.
LEMMA LoopKeepsChannels ==
  ASSUME LifecycleInv, NEW l \in Loop, NEW from, NEW to, LoopAt(l, from, to),
         from # "exited", to # "unborn",
         to \in {"unborn", "checking", "select", "leaving", "cleared", "exited"},
         UNCHANGED <<stopCh, stoppedCh, stop, crashed>>
  PROVE  ChannelInv'
BY Zenon DEF LifecycleInv, LifecycleTypes, ChannelInv, LoopAt, Started, Closers

\* A step of one call of Stop that closes no channel.
LEMMA StopKeepsInv ==
  ASSUME LifecycleInv, NEW s \in Stopper, NEW from, NEW to, StopAt(s, from, to),
         from \notin {"stopped", "timed out"},
         from = "waiting" => to \in {"stopped", "timed out"},
         to = "stopped" => stoppedCh = "closed",
         to \in {"nothing to stop", "closing", "waiting", "stopped", "timed out"},
         UNCHANGED <<running, stopCh, stoppedCh, loop, inFlight, crashed>>
  PROVE  LifecycleInv'
<1>1. LifecycleTypes'
  BY Zenon DEF LifecycleInv, LifecycleTypes, StopAt
<1>2. RunningInv'
  BY Zenon DEF LifecycleInv, RunningInv, Active
<1>3. ChannelInv'
  BY Zenon DEF LifecycleInv, LifecycleTypes, ChannelInv, StopAt, Started, Closers
<1>4. QED
  BY <1>1, <1>2, <1>3, Zenon DEF LifecycleInv

\* StartMonitoring finds running cleared, so that no other loop is active.
LEMMA StartKeeps ==
  ASSUME LifecycleInv, NEW l \in Loop, StartMonitoring(l)
  PROVE  LifecycleInv'
<1>1. LifecycleTypes'
  BY Zenon DEF LifecycleInv, LifecycleTypes, StartMonitoring, StartChecks, LoopAt
<1>2. RunningInv'
  BY DEF LifecycleInv, LifecycleTypes, RunningInv, Active, StartMonitoring,
     StartChecks, LoopAt
<1>3. ChannelInv'
  BY LoopKeepsChannels, Zenon DEF StartMonitoring
<1>4. QED
  BY <1>1, <1>2, <1>3, Zenon DEF LifecycleInv

\* The steps of a loop inside the for of monitoringLoop.
LEMMA LoopKeeps ==
  ASSUME LifecycleInv, NEW l \in Loop,
         ChecksFinished(l) \/ Tick(l) \/ Leave(l) \/ ClearRunning(l)
  PROVE  LifecycleInv'
<1>1. CASE ChecksFinished(l)
  <2>1. LifecycleTypes'
    BY <1>1, Zenon DEF LifecycleInv, LifecycleTypes, ChecksFinished, LoopAt
  <2>2. RunningInv'
    BY <1>1 DEF LifecycleInv, LifecycleTypes, RunningInv, Active, ChecksFinished, LoopAt
  <2>3. ChannelInv'
    BY <1>1, LoopKeepsChannels, Zenon DEF ChecksFinished
  <2>4. QED
    BY <2>1, <2>2, <2>3, Zenon DEF LifecycleInv
<1>2. CASE Tick(l)
  <2>1. LifecycleTypes'
    BY <1>2, Zenon DEF LifecycleInv, LifecycleTypes, Tick, StartChecks, LoopAt
  <2>2. RunningInv'
    BY <1>2 DEF LifecycleInv, LifecycleTypes, RunningInv, Active, Tick, StartChecks,
       LoopAt
  <2>3. ChannelInv'
    BY <1>2, LoopKeepsChannels, Zenon DEF Tick
  <2>4. QED
    BY <2>1, <2>2, <2>3 DEF LifecycleInv
<1>3. CASE Leave(l)
  <2>1. LifecycleTypes'
    BY <1>3, Zenon DEF LifecycleInv, LifecycleTypes, Leave, LoopAt
  <2>2. RunningInv'
    BY <1>3, Zenon DEF LifecycleInv, LifecycleTypes, RunningInv, Active, Leave, LoopAt
  <2>3. ChannelInv'
    BY <1>3, LoopKeepsChannels, Zenon DEF Leave
  <2>4. QED
    BY <2>1, <2>2, <2>3 DEF LifecycleInv
<1>4. CASE ClearRunning(l)
  <2>1. LifecycleTypes'
    BY <1>4, Zenon DEF LifecycleInv, LifecycleTypes, ClearRunning, LoopAt
  <2>2. RunningInv'
    BY <1>4, Zenon DEF LifecycleInv, LifecycleTypes, RunningInv, Active, ClearRunning,
       LoopAt
  <2>3. ChannelInv'
    BY <1>4, LoopKeepsChannels, Zenon DEF ClearRunning
  <2>4. QED
    BY <2>1, <2>2, <2>3 DEF LifecycleInv
<1>5. QED
  BY <1>1, <1>2, <1>3, <1>4, Zenon

\* A loop that ends closes stoppedCh: if it is closed already, another loop has
\* ended before.
LEMMA CloseStoppedKeeps ==
  ASSUME LifecycleInv, NEW l \in Loop, CloseStoppedCh(l)
  PROVE  LifecycleInv'
<1>1. LifecycleTypes'
  BY Zenon DEF LifecycleInv, LifecycleTypes, CloseStoppedCh, LoopAt
<1>2. RunningInv'
  BY DEF LifecycleInv, LifecycleTypes, RunningInv, Active, CloseStoppedCh, LoopAt
<1>3. ChannelInv'
  <2>1. loop'[l] = "exited" /\ loop[l] = "cleared" /\ ~crashed
    BY Zenon DEF LifecycleInv, LifecycleTypes, CloseStoppedCh, LoopAt
  <2>2. ASSUME crashed' PROVE \E k, m \in Started' : k # m
    <3>1. PICK k \in Loop : loop[k] = "exited"
      BY <2>2, Zenon DEF LifecycleInv, ChannelInv, CloseStoppedCh
    <3>2. k # l /\ loop'[k] = "exited"
      BY <2>1, <3>1, Zenon DEF LifecycleInv, LifecycleTypes, CloseStoppedCh, LoopAt
    <3>3. k \in Started' /\ l \in Started'
      BY <2>1, <3>2, Zenon DEF Started
    <3>4. QED
      BY <3>2, <3>3, Zenon
  <2>3. stop' = stop /\ stopCh' = stopCh /\ stoppedCh' = "closed"
    BY Zenon DEF CloseStoppedCh
  <2>4. QED
    BY <2>1, <2>2, <2>3, Zenon DEF LifecycleInv, ChannelInv
<1>4. QED
  BY <1>1, <1>2, <1>3, Zenon DEF LifecycleInv

\* A call of Stop closes stopCh: if it is closed already, another call has.
LEMMA CloseStopKeeps ==
  ASSUME LifecycleInv, NEW s \in Stopper, CloseStopCh(s)
  PROVE  LifecycleInv'
<1>1. LifecycleTypes'
  BY Zenon DEF LifecycleInv, LifecycleTypes, CloseStopCh, StopAt
<1>2. RunningInv'
  BY Zenon DEF LifecycleInv, RunningInv, Active, CloseStopCh
<1>3. ChannelInv'
  <2>1. stop'[s] = "waiting" /\ stop[s] = "closing" /\ ~crashed
    BY Zenon DEF LifecycleInv, LifecycleTypes, CloseStopCh, StopAt
  <2>2. ASSUME crashed' PROVE \E r, q \in Closers' : r # q
    <3>1. PICK r \in Stopper : stop[r] \in {"waiting", "stopped", "timed out"}
      BY <2>2, Zenon DEF LifecycleInv, ChannelInv, CloseStopCh
    <3>2. r # s /\ stop'[r] = stop[r]
      BY <2>1, <3>1, Zenon DEF LifecycleInv, LifecycleTypes, CloseStopCh, StopAt
    <3>3. r \in Closers' /\ s \in Closers'
      BY <2>1, <3>1, <3>2, Zenon DEF Closers
    <3>4. QED
      BY <3>2, <3>3, Zenon
  <2>3. /\ loop' = loop /\ stoppedCh' = stoppedCh
        /\ \A r \in Stopper \ {s} : stop'[r] = stop[r]
    BY Zenon DEF LifecycleInv, LifecycleTypes, CloseStopCh, StopAt
  <2>4. QED
    BY <2>1, <2>2, <2>3, Zenon DEF LifecycleInv, ChannelInv
<1>4. QED
  BY <1>1, <1>2, <1>3, Zenon DEF LifecycleInv

\* Every step.
LEMMA LifecycleStep ==
  ASSUME LifecycleInv, [LifecycleNext]_lifecycleVars
  PROVE  LifecycleInv'
<1>1. ASSUME NEW l \in Loop, LoopStep(l) PROVE LifecycleInv'
  BY <1>1, StartKeeps, LoopKeeps, CloseStoppedKeeps, Zenon DEF LoopStep
<1>2. ASSUME NEW l \in Loop, NEW b \in Checked, CheckDone(l, b) PROVE LifecycleInv'
  BY <1>2, Zenon DEF CheckDone, LifecycleInv, LifecycleTypes, RunningInv, ChannelInv,
     Active,
              Started, Closers
<1>3. ASSUME NEW s \in Stopper, CallStop(s) PROVE LifecycleInv'
  BY <1>3, StopKeepsInv, Zenon DEF CallStop
<1>4. ASSUME NEW s \in Stopper, StopSeesEnd(s) \/ StopTimesOut(s) PROVE LifecycleInv'
  BY <1>4, StopKeepsInv, Zenon DEF StopSeesEnd, StopTimesOut
<1>5. ASSUME UNCHANGED <<running, stopCh, stoppedCh, loop, inFlight, stop, crashed>>
      PROVE  LifecycleInv'
  BY <1>5, Zenon DEF LifecycleInv, LifecycleTypes, RunningInv, ChannelInv, Active,
     Started, Closers
<1>6. QED
  BY <1>1, <1>2, <1>3, <1>4, <1>5, CloseStopKeeps, Zenon DEF LifecycleNext, Cancel,
     lifecycleVars

\* The flag, the two channels and the check loop agree at all times
\* (StartMonitoring, Stop and monitoringLoop).
LEMMA LifecycleKept == LifecycleSpec => []LifecycleInv
<1>1. LifecycleInit => LifecycleInv
  BY Zenon DEF LifecycleInit, LifecycleInv, LifecycleTypes, RunningInv, ChannelInv, Active
<1>2. LifecycleInv /\ [LifecycleNext]_lifecycleVars => LifecycleInv'
  BY LifecycleStep, Zenon
<1>3. QED
  BY <1>1, <1>2, PTL DEF LifecycleSpec

\* A second StartMonitoring is refused as long as the first loop runs: two
\* rounds of checks are never in flight together.
THEOREM OneRoundAtATime == LifecycleSpec => []OneLoop
<1>1. LifecycleInv => OneLoop
  BY Zenon DEF LifecycleInv, RunningInv, Active, OneLoop
<1>2. QED
  BY <1>1, LifecycleKept, PTL

\* Stop that returns because the loop ended leaves no check in flight, however
\* the loop, the context and the timeout interleave.
THEOREM StoppedIsQuiet == LifecycleSpec => []StopQuiesces
<1>1. LifecycleInv => StopQuiesces
  <2> SUFFICES ASSUME LifecycleInv, NEW s \in Stopper, NEW l \in Loop, stop[s] = "stopped",
                      \A k \in Loop \ {l} : loop[k] = "unborn"
               PROVE  loop[l] = "exited" /\ inFlight[l] = {}
    BY Zenon DEF StopQuiesces
  <2>1. PICK k \in Loop : loop[k] = "exited"
    BY Zenon DEF LifecycleInv, ChannelInv
  <2>2. k = l
    BY <2>1, Zenon
  <2>3. QED
    BY <2>1, <2>2, Zenon DEF LifecycleInv, RunningInv
<1>2. QED
  BY <1>1, LifecycleKept, PTL

\* Two different members make a finite set larger than one.
LEMMA TwoMembers ==
  ASSUME NEW S, IsFiniteSet(S), NEW x \in S, NEW y \in S, x # y
  PROVE  Cardinality(S) > 1
<1>1. Cardinality({x, y}) = 2
  <2>1. {x, y} = {x} \cup {y} /\ y \notin {x}
    BY Zenon
  <2>2. IsFiniteSet({x}) /\ Cardinality({x}) = 1
    BY FS_Singleton, Zenon
  <2>3. Cardinality({x} \cup {y}) = Cardinality({x}) + 1
    BY <2>1, <2>2, FS_AddElement, Zenon
  <2>4. QED
    BY <2>1, <2>2, <2>3
<1>2. {x, y} \in SUBSET S
  BY Zenon
<1>3. Cardinality(S) \in Nat /\ Cardinality({x, y}) <= Cardinality(S)
  BY <1>2, FS_Subset, FS_CardinalityType, Zenon
<1>4. QED
  BY <1>1, <1>3

\* Nothing but a second start or a second Stop that found the checker running
\* closes a channel twice.
THEOREM NoCrashWithoutRepeat == LifecycleSpec => []CrashNeedsRepeat
<1>1. IsFiniteSet(Started) /\ IsFiniteSet(Closers)
  BY LifecycleAssumption, FS_Subset, Zenon DEF Started, Closers
<1>2. LifecycleInv => CrashNeedsRepeat
  BY <1>1, TwoMembers, Zenon DEF LifecycleInv, ChannelInv, CrashNeedsRepeat
<1>3. QED
  BY <1>2, LifecycleKept, PTL
=============================================================================
