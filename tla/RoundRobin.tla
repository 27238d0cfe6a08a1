----------------------------- MODULE RoundRobin -----------------------------
(* loadbalancer.RoundRobinBalancer.  The counter is a signed machine integer *)
(* (int32 in the code) that wraps; % truncates towards zero as in Go, so an  *)
(* index computed from a negative counter is negative and indexing panics.   *)
(* What every strategy has carries the prefix RR here.                       *)
EXTENDS BalancerCalls, FiniteSets

CONSTANT IntMax      \* the largest counter value: 2^31 - 1 in the code

ASSUME CounterAssumption == IntMax \in Nat \ {0}

VARIABLES
  current,   \* the atomic counter
  turns      \* history: turns[b] selections of b since the last disturbance,
             \* not counting full turns

rrVars == <<callVars, current, turns>>

NoTurns == [b \in Backend |-> 0]

RRInit == CallsInit /\ current = -1 /\ turns = NoTurns

AddInt32(n) == IF n = IntMax THEN -IntMax - 1 ELSE n + 1

\* Mutant: the modulus is off by one.
RemOffByOne(a, b) == IF a >= 0 THEN a % (b - 1) ELSE -((-a) % (b - 1))

\* Mutant: indices are counted from one.
RemFromOne(a, b) == IF a >= 0 THEN (a % b) - 1 ELSE -((-a) % b)

Rem(a, b) == IF a >= 0 THEN a % b ELSE -((-a) % b)

\* healthyBackends[i] of the list of backends S, which keeps the configured order
Nth(S, i) == CHOOSE b \in S : Cardinality({a \in S : a < b}) = i

RREnter(c) == CallNext(c) /\ UNCHANGED <<current, turns>>

RRCheckClosed(c) == ClosedCheck(c) /\ UNCHANGED <<current, turns>>

GetHealthyBackends(c) == HealthyRead(c) /\ UNCHANGED <<current, turns>>

GetFallbackBackends(c) == FallbackRead(c) /\ UNCHANGED <<current, turns>>

\* The fast path for a single backend leaves the counter alone.
RRSelectSingle(c) ==
  /\ pc[c] = "pick"
  /\ Cardinality(cand[c]) = 1
  /\ Return(c, Nth(cand[c], 0))
  /\ UNCHANGED <<current, turns>>

\* A selection from a list that is no longer the current one is a disturbance, and
\* so is one with a counter that has wrapped.
CountTurn(c, b) ==
  LET next == [turns EXCEPT ![b] = @ + 1]
  IN turns' = IF cand[c] # Candidates(state) \/ current' < 0 THEN NoTurns
              ELSE IF \A a \in cand[c] : next[a] > 0
                THEN [a \in Backend |-> IF a \in cand[c] THEN next[a] - 1 ELSE 0]
              ELSE next

SelectNext(c) ==
  /\ pc[c] = "pick"
  /\ Cardinality(cand[c]) > 1
  /\ current' = AddInt32(current)
  /\ LET index == Rem(current', Cardinality(cand[c]))
     IN \/ index >= 0 /\ Return(c, Nth(cand[c], index)) /\ CountTurn(c, got'[c])
        \/ index < 0 /\ Panic(c) /\ turns' = NoTurns

RRReportResult(c) == Reported(c) /\ UNCHANGED <<current, turns>>

RRUpdateBackendState(u, s) ==
  StateUpdate(u, s) /\ turns' = NoTurns /\ UNCHANGED current

RRClose == CloseCalls /\ UNCHANGED <<current, turns>>

RRNext ==
  \/ \E c \in Caller :
       \/ RREnter(c) \/ RRCheckClosed(c)
       \/ GetHealthyBackends(c) \/ GetFallbackBackends(c)
       \/ RRSelectSingle(c) \/ SelectNext(c) \/ RRReportResult(c)
  \/ \E b \in Backend, s \in BackendStates : RRUpdateBackendState(Url[b], s)
  \/ RRClose

RRSpec == RRInit /\ [][RRNext]_rrVars
-----------------------------------------------------------------------------
\* NextBackend deals the backends out in turn: however concurrent callers
\* interleave, as long as no state changes and no caller selects from a list
\* read before a change, no usable backend has been given out more than once
\* more often than another.
EvenTurns ==
  \A a, b \in Candidates(state) : turns[a] - turns[b] <= 1

\* NextBackend keeps the promise of domain.LoadBalancer, but for calls that panic; it
\* indexes outside the list it read only while the counter, having wrapped, is below
\* zero: never before the wrap, and not for ever after it.
RRImplementsLoadBalancer ==
  LB!Init /\ [][LB!Next \/ PanicAside({c \in Caller : current' < 0})]_(LB!vars)
=============================================================================
