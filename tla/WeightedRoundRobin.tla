------------------------- MODULE WeightedRoundRobin -------------------------
(* loadbalancer.WeightedRoundRobinBalancer: smooth weighted round robin.     *)
(* selectByWeight runs under mu and is one step.  The weights are int32 in   *)
(* the selection: Clip and Int32 are the code's overflow checks and the      *)
(* wraparound that is left when a check falls back to DefaultBackendWeight.  *)
(* What every strategy has carries the prefix WRR here.                      *)
EXTENDS BalancerCalls, FiniteSets

CONSTANTS
  Configured,   \* Configured[b]: the weight of backend b in the configuration
  MaxInt32,     \* the largest int32, 2^31 - 1 in the code
  MaxPanics     \* bound: no call is made after so many panics

ASSUME WeightAssumption ==
  /\ Configured \in [Backend -> Nat]
  /\ MaxInt32 \in Nat \ {0} /\ MaxPanics \in Nat \ {0}

VARIABLES
  currentWeights,
  served,    \* history: served[b] selections of b in the current round
  began,     \* history: the current weights when the round began
  panics     \* how many calls have panicked

historyVars == <<served, began, panics>>
wrrVars == <<callVars, currentWeights, historyVars>>

DefaultBackendWeight == 1

\* The constructor's table keeps a weight that is too large for int32.
weights == [b \in Backend |-> IF Configured[b] <= 0 THEN DefaultBackendWeight
                              ELSE Configured[b]]

NoneServed == [b \in Backend |-> 0]

NewRound == served' = NoneServed /\ began' = currentWeights'

WRRInit ==
  /\ CallsInit
  /\ currentWeights = NoneServed
  /\ served = NoneServed /\ began = NoneServed
  /\ panics = 0

Int32(n) == ((n + MaxInt32 + 1) % (2 * MaxInt32 + 2)) - MaxInt32 - 1

Clip(sum, w) == IF sum > MaxInt32 - w THEN DefaultBackendWeight ELSE w

Valid(S) == {b \in S : weights[b] <= MaxInt32}

\* totalHealthyWeight, accumulated in the order of the configuration
TotalWeight(S) ==
  LET upTo[i \in 0 .. NumBackends] ==
        IF i = 0 THEN 0
        ELSE IF i \notin Valid(S) THEN upTo[i - 1]
        ELSE Int32(upTo[i - 1] + Clip(upTo[i - 1], weights[i]))
  IN upTo[NumBackends]

Raised(S) ==
  [b \in Backend |->
     IF b \in Valid(S)
     THEN Int32(currentWeights[b] + Clip(currentWeights[b], weights[b]))
     ELSE currentWeights[b]]

\* Mutant: the search starts from the default weight.
BestAboveDefault(S) ==
  {b \in Valid(S) :
     /\ Raised(S)[b] > DefaultBackendWeight
     /\ \A a \in Valid(S) : \/ Raised(S)[a] < Raised(S)[b]
                            \/ Raised(S)[a] = Raised(S)[b] /\ b <= a}

\* The loop keeps the first index with the largest weight above -1.
Best(S) ==
  {b \in Valid(S) :
     /\ Raised(S)[b] > -1
     /\ \A a \in Valid(S) : \/ Raised(S)[a] < Raised(S)[b]
                            \/ Raised(S)[a] = Raised(S)[b] /\ b <= a}

WRREnter(c) == panics < MaxPanics /\ CallNext(c) /\ UNCHANGED <<currentWeights, historyVars>>

WRRCheckClosed(c) == ClosedCheck(c) /\ UNCHANGED <<currentWeights, historyVars>>

WRRGetHealthyBackendIndices(c) ==
  HealthyRead(c) /\ UNCHANGED <<currentWeights, historyVars>>

WRRGetFallbackBackendIndices(c) ==
  FallbackRead(c) /\ UNCHANGED <<currentWeights, historyVars>>

\* The fast path for a single backend leaves the weights alone.
WRRSelectSingle(c) ==
  /\ pc[c] = "pick"
  /\ Cardinality(cand[c]) = 1
  /\ \E b \in cand[c] : Return(c, b)
  /\ UNCHANGED <<currentWeights, historyVars>>

Selections(f) ==
  LET upTo[i \in 0 .. NumBackends] == IF i = 0 THEN 0 ELSE upTo[i - 1] + f[i]
  IN upTo[NumBackends]

\* A round is as many selections from the usable backends as their weights add
\* up to; a selection from a list that is no longer current starts a new one.
Count(c, b) ==
  LET next == [served EXCEPT ![b] = @ + 1]
  IN IF cand[c] # Candidates(state) \/ Selections(next) = TotalWeight(cand[c])
     THEN NewRound
     ELSE served' = next /\ UNCHANGED began

\* Mutant: the selected backend pays its own weight, not the total.
SelectAndPayOwn(c) ==
  /\ pc[c] = "pick"
  /\ Cardinality(cand[c]) > 1
  /\ \E b \in Best(cand[c]) :
       /\ currentWeights' = [Raised(cand[c]) EXCEPT ![b] = Int32(@ - weights[b])]
       /\ Return(c, b)
       /\ Count(c, b)
  /\ UNCHANGED panics

SelectByWeight(c) ==
  /\ pc[c] = "pick"
  /\ Cardinality(cand[c]) > 1
  /\ \/ \E b \in Best(cand[c]) :
          /\ currentWeights' =
               [Raised(cand[c]) EXCEPT ![b] = Int32(@ - TotalWeight(cand[c]))]
          /\ Return(c, b)
          /\ Count(c, b)
          /\ UNCHANGED panics
     \/ /\ Best(cand[c]) = {}
        /\ currentWeights' = Raised(cand[c])
        /\ Panic(c) /\ panics' = panics + 1
        /\ NewRound

WRRReportResult(c) == Reported(c) /\ UNCHANGED <<currentWeights, historyVars>>

WRRUpdateBackendState(u, s) ==
  /\ StateUpdate(u, s)
  /\ UNCHANGED <<currentWeights, panics>>
  /\ NewRound

WRRClose == CloseCalls /\ UNCHANGED <<currentWeights, historyVars>>

WRRNext ==
  \/ \E c \in Caller :
       \/ WRREnter(c) \/ WRRCheckClosed(c)
       \/ WRRGetHealthyBackendIndices(c) \/ WRRGetFallbackBackendIndices(c)
       \/ WRRSelectSingle(c) \/ SelectByWeight(c) \/ WRRReportResult(c)
  \/ \E b \in Backend, s \in BackendStates : WRRUpdateBackendState(Url[b], s)
  \/ WRRClose

WRRSpec == WRRInit /\ [][WRRNext]_wrrVars
-----------------------------------------------------------------------------
\* No sum that the selection computes comes near the largest int32.
WeightsFit == \A b \in Backend : NumBackends * (NumBackends * weights[b]) <= MaxInt32

\* Nobody had credit or debts when the round began.
Fresh == began = NoneServed

\* What b lacks of its share of the round: selections, times the total weight.
Owed(b) ==
  LET S == Candidates(state)
  IN Selections(served) * weights[b] - served[b] * TotalWeight(S)

\* Backends are selected in proportion to their weights, through any losses and
\* recoveries of backends.  In an undisturbed round a usable backend has been selected
\* at most once more than its share and the credit it began with pay for; and what it
\* is owed, the credit included, is bounded by the number of backends.  Both hold
\* until a call panics, which raises weights that nobody then pays for, and again in a
\* round that begins from zero weights.
ProportionalShare ==
  \A b \in Candidates(state) :
    panics = 0 \/ Fresh =>
      /\ served[b] > 0 => Owed(b) + began[b] >= -TotalWeight(Candidates(state))
      /\ Owed(b) + began[b]
           <= (NumBackends - 1) * TotalWeight(IF Fresh THEN Candidates(state) ELSE Backend)

\* NextBackend keeps the promise of domain.LoadBalancer, but for calls that panic;
\* selectByWeight fails to find a backend only when those it is offered have run up
\* debts among others: never while all selections since the weights were zero were
\* from these same backends.
WRRImplementsLoadBalancer ==
  LB!Init /\ [][\/ LB!Next
                \/ PanicAside({c \in Caller : ~Fresh \/ cand[c] # Candidates(state)})]_(LB!vars)
=============================================================================
