-------------------------- MODULE LeastConnections --------------------------
(* loadbalancer.LeastConnectionsBalancer.                                    *)
EXTENDS BalancerCalls, FiniteSets

ASSUME CallersAssumption == IsFiniteSet(Caller)

VARIABLE activeConns   \* activeConns[b]: the counter of backend b

vars == <<callVars, activeConns>>

Init == CallsInit /\ activeConns = [b \in Backend |-> 0]

Enter(c) == CallNext(c) /\ UNCHANGED activeConns

CheckClosed(c) == ClosedCheck(c) /\ UNCHANGED activeConns

GetHealthyBackendIndices(c) == HealthyRead(c) /\ UNCHANGED activeConns

GetFallbackBackendIndices(c) == FallbackRead(c) /\ UNCHANGED activeConns

\* Mutant: the index is off by one.
LeastLoadedOffByOne(S) ==
  1 + CHOOSE b \in S : \A a \in S : activeConns[b] <= activeConns[a]

\* Mutant: the comparison is turned round.
MostLoaded(S) ==
  CHOOSE b \in S : \A a \in S : activeConns[b] >= activeConns[a]

\* The loop keeps the first index with the smallest counter.
LeastLoaded(S) ==
  CHOOSE b \in S : \A a \in S : \/ activeConns[b] < activeConns[a]
                                \/ activeConns[b] = activeConns[a] /\ b <= a

Select(c) ==
  /\ pc[c] = "pick"
  /\ Return(c, LeastLoaded(cand[c]))
  /\ activeConns' = [activeConns EXCEPT ![LeastLoaded(cand[c])] = @ + 1]

\* Mutant: the counter is not decremented.
ReportResultOnly(c) == Reported(c) /\ UNCHANGED activeConns

ReportResult(c) ==
  /\ Reported(c)
  /\ LET i == FirstWith(Url[got[c]])
     IN activeConns' = [activeConns EXCEPT ![i] = IF @ > 0 THEN @ - 1 ELSE @]

UpdateBackendState(u, s) == StateUpdate(u, s) /\ UNCHANGED activeConns

Close == CloseCalls /\ UNCHANGED activeConns

Next ==
  \/ \E c \in Caller :
       \/ Enter(c) \/ CheckClosed(c)
       \/ GetHealthyBackendIndices(c) \/ GetFallbackBackendIndices(c)
       \/ Select(c) \/ ReportResult(c)
  \/ \E b \in Backend, s \in BackendStates : UpdateBackendState(Url[b], s)
  \/ Close

Spec == Init /\ [][Next]_vars
-----------------------------------------------------------------------------
TypeOK == CallsTypeOK /\ activeConns \in [Backend -> Nat]

UrlsDistinct == \A a, b \in Backend : Url[a] = Url[b] => a = b

Holders(b) == {c \in Caller : got[c] = b}

\* ReportResult decrements what NextBackend incremented: at every moment the
\* counter of a backend is the number of callers that were given the backend
\* and have not reported back, so it never drifts and never goes negative.
ConnAccounting == \A b \in Backend : activeConns[b] = Cardinality(Holders(b))

\* NextBackend selects by the requests really outstanding: a step that gives
\* out a backend gives out one that, of all the backends the caller read as
\* usable, has the fewest callers holding it.
LeastOutstanding ==
  [][\A c \in Caller :
       pc[c] = "pick" /\ pc'[c] = "held" =>
         /\ got'[c] \in cand[c]
         /\ \A a \in cand[c] :
              Cardinality(Holders(got'[c])) <= Cardinality(Holders(a))]_vars

\* Every strategy's NextBackend keeps the promise of domain.LoadBalancer.
ImplementsLoadBalancer == LB!Spec
=============================================================================
