--------------------------- MODULE BalancerProofs ---------------------------
(* What the three balancers share: every step of a call, every state update  *)
(* and Close keep CallsInv and are steps of the LoadBalancer specification   *)
(* (or stutter).  A strategy has to add only that its selection returns one  *)
(* of the backends it read.                                                  *)
(*                                                                           *)
(* Then, for any number of backends and callers, the least-connections       *)
(* balancer: type correctness, the refinement of LoadBalancer, and, when no  *)
(* two backends share a URL, exact connection counts and with them a         *)
(* selection by the connections that are really open; the round-robin        *)
(* balancer: the refinement, but for a counter that has wrapped, and even    *)
(* turns; and the weighted balancer, when the sums of its weights fit into   *)
(* an int32: the refinement, but for lists with debts, and proportional      *)
(* shares.                                                                   *)
EXTENDS LeastConnections, RoundRobin, WeightedRoundRobin, FiniteSetTheorems,
        WellFoundedInduction, TLAPS

\* A loop that keeps the smallest of some numbers ends with one.
LEMMA LeastExists ==
  ASSUME NEW S, S \subseteq Nat, S # {}
  PROVE  \E m \in S : \A a \in S : m <= a
<1>1. PICK m \in S : \A a \in S : ~(<<a, m>> \in OpToRel(<, Nat))
  BY NatLessThanWellFounded, WFMin, Zenon
<1>2. ASSUME NEW a \in S PROVE m <= a
  <2>1. ~(a < m)
    BY <1>1, Zenon DEF OpToRel
  <2>2. QED
    BY <2>1
<1>3. QED
  BY <1>2, Zenon

\* The loops over the backend list find an entry for every configured URL.
LEMMA FirstWithIsBackend ==
  ASSUME NEW b \in Backend
  PROVE  FirstWith(Url[b]) \in Backend /\ Url[FirstWith(Url[b])] = Url[b]
<1>1. PICK m \in {a \in Backend : Url[a] = Url[b]} :
        \A a \in {d \in Backend : Url[d] = Url[b]} : m <= a
  <2>1. {a \in Backend : Url[a] = Url[b]} \subseteq Nat
    BY CallsAssumption DEF Backend
  <2>2. QED
    BY <2>1, LeastExists, Zenon
<1>2. QED
  BY <1>1, Zenon DEF FirstWith

\* A state function is at a level between 0 and 2.
LEMMA LevelType ==
  ASSUME NEW st PROVE Level(st) \in 0 .. 2
BY DEF Level

\* The minimum of two levels is one of them.
LEMMA LowerType ==
  ASSUME NEW m \in 0 .. 2, NEW n \in 0 .. 2
  PROVE  Lower(m, n) \in 0 .. 2 /\ Lower(m, n) <= m /\ Lower(m, n) <= n
BY DEF Lower

\* Every state function of the balancer offers only configured backends.
LEMMA OffersBackends ==
  ASSUME NEW st \in [Backend -> BackendStates]
  PROVE  /\ HealthyIn(st) \subseteq Backend /\ FallbackIn(st) \subseteq Backend
         /\ AvailableIn(st) = HealthyIn(st) \cup FallbackIn(st)
         /\ AvailableIn(st) \subseteq Backend
         /\ HealthyIn(st) = {} => Level(st) < 2
BY DEF AvailableIn, HealthyIn, FallbackIn, Level

\* The promise speaks of the same states and levels.
LEMMA SameStates ==
  /\ LB!BackendStates = BackendStates
  /\ \A st : LB!AvailableIn(st) = AvailableIn(st) /\ LB!Level(st) = Level(st)
  /\ \A m, n : LB!Lower(m, n) = Lower(m, n)
BY Zenon DEF BackendStates, LB!BackendStates, AvailableIn, LB!AvailableIn, Level,
   LB!Level,
       Lower, LB!Lower, HealthyIn, LB!HealthyIn, FallbackIn, LB!FallbackIn,
       IsAvailable, LB!IsAvailable, IsAvailableWithFallback, LB!IsAvailableWithFallback

\* The phase that callers see moves with the program counter ...
LEMMA PhaseStep ==
  ASSUME CallsTypeOK, NEW c \in Caller, NEW label, Goto(c, label)
  PROVE  Phase' = [Phase EXCEPT ![c] = IF label \in InCall THEN "open" ELSE label]
BY Zenon DEF CallsTypeOK, Goto, Phase

\* ... and not at all between the steps inside a call.
LEMMA PhaseKept ==
  ASSUME CallsTypeOK, NEW c \in Caller, NEW label \in InCall,
         pc[c] \in InCall, Goto(c, label)
  PROVE  Phase' = Phase
BY Zenon DEF CallsTypeOK, Goto, Phase

\* The balancers start in a state of the invariant.
LEMMA CallsInitInv == CallsInit => CallsInv
<1> SUFFICES ASSUME CallsInit PROVE CallsInv
  BY Zenon
<1>1. closed \in BOOLEAN
  BY Zenon DEF CallsInit
<1>2. CallsTypeOK
  BY <1>1 DEF CallsInit, CallsTypeOK, BackendStates
<1>3. QED
  BY <1>2, Zenon DEF CallsInit, CallsInv, InCall

\* Making a call keeps the invariant and, unless the last one of this caller
\* panicked, is a Call of the promise.
LEMMA CallNextStep ==
  ASSUME CallsInv, NEW c \in Caller, CallNext(c)
  PROVE  CallsInv' /\ (pc[c] # "panicked" => LB!Call(c))
<1>1. closed' \in BOOLEAN
  BY Zenon DEF CallNext, CallsInv, CallsTypeOK
<1>2. AvailableIn(state) \subseteq Backend
  BY OffersBackends, Zenon DEF CallsInv, CallsTypeOK
<1>3. CallsTypeOK'
  BY <1>1, <1>2, LevelType DEF CallNext, CallsInv, CallsTypeOK, Goto, InCall
<1>4. CallsInv'
  BY <1>3, LevelType DEF CallNext, CallsInv, CallsTypeOK, Goto, InCall, NoBackend
<1>5. ASSUME pc[c] # "panicked"
      PROVE  Phase' = [Phase EXCEPT ![c] = "open"] /\ Phase[c] \in {"idle", "failed"}
  <2>1. pc[c] \in {"idle", "failed"} /\ Goto(c, "called")
    BY <1>5, Zenon DEF CallNext
  <2>2. QED
    BY <2>1, PhaseStep, Zenon DEF CallsInv, Phase, InCall
<1>6. ASSUME pc[c] # "panicked" PROVE LB!Call(c)
  BY <1>5, <1>6, SameStates, Zenon DEF CallNext, LB!Call
<1>7. QED
  BY <1>4, <1>6, Zenon

\* The check of closed stutters, or fails a call that saw the closed balancer.
LEMMA ClosedCheckStep ==
  ASSUME CallsInv, NEW c \in Caller, ClosedCheck(c)
  PROVE  CallsInv' /\ (LB!Fail(c) \/ UNCHANGED LB!vars)
<1>1. closed' \in BOOLEAN
  BY Zenon DEF ClosedCheck, EndCall, CallsInv, CallsTypeOK
<1>2. CallsTypeOK'
  BY <1>1 DEF ClosedCheck, EndCall, CallsInv, CallsTypeOK, Goto, InCall
<1>3. CallsInv'
  BY <1>2 DEF ClosedCheck, EndCall, CallsInv, CallsTypeOK, Goto, InCall, NoBackend
<1>4. LB!Fail(c) \/ UNCHANGED LB!vars
  <2>1. pc[c] = "called" /\ Phase[c] = "open"
    BY Zenon DEF ClosedCheck, Phase, InCall
  <2>2. CASE closed
    <3>1. Phase' = [Phase EXCEPT ![c] = "failed"]
      BY <2>2, PhaseStep, Zenon DEF ClosedCheck, EndCall, CallsInv, InCall
    <3>2. low[c] < 2
      BY <2>1, <2>2 DEF CallsInv, InCall
    <3>3. QED
      BY <2>1, <2>2, <3>1, <3>2, Zenon DEF ClosedCheck, EndCall, CallsInv, CallsTypeOK,
         LB!Fail
  <2>3. CASE ~closed
    <3>1. Phase' = Phase
      BY <2>1, <2>3, PhaseKept, Zenon DEF ClosedCheck, CallsInv, InCall
    <3>2. QED
      BY <2>3, <3>1, Zenon DEF ClosedCheck, LB!vars
  <2>4. QED
    BY <2>2, <2>3, Zenon
<1>5. QED
  BY <1>3, <1>4, Zenon

\* Reading the healthy backends stutters: the call stays open.
LEMMA HealthyReadStep ==
  ASSUME CallsInv, NEW c \in Caller, HealthyRead(c)
  PROVE  CallsInv' /\ UNCHANGED LB!vars
<1>1. closed' \in BOOLEAN
  BY Zenon DEF HealthyRead, CallsInv, CallsTypeOK
<1>2. /\ HealthyIn(state) \subseteq Backend
      /\ HealthyIn(state) \subseteq AvailableIn(state)
      /\ HealthyIn(state) = {} => Level(state) < 2
  BY OffersBackends, Zenon DEF CallsInv, CallsTypeOK
<1>3. CallsTypeOK'
  BY <1>1, <1>2, Zenon DEF HealthyRead, CallsInv, CallsTypeOK, Goto, InCall
<1>4. CallsInv'
  BY <1>2, <1>3, LevelType
     DEF HealthyRead, CallsInv, CallsTypeOK, Goto, InCall, NoBackend
<1>5. UNCHANGED LB!vars
  <2>1. Phase' = Phase
    BY PhaseKept, Zenon DEF HealthyRead, CallsInv, InCall
  <2>2. QED
    BY <2>1, Zenon DEF HealthyRead, LB!vars
<1>6. QED
  BY <1>4, <1>5, Zenon

\* Reading the rate-limited backends stutters, or fails a call that had a
\* moment without a healthy backend.
LEMMA FallbackReadStep ==
  ASSUME CallsInv, NEW c \in Caller, FallbackRead(c)
  PROVE  CallsInv' /\ (LB!Fail(c) \/ UNCHANGED LB!vars)
<1>1. closed' \in BOOLEAN
  BY Zenon DEF FallbackRead, EndCall, CallsInv, CallsTypeOK
<1>2. /\ FallbackIn(state) \subseteq Backend
      /\ FallbackIn(state) \subseteq AvailableIn(state)
  BY OffersBackends, Zenon DEF CallsInv, CallsTypeOK
<1>3. CallsTypeOK'
  BY <1>1, <1>2 DEF FallbackRead, EndCall, CallsInv, CallsTypeOK, Goto, InCall
<1>4. CallsInv'
  BY <1>2, <1>3 DEF FallbackRead, EndCall, CallsInv, CallsTypeOK, Goto, InCall, NoBackend
<1>5. pc[c] = "fallback" /\ Phase[c] = "open" /\ low[c] < 2
  BY Zenon DEF FallbackRead, CallsInv, Phase, InCall
<1>6. CASE FallbackIn(state) = {}
  <2>1. Phase' = [Phase EXCEPT ![c] = "failed"]
    BY <1>6, PhaseStep, Zenon DEF FallbackRead, EndCall, CallsInv, InCall
  <2>2. LB!Fail(c)
    BY <1>5, <1>6, <2>1, Zenon DEF FallbackRead, EndCall, CallsInv, CallsTypeOK, LB!Fail
  <2>3. QED
    BY <1>4, <2>2, Zenon
<1>7. CASE FallbackIn(state) # {}
  <2>1. Phase' = Phase
    BY <1>5, <1>7, PhaseKept, Zenon DEF FallbackRead, CallsInv, InCall
  <2>2. QED
    BY <1>4, <1>7, <2>1, Zenon DEF FallbackRead, LB!vars
<1>8. QED
  BY <1>6, <1>7, Zenon

\* Returning one of the backends that were read is an Answer of the promise.
LEMMA ReturnStep ==
  ASSUME CallsInv, NEW c \in Caller, pc[c] = "pick",
         NEW b \in cand[c], Return(c, b)
  PROVE  CallsInv' /\ LB!Answer(c)
<1>1. closed' \in BOOLEAN
  BY Zenon DEF Return, EndCall, CallsInv, CallsTypeOK
<1>2. b \in avail[c] /\ b \in Backend /\ b # NoBackend
  BY DEF CallsInv, CallsTypeOK, Backend, NoBackend
<1>3. CallsTypeOK'
  BY <1>1, <1>2 DEF Return, EndCall, CallsInv, CallsTypeOK, Goto, InCall
<1>4. CallsInv'
  BY <1>2, <1>3, Zenon DEF Return, EndCall, CallsInv, CallsTypeOK, Goto, InCall
<1>5. Phase[c] = "open" /\ Phase' = [Phase EXCEPT ![c] = "held"]
  BY PhaseStep, Zenon DEF Return, EndCall, CallsInv, Phase, InCall
<1>6. LB!Answer(c)
  BY <1>2, <1>5, Zenon DEF Return, EndCall, LB!Answer
<1>7. QED
  BY <1>4, <1>6, Zenon

\* ReportResult gives the backend back.
LEMMA ReportedStep ==
  ASSUME CallsInv, NEW c \in Caller, Reported(c)
  PROVE  CallsInv' /\ LB!Report(c)
<1>1. closed' \in BOOLEAN
  BY Zenon DEF Reported, CallsInv, CallsTypeOK
<1>2. CallsTypeOK'
  BY <1>1, Zenon DEF Reported, CallsInv, CallsTypeOK, Goto, InCall
<1>3. CallsInv'
  BY <1>2, Zenon DEF Reported, CallsInv, CallsTypeOK, Goto, InCall
<1>4. Phase[c] = "held" /\ Phase' = [Phase EXCEPT ![c] = "idle"]
  BY PhaseStep, Zenon DEF Reported, CallsInv, Phase, InCall
<1>5. LB!Report(c)
  BY <1>4, Zenon DEF Reported, LB!Report
<1>6. QED
  BY <1>3, <1>5, Zenon

\* UpdateBackendState changes one entry and the history of the open calls.
LEMMA StateUpdateStep ==
  ASSUME CallsInv, NEW b \in Backend, NEW s \in BackendStates, StateUpdate(Url[b], s)
  PROVE  CallsInv' /\ LB!UpdateState(FirstWith(Url[b]), s)
<1> DEFINE i == FirstWith(Url[b])
<1>1. i \in Backend
  BY FirstWithIsBackend, Zenon
<1> HIDE DEF i
<1>2. closed' \in BOOLEAN
  BY Zenon DEF StateUpdate, CallsInv, CallsTypeOK
<1>3. state' \in [Backend -> BackendStates]
  BY <1>1, Zenon DEF StateUpdate, CallsInv, CallsTypeOK, i
<1>4. AvailableIn(state') \subseteq Backend /\ Level(state') \in 0 .. 2
  BY <1>3, OffersBackends, LevelType, Zenon
<1>5. /\ avail' \in [Caller -> SUBSET Backend]
      /\ \A c \in Caller : pc[c] \in InCall =>
           avail'[c] = avail[c] \cup AvailableIn(state')
  BY <1>4, Zenon DEF StateUpdate, CallsInv, CallsTypeOK
<1>6. /\ low' \in [Caller -> 0 .. 2]
      /\ \A c \in Caller : pc[c] \in InCall =>
           low'[c] <= low[c] /\ low'[c] <= Level(state')
  BY <1>4, LowerType, Zenon DEF StateUpdate, CallsInv, CallsTypeOK
<1>7. CallsTypeOK'
  BY <1>2, <1>3, <1>5, <1>6, Zenon DEF StateUpdate, CallsInv, CallsTypeOK
<1>8. CallsInv'
  <2>1. UNCHANGED <<closed, pc, cand, got>>
    BY Zenon DEF StateUpdate
  <2>2. ASSUME NEW c \in Caller
        PROVE  /\ got'[c] # NoBackend <=> pc'[c] = "held"
               /\ pc'[c] = "pick" => cand'[c] # {} /\ cand'[c] \subseteq avail'[c]
    BY <1>5, <2>1, Zenon DEF CallsInv, InCall
  <2>3. ASSUME NEW c \in Caller, pc'[c] \in InCall
        PROVE  /\ AvailableIn(state') \subseteq avail'[c]
               /\ low'[c] <= Level(state')
               /\ closed' => low'[c] = 0
    BY <1>4, <1>5, <1>6, <2>1, <2>3 DEF CallsInv, CallsTypeOK
  <2>4. ASSUME NEW c \in Caller, pc'[c] = "fallback" PROVE low'[c] < 2
    BY <1>6, <2>1, <2>4 DEF CallsInv, CallsTypeOK, InCall
  <2>5. QED
    BY <1>7, <2>2, <2>3, <2>4, Zenon DEF CallsInv
<1>9. \A c \in Caller : Phase[c] = "open" <=> pc[c] \in InCall
  BY Zenon DEF Phase, InCall, CallsInv, CallsTypeOK
<1>10. Phase' = Phase
  BY Zenon DEF StateUpdate, Phase
<1>11. LB!UpdateState(FirstWith(Url[b]), s)
  BY <1>9, <1>10, SameStates, Zenon DEF StateUpdate, LB!UpdateState
<1>12. QED
  BY <1>8, <1>11, Zenon

\* Close lets every open call fail.
LEMMA CloseCallsStep ==
  ASSUME CallsInv, CloseCalls
  PROVE  CallsInv' /\ LB!Close
<1>1. closed' \in BOOLEAN
  BY Zenon DEF CloseCalls
<1>2. CallsTypeOK'
  BY <1>1 DEF CloseCalls, CallsInv, CallsTypeOK
<1>3. CallsInv'
  BY <1>2, LevelType DEF CloseCalls, CallsInv, CallsTypeOK, InCall
<1>4. \A c \in Caller : Phase[c] = "open" <=> pc[c] \in InCall
  BY Zenon DEF Phase, InCall, CallsInv, CallsTypeOK
<1>5. Phase' = Phase
  BY Zenon DEF CloseCalls, Phase
<1>6. LB!Close
  BY <1>4, <1>5, Zenon DEF CloseCalls, LB!Close
<1>7. QED
  BY <1>3, <1>6, Zenon

NoPanic == \A c \in Caller : pc[c] # "panicked"

\* Only a selection can panic: checking closed, reading the lists, returning
\* and reporting cannot.
LEMMA NoPanicKept ==
  ASSUME CallsTypeOK, NoPanic,
         \/ \E c \in Caller : \/ CallNext(c) \/ ClosedCheck(c) \/ HealthyRead(c)
                             \/ FallbackRead(c) \/ Reported(c)
                             \/ \E b : Return(c, b)
         \/ UNCHANGED pc
  PROVE  NoPanic'
<1>1. CASE UNCHANGED pc
  BY <1>1, Zenon DEF NoPanic
<1>2. ASSUME NEW c \in Caller, NEW label, label # "panicked", Goto(c, label)
      PROVE  NoPanic'
  BY <1>2, Zenon DEF NoPanic, Goto, CallsTypeOK
<1>3. QED
  BY <1>1, <1>2, Zenon DEF CallNext, ClosedCheck, HealthyRead, FallbackRead, Reported,
     Return, EndCall

\* A step that changes nothing keeps the invariant and stutters.
LEMMA CallsStutter ==
  ASSUME CallsInv, UNCHANGED callVars
  PROVE  CallsInv' /\ UNCHANGED LB!vars
<1>1. CallsInv'
  BY Zenon DEF CallsInv, CallsTypeOK, callVars
<1>2. UNCHANGED LB!vars
  BY Zenon DEF callVars, LB!vars, Phase
<1>3. QED
  BY <1>1, <1>2, Zenon
-----------------------------------------------------------------------------
\* The selection loop ends with one of the backends it went through, and none
\* of them has a smaller counter.
LEMMA LeastLoadedIsLeast ==
  ASSUME activeConns \in [Backend -> Nat], NEW S \in SUBSET Backend, S # {}
  PROVE  /\ LeastLoaded(S) \in S
         /\ \A a \in S : activeConns[LeastLoaded(S)] <= activeConns[a]
<1>1. S \subseteq Nat
  BY CallsAssumption DEF Backend
<1>2. PICK v \in {activeConns[a] : a \in S} : \A w \in {activeConns[a] : a \in S} : v <= w
  <2>1. {activeConns[a] : a \in S} \subseteq Nat /\ {activeConns[a] : a \in S} # {}
    BY Zenon
  <2>2. QED
    BY <2>1, LeastExists, Zenon
<1>3. PICK m \in {a \in S : activeConns[a] = v} :
        \A a \in {d \in S : activeConns[d] = v} : m <= a
  <2>1. {a \in S : activeConns[a] = v} \subseteq Nat /\ {a \in S : activeConns[a] = v} # {}
    BY <1>1, <1>2, Zenon
  <2>2. QED
    BY <2>1, LeastExists, Zenon
<1>4. \A a \in S : \/ activeConns[m] < activeConns[a]
                   \/ activeConns[m] = activeConns[a] /\ m <= a
  BY <1>1, <1>2, <1>3
<1>5. \E b \in S : \A a \in S : \/ activeConns[b] < activeConns[a]
                                \/ activeConns[b] = activeConns[a] /\ b <= a
  BY <1>3, <1>4, Zenon
<1>6. /\ LeastLoaded(S) \in S
      /\ \A a \in S : \/ activeConns[LeastLoaded(S)] < activeConns[a]
                      \/ activeConns[LeastLoaded(S)] = activeConns[a] /\ LeastLoaded(S) <= a
  BY <1>5, Zenon DEF LeastLoaded
<1>7. QED
  BY <1>6

\* The inductive invariant.
Inv == CallsInv /\ NoPanic /\ activeConns \in [Backend -> Nat]

\* The least-connections balancer starts in a state of the invariant.
LEMMA InitInv == Init => Inv
BY CallsInitInv DEF Init, CallsInit, Inv, NoPanic

\* What a caller reports back is a configured backend.
LEMMA ReportedBackend ==
  ASSUME CallsInv, NEW c \in Caller, pc[c] = "held"
  PROVE  /\ got[c] \in Backend
         /\ FirstWith(Url[got[c]]) \in Backend
         /\ UrlsDistinct => FirstWith(Url[got[c]]) = got[c]
<1>1. got[c] \in Backend
  BY Zenon DEF CallsInv, CallsTypeOK
<1>2. QED
  BY <1>1, FirstWithIsBackend, Zenon DEF UrlsDistinct

\* Every step keeps the invariant and is a step of the promise, or stutters.
LEMMA StepInv ==
  ASSUME Inv, [Next]_vars
  PROVE  Inv' /\ [LB!Next]_(LB!vars)
<1>1. ASSUME NEW c \in Caller, Enter(c) PROVE Inv' /\ LB!Next
  BY <1>1, CallNextStep, NoPanicKept, Zenon DEF Inv, Enter, LB!Next, NoPanic, CallsInv
<1>2. ASSUME NEW c \in Caller, CheckClosed(c) PROVE Inv' /\ (LB!Next \/ UNCHANGED LB!vars)
  BY <1>2, ClosedCheckStep, NoPanicKept, Zenon DEF Inv, CheckClosed, LB!Next, CallsInv
<1>3. ASSUME NEW c \in Caller, GetHealthyBackendIndices(c)
      PROVE  Inv' /\ UNCHANGED LB!vars
  BY <1>3, HealthyReadStep, NoPanicKept, Zenon DEF Inv, GetHealthyBackendIndices, CallsInv
<1>4. ASSUME NEW c \in Caller, GetFallbackBackendIndices(c)
      PROVE  Inv' /\ (LB!Next \/ UNCHANGED LB!vars)
  BY <1>4, FallbackReadStep, NoPanicKept, Zenon
     DEF Inv, GetFallbackBackendIndices, LB!Next, CallsInv
<1>5. ASSUME NEW c \in Caller, Select(c) PROVE Inv' /\ LB!Next
  <2>1. cand[c] \in SUBSET Backend /\ cand[c] # {}
    BY <1>5, Zenon DEF Inv, CallsInv, CallsTypeOK, Select
  <2>2. LeastLoaded(cand[c]) \in cand[c]
    BY <2>1, LeastLoadedIsLeast, Zenon DEF Inv
  <2>3. CallsInv' /\ LB!Answer(c)
    BY <1>5, <2>2, ReturnStep, Zenon DEF Inv, Select
  <2>4. activeConns' \in [Backend -> Nat]
    BY <1>5, <2>1, <2>2 DEF Inv, Select
  <2>5. QED
    BY <1>5, <2>3, <2>4, NoPanicKept, Zenon DEF Inv, LB!Next, Select, CallsInv
<1>6. ASSUME NEW c \in Caller, ReportResult(c) PROVE Inv' /\ LB!Next
  <2>1. PICK i \in Backend :
          activeConns' = [activeConns EXCEPT ![i] = IF @ > 0 THEN @ - 1 ELSE @]
    BY <1>6, ReportedBackend, Zenon DEF Inv, ReportResult, Reported
  <2>2. activeConns' \in [Backend -> Nat]
    BY <2>1 DEF Inv
  <2>3. QED
    BY <1>6, <2>2, ReportedStep, NoPanicKept, Zenon DEF Inv, ReportResult, LB!Next,
       CallsInv
<1>7. ASSUME NEW b \in Backend, NEW s \in BackendStates, UpdateBackendState(Url[b], s)
      PROVE  Inv' /\ LB!Next
  <2>1. NoPanic'
    BY <1>7, NoPanicKept, Zenon DEF Inv, UpdateBackendState, StateUpdate, CallsInv
  <2>2. QED
    BY <1>7, <2>1, StateUpdateStep, FirstWithIsBackend, SameStates, Zenon
       DEF Inv, UpdateBackendState, LB!Next
<1>8. ASSUME Close PROVE Inv' /\ LB!Next
  <2>1. NoPanic'
    BY <1>8, NoPanicKept, Zenon DEF Inv, Close, CloseCalls, CallsInv
  <2>2. QED
    BY <1>8, <2>1, CloseCallsStep, Zenon DEF Inv, Close, LB!Next
<1>9. ASSUME UNCHANGED vars PROVE Inv' /\ UNCHANGED LB!vars
  <2>1. UNCHANGED callVars /\ UNCHANGED pc
    BY <1>9, Zenon DEF vars, callVars
  <2>2. QED
    BY <1>9, <2>1, CallsStutter, NoPanicKept, Zenon DEF Inv, vars, CallsInv
<1>10. QED
  BY <1>1, <1>2, <1>3, <1>4, <1>5, <1>6, <1>7, <1>8, <1>9, Zenon DEF Next

\* All variables keep their types, for any number of backends and callers.
THEOREM TypeCorrect == Spec => []TypeOK
<1>1. Inv => TypeOK
  BY Zenon DEF Inv, CallsInv, TypeOK
<1>2. QED
  BY <1>1, InitInv, StepInv, PTL DEF Spec

\* NextBackend of the least-connections balancer gives out only backends that
\* were available during the call, fails only after a moment without a healthy
\* backend or after Close, and never panics.
THEOREM Refinement == Spec => ImplementsLoadBalancer
<1>1. Init => LB!Init
  BY Zenon DEF Init, CallsInit, LB!Init, Phase, InCall
<1>2. QED
  BY <1>1, InitInv, StepInv, PTL DEF Spec, ImplementsLoadBalancer, LB!Spec

\* The callers that hold a backend are finitely many.
LEMMA HoldersFinite ==
  \A b : IsFiniteSet(Holders(b)) /\ Cardinality(Holders(b)) \in Nat
<1> SUFFICES ASSUME NEW b
             PROVE  IsFiniteSet(Holders(b)) /\ Cardinality(Holders(b)) \in Nat
  BY Zenon
<1>1. Holders(b) \in SUBSET Caller
  BY Zenon DEF Holders
<1>2. QED
  BY <1>1, CallersAssumption, FS_Subset, FS_CardinalityType, Zenon

\* When a caller gets a backend, its holders become one more and nobody else's
\* change.
LEMMA HoldersGrow ==
  ASSUME got \in [Caller -> Backend \cup {NoBackend}],
         NEW c \in Caller, got[c] = NoBackend,
         NEW b \in Backend, got' = [got EXCEPT ![c] = b]
  PROVE  /\ Cardinality(Holders(b)') = Cardinality(Holders(b)) + 1
         /\ \A a \in Backend : a # b => Holders(a)' = Holders(a)
<1>1. NoBackend \notin Backend
  BY DEF NoBackend, Backend
<1>2. Holders(b)' = Holders(b) \cup {c} /\ c \notin Holders(b)
  BY <1>1, Zenon DEF Holders
<1>3. \A a \in Backend : a # b => Holders(a)' = Holders(a)
  BY <1>1, Zenon DEF Holders
<1>4. IsFiniteSet(Holders(b))
  BY HoldersFinite, Zenon
<1>5. Cardinality(Holders(b) \cup {c}) = Cardinality(Holders(b)) + 1
  BY <1>2, <1>4, FS_AddElement, Zenon
<1>6. QED
  BY <1>2, <1>3, <1>5, Zenon

\* When a caller reports back, they become one less.
LEMMA HoldersShrink ==
  ASSUME got \in [Caller -> Backend \cup {NoBackend}],
         NEW c \in Caller, NEW b \in Backend, got[c] = b,
         got' = [got EXCEPT ![c] = NoBackend]
  PROVE  /\ Cardinality(Holders(b)') = Cardinality(Holders(b)) - 1
         /\ \A a \in Backend : a # b => Holders(a)' = Holders(a)
<1>1. NoBackend \notin Backend
  BY DEF NoBackend, Backend
<1>2. Holders(b)' = Holders(b) \ {c} /\ c \in Holders(b)
  BY <1>1, Zenon DEF Holders
<1>3. \A a \in Backend : a # b => Holders(a)' = Holders(a)
  BY <1>1, Zenon DEF Holders
<1>4. IsFiniteSet(Holders(b))
  BY HoldersFinite, Zenon
<1>5. Cardinality(Holders(b) \ {c}) = Cardinality(Holders(b)) - 1
  BY <1>2, <1>4, FS_RemoveElement, Zenon
<1>6. QED
  BY <1>2, <1>3, <1>5, Zenon

\* Every step keeps the counters equal to the open connections.
LEMMA AccountingStep ==
  ASSUME UrlsDistinct, Inv, ConnAccounting, [Next]_vars
  PROVE  ConnAccounting'
<1>1. ASSUME UNCHANGED <<got, activeConns>> PROVE ConnAccounting'
  BY <1>1, Zenon DEF ConnAccounting, Holders
<1>2. ASSUME NEW c \in Caller, Select(c) PROVE ConnAccounting'
  <2>1. LeastLoaded(cand[c]) \in Backend
    BY <1>2, LeastLoadedIsLeast, Zenon DEF Inv, CallsInv, CallsTypeOK, Select
  <2>2. PICK b \in Backend :
             /\ got' = [got EXCEPT ![c] = b]
             /\ activeConns' = [activeConns EXCEPT ![b] = @ + 1]
    BY <1>2, <2>1, Zenon DEF Select, Return
  <2>3. got \in [Caller -> Backend \cup {NoBackend}] /\ got[c] = NoBackend
    BY <1>2, Zenon DEF Inv, CallsInv, CallsTypeOK, Select
  <2>4. /\ Cardinality(Holders(b)') = Cardinality(Holders(b)) + 1
        /\ \A a \in Backend : a # b => Holders(a)' = Holders(a)
    BY <2>2, <2>3, HoldersGrow, Zenon
  <2>5. QED
    BY <2>2, <2>4, Zenon DEF ConnAccounting, Inv
<1>3. ASSUME NEW c \in Caller, ReportResult(c) PROVE ConnAccounting'
  <2>1. PICK b \in Backend : b = got[c] /\ FirstWith(Url[b]) = b
    BY <1>3, ReportedBackend, Zenon DEF Inv, ReportResult, Reported
  <2>2. /\ got' = [got EXCEPT ![c] = NoBackend]
        /\ activeConns' = [activeConns EXCEPT ![b] = IF @ > 0 THEN @ - 1 ELSE @]
    BY <1>3, <2>1, Zenon DEF ReportResult, Reported
  <2>3. got \in [Caller -> Backend \cup {NoBackend}]
    BY Zenon DEF Inv, CallsInv, CallsTypeOK
  <2>4. /\ Cardinality(Holders(b)') = Cardinality(Holders(b)) - 1
        /\ \A a \in Backend : a # b => Holders(a)' = Holders(a)
    BY <2>1, <2>2, <2>3, HoldersShrink, Zenon
  <2>5. activeConns[b] > 0
    <3>1. c \in Holders(b)
      BY <2>1, Zenon DEF Holders
    <3>2. Cardinality(Holders(b)) # 0 /\ Cardinality(Holders(b)) \in Nat
      BY <3>1, HoldersFinite, FS_EmptySet, Zenon
    <3>3. QED
      BY <3>2 DEF ConnAccounting
  <2>6. QED
    BY <2>1, <2>2, <2>4, <2>5, Zenon DEF ConnAccounting, Inv
<1>4. ASSUME NEW c \in Caller,
             \/ Enter(c) \/ CheckClosed(c)
             \/ GetHealthyBackendIndices(c) \/ GetFallbackBackendIndices(c)
      PROVE  ConnAccounting'
  BY <1>1, <1>4, Zenon DEF Enter, CheckClosed, GetHealthyBackendIndices,
                    GetFallbackBackendIndices, CallNext, ClosedCheck, HealthyRead, FallbackRead
<1>5. ASSUME NEW b \in Backend, NEW s \in BackendStates, UpdateBackendState(Url[b], s)
      PROVE  ConnAccounting'
  BY <1>1, <1>5, Zenon DEF UpdateBackendState, StateUpdate
<1>6. ASSUME Close PROVE ConnAccounting'
  BY <1>1, <1>6, Zenon DEF Close, CloseCalls
<1>7. ASSUME UNCHANGED vars PROVE ConnAccounting'
  BY <1>1, <1>7, Zenon DEF vars, callVars
<1>8. QED
  BY <1>2, <1>3, <1>4, <1>5, <1>6, <1>7, Zenon DEF Next

\* With distinct URLs the counters never drift from the open connections,
\* whatever the interleaving of callers, state changes and Close.
THEOREM Accounting ==
  ASSUME UrlsDistinct PROVE Spec => []ConnAccounting
<1>1. Init => ConnAccounting
  <2> SUFFICES ASSUME Init, NEW b \in Backend
               PROVE  activeConns[b] = Cardinality(Holders(b))
    BY Zenon DEF ConnAccounting
  <2>1. Holders(b) = {}
    BY DEF Init, CallsInit, Holders, NoBackend, Backend
  <2>2. QED
    BY <2>1, FS_EmptySet, Zenon DEF Init
<1>2. Inv /\ ConnAccounting /\ [Next]_vars => ConnAccounting'
  BY AccountingStep, Zenon
<1>3. QED
  BY <1>1, <1>2, InitInv, StepInv, PTL DEF Spec

\* With distinct URLs NextBackend really selects by the connections that are
\* open: the backend it returns has, of those the caller read as usable, the
\* fewest callers holding it.
THEOREM Selection ==
  ASSUME UrlsDistinct PROVE Spec => LeastOutstanding
<1> DEFINE A == \A c \in Caller :
                  pc[c] = "pick" /\ pc'[c] = "held" =>
                    /\ got'[c] \in cand[c]
                    /\ \A a \in cand[c] :
                         Cardinality(Holders(got'[c])) <= Cardinality(Holders(a))
<1>1. ASSUME Inv, ConnAccounting, Next, NEW c \in Caller, pc[c] = "pick", pc'[c] = "held"
      PROVE  Select(c)
  <2>1. c \in DOMAIN pc
    BY <1>1, Zenon DEF Inv, CallsInv, CallsTypeOK
  <2>2. ASSUME NEW d \in Caller,
               \/ Enter(d) \/ CheckClosed(d)
               \/ GetHealthyBackendIndices(d) \/ GetFallbackBackendIndices(d)
        PROVE  pc'[c] # "held"
    BY <1>1, <2>1, <2>2, Zenon DEF Enter, CheckClosed, GetHealthyBackendIndices,
       GetFallbackBackendIndices, CallNext, ClosedCheck, HealthyRead, FallbackRead, EndCall, Goto
  <2>3. ASSUME NEW d \in Caller, ReportResult(d) PROVE pc'[c] # "held"
    BY <1>1, <2>1, <2>3, Zenon DEF ReportResult, Reported, Goto
  <2>4. ASSUME NEW d \in Caller, Select(d), d # c PROVE pc'[c] # "held"
    BY <1>1, <2>1, <2>4, Zenon DEF Select, Return, EndCall, Goto
  <2>5. ASSUME NEW b \in Backend, NEW s \in BackendStates, UpdateBackendState(Url[b], s)
        PROVE  pc'[c] # "held"
    BY <1>1, <2>5, Zenon DEF UpdateBackendState, StateUpdate
  <2>6. ASSUME Close PROVE pc'[c] # "held"
    BY <1>1, <2>6, Zenon DEF Close, CloseCalls
  <2>7. QED
    BY <1>1, <2>2, <2>3, <2>4, <2>5, <2>6, Zenon DEF Next
<1>2. ASSUME Inv, ConnAccounting, NEW c \in Caller, Select(c)
      PROVE  /\ got'[c] \in cand[c]
             /\ \A a \in cand[c] :
                  Cardinality(Holders(got'[c])) <= Cardinality(Holders(a))
  <2>1. cand[c] \in SUBSET Backend /\ cand[c] # {}
    BY <1>2, Zenon DEF Inv, CallsInv, CallsTypeOK, Select
  <2>2. /\ LeastLoaded(cand[c]) \in cand[c]
        /\ \A a \in cand[c] : activeConns[LeastLoaded(cand[c])] <= activeConns[a]
    BY <1>2, <2>1, LeastLoadedIsLeast, Zenon DEF Inv
  <2>3. got'[c] = LeastLoaded(cand[c])
    BY <1>2, Zenon DEF Select, Return, Inv, CallsInv, CallsTypeOK
  <2>4. QED
    BY <1>2, <2>1, <2>2, <2>3, Zenon DEF ConnAccounting
<1>3. Inv /\ ConnAccounting /\ [Next]_vars => [A]_vars
  BY <1>1, <1>2, Zenon
<1>4. Spec => []Inv
  BY InitInv, StepInv, PTL DEF Spec
<1>5. Spec => []ConnAccounting
  BY Accounting, Zenon
<1>6. QED
  BY <1>3, <1>4, <1>5, PTL DEF Spec, LeastOutstanding
-----------------------------------------------------------------------------
\* How % behaves on the counter: the remainder is an index of the list, and the
\* next value of the counter has the next index, cyclically.
LEMMA Remainders ==
  ASSUME NEW n \in Nat, n > 0, NEW a \in Nat
  PROVE  /\ a % n \in 0 .. n - 1
         /\ (a + 1) % n = IF a % n = n - 1 THEN 0 ELSE (a % n) + 1
<1>1. a % n \in 0 .. n - 1 /\ a = n * (a \div n) + (a % n) /\ a \div n \in Int
  OBVIOUS
<1>2. /\ (a + 1) % n \in 0 .. n - 1 /\ a + 1 = n * ((a + 1) \div n) + ((a + 1) % n)
      /\ (a + 1) \div n \in Int
  OBVIOUS
<1>3. ASSUME NEW q \in Int, NEW r \in 0 .. n - 1, NEW p \in Int, NEW s \in 0 .. n - 1,
             n * q + r = n * p + s
      PROVE  r = s
  <2>1. n * (q - p) = s - r
    BY <1>3
  <2>2. ~(q - p >= 1) 
    BY <2>1
  <2>3. ~(q - p <= -1) 
    BY <2>1
  <2>4. QED
    BY <1>3, <2>2, <2>3
<1>4. CASE a % n = n - 1
  <2>1. a + 1 = n * (a \div n + 1) + 0
    BY <1>1, <1>4
  <2>2. 0 \in 0 .. n - 1 /\ a \div n + 1 \in Int
    BY <1>1
  <2>3. n * (a \div n + 1) + 0 = n * ((a + 1) \div n) + ((a + 1) % n)
    BY <1>2, <2>1, Zenon
  <2>4. 0 = (a + 1) % n
    BY <1>2, <1>3, <2>2, <2>3, Zenon
  <2>5. QED
    BY <1>1, <1>4, <2>4, Zenon
<1>5. CASE a % n # n - 1
  <2>1. a + 1 = n * (a \div n) + ((a % n) + 1) /\ (a % n) + 1 \in 0 .. n - 1
    BY <1>1, <1>5
  <2>2. QED
    BY <1>1, <1>2, <1>3, <1>5, <2>1, Zenon
<1>6. QED
  BY <1>4, <1>5, Zenon

\* Rem is an index of the list unless it is negative, and it is negative only
\* for a counter that is.
LEMMA RemIndex ==
  ASSUME NEW n \in Nat, n > 0, NEW a \in Int
  PROVE  /\ Rem(a, n) >= 0 => Rem(a, n) \in 0 .. n - 1
         /\ a >= 0 => Rem(a, n) = a % n /\ a % n \in 0 .. n - 1
         /\ Rem(a, n) < 0 => a < 0
         /\ Rem(a, n) \in Int
<1>1. CASE a >= 0
  BY <1>1 DEF Rem
<1>2. CASE a < 0
  <2>1. (-a) % n \in 0 .. n - 1
    BY <1>2
  <2>2. QED
    BY <1>2, <2>1 DEF Rem
<1>3. QED
  BY <1>1, <1>2

\* The place of a backend in the list S is the number of those before it.
Below(S, b) == {a \in S : a < b}

Rank(S, b) == Cardinality(Below(S, b))

\* A list of backends is finite, and so is the part before a backend.
LEMMA ListsFinite ==
  ASSUME NEW S \in SUBSET Backend
  PROVE  /\ IsFiniteSet(S) /\ Cardinality(S) \in Nat
         /\ \A b : IsFiniteSet(Below(S, b)) /\ Rank(S, b) \in Nat
<1>1. IsFiniteSet(Backend)
  BY CallsAssumption, FS_Interval DEF Backend
<1>2. \A T \in SUBSET Backend : IsFiniteSet(T) /\ Cardinality(T) \in Nat
  BY <1>1, FS_Subset, FS_CardinalityType, Zenon
<1>3. \A b : Below(S, b) \in SUBSET Backend
  BY Zenon DEF Below
<1>4. QED
  BY <1>2, <1>3, Zenon DEF Rank

\* The order of the configuration is a total order.
LEMMA ListOrder ==
  ASSUME NEW S \in SUBSET Backend
  PROVE  /\ S \subseteq Nat
         /\ \A a, b, d \in S : /\ a < b /\ b < d => a < d
                               /\ ~(a < a)
                               /\ a < b \/ a = b \/ b < a
                               /\ a <= b <=> ~(b < a)
<1>1. \A a \in S : a \in Nat
  BY CallsAssumption DEF Backend
<1>2. QED
  BY <1>1

\* A backend has fewer backends before it than one further on in the list, and
\* fewer than the list has.
LEMMA RankGrows ==
  ASSUME NEW S \in SUBSET Backend
  PROVE  /\ \A a, b \in S : a < b => Rank(S, a) < Rank(S, b)
         /\ \A b \in S : Rank(S, b) < Cardinality(S)
<1>1. \A a, b, d \in S : (a < b /\ b < d => a < d) /\ ~(a < a)
  BY ListOrder, Zenon
<1>2. \A T \in SUBSET S : \A b \in S \ T : Cardinality(T \cup {b}) = Cardinality(T) + 1
  BY ListsFinite, FS_Subset, FS_AddElement, Zenon
<1>3. ASSUME NEW a \in S, NEW b \in S, a < b
      PROVE  Rank(S, a) < Rank(S, b)
  <2>1. /\ Below(S, a) \cup {a} \subseteq Below(S, b)
        /\ a \in S \ Below(S, a) /\ Below(S, a) \in SUBSET S
    BY <1>1, <1>3, Zenon DEF Below
  <2>2. Cardinality(Below(S, a) \cup {a}) = Rank(S, a) + 1
    BY <1>2, <2>1, Zenon DEF Rank
  <2>3. Cardinality(Below(S, a) \cup {a}) <= Rank(S, b)
    BY <2>1, ListsFinite, FS_Subset, Zenon DEF Rank
  <2>4. QED
    BY <2>2, <2>3, ListsFinite
<1>4. ASSUME NEW b \in S PROVE Rank(S, b) < Cardinality(S)
  <2>1. Below(S, b) \cup {b} \subseteq S /\ b \in S \ Below(S, b) /\ Below(S, b) \in SUBSET S
    BY <1>1, Zenon DEF Below
  <2>2. Cardinality(Below(S, b) \cup {b}) = Rank(S, b) + 1
    BY <1>2, <2>1, Zenon DEF Rank
  <2>3. Cardinality(Below(S, b) \cup {b}) <= Cardinality(S)
    BY <2>1, ListsFinite, FS_Subset, Zenon
  <2>4. QED
    BY <2>2, <2>3, ListsFinite
<1>5. QED
  BY <1>3, <1>4, Zenon

\* The list has an element at every index, and it is the one before which so
\* many others come.
LEMMA NthIsListed ==
  ASSUME NEW S \in SUBSET Backend, NEW i \in Nat, i < Cardinality(S)
  PROVE  Nth(S, i) \in S /\ Rank(S, Nth(S, i)) = i
<1>1. IsFiniteSet(S) /\ Cardinality(S) \in Nat
  BY ListsFinite, Zenon
<1> USE ListOrder
<1> DEFINE Bad == {k \in Nat : k < Cardinality(S) /\ ~\E b \in S : Rank(S, b) = k}
<1>2. Bad = {}
  <2>1. SUFFICES ASSUME NEW k \in Bad, \A j \in Bad : k <= j
                 PROVE  \E b \in S : Rank(S, b) = k
    BY LeastExists, Zenon
  <2>2. CASE k = 0
    <3>1. S # {}
      BY <2>2, FS_EmptySet
    <3>2. PICK b \in S : \A a \in S : b <= a
      BY <3>1, LeastExists, Zenon
    <3>3. Below(S, b) = {}
      BY <3>2, Zenon DEF Below
    <3>4. QED
      BY <2>2, <3>3, FS_EmptySet, Zenon DEF Rank
  <2>3. CASE k # 0
    <3>1. k - 1 \in Nat /\ k - 1 < Cardinality(S) /\ k - 1 \notin Bad
      BY <1>1, <2>1, <2>3
    <3>2. PICK b \in S : Rank(S, b) = k - 1
      BY <3>1, Zenon
    <3>3. IsFiniteSet(Below(S, b)) /\ b \notin Below(S, b)
      BY <1>1, ListsFinite, Zenon DEF Below
    <3>4. Cardinality(Below(S, b) \cup {b}) = k
      <4>1. Cardinality(Below(S, b) \cup {b}) = Cardinality(Below(S, b)) + 1
        BY <3>3, FS_AddElement, Zenon
      <4>2. QED
        BY <3>2, <4>1 DEF Rank
    <3>5. {a \in S : b < a} # {}
      <4>1. ASSUME {a \in S : b < a} = {} PROVE S = Below(S, b) \cup {b}
        BY <4>1, Zenon DEF Below
      <4>2. QED
        BY <3>4, <4>1
    <3>6. PICK d \in {a \in S : b < a} : \A a \in {e \in S : b < e} : d <= a
      <4>1. {a \in S : b < a} \subseteq Nat
        BY Zenon
      <4>2. QED
        BY <3>5, <4>1, LeastExists, Zenon
    <3>7. Below(S, d) = Below(S, b) \cup {b}
      BY <3>6 DEF Below
    <3>8. QED
      BY <3>4, <3>6, <3>7, Zenon DEF Rank
  <2>4. QED
    BY <2>2, <2>3, Zenon
<1>3. \E b \in S : Rank(S, b) = i
  BY <1>2, Zenon
<1>4. QED
  BY <1>3, Zenon DEF Nth, Rank, Below

-----------------------------------------------------------------------------
\* A selection that panics leaves the call as it was seen by the others.
LEMMA PanicStep ==
  ASSUME CallsInv, NEW c \in Caller, pc[c] = "pick", Panic(c)
  PROVE  /\ CallsInv'
         /\ pc[c] # "panicked" /\ pc'[c] = "panicked"
<1>1. closed' \in BOOLEAN
  BY Zenon DEF Panic, EndCall, CallsInv, CallsTypeOK
<1>2. CallsTypeOK'
  BY <1>1, Zenon DEF Panic, EndCall, CallsInv, CallsTypeOK, Goto, InCall
<1>3. CallsInv'
  BY <1>2, Zenon DEF Panic, EndCall, CallsInv, CallsTypeOK, Goto, InCall
<1>4. QED
  BY <1>3, Zenon DEF Panic, EndCall, CallsInv, CallsTypeOK, Goto

\* The inductive invariant of the round-robin balancer.
RRInv == CallsInv /\ current \in Int

RRPromise == LB!Next \/ PanicAside({c \in Caller : current' < 0})

\* Every step of the round-robin balancer keeps the invariant and is a step of
\* the promise, a panic with a negative counter, or the call after one.
LEMMA RRStep ==
  ASSUME RRInv, [RRNext]_rrVars
  PROVE  RRInv' /\ [RRPromise]_(LB!vars)
<1>1. ASSUME NEW c \in Caller, RREnter(c) PROVE RRInv' /\ RRPromise
  <2>1. RRInv' /\ (pc[c] # "panicked" => LB!Call(c))
    BY <1>1, CallNextStep, Zenon DEF RRInv, RREnter
  <2>2. pc'[c] # "panicked"
    BY <1>1, Zenon DEF RREnter, CallNext, Goto, RRInv, CallsInv, CallsTypeOK
  <2>3. QED
    BY <2>1, <2>2, Zenon DEF RRPromise, LB!Next, PanicAside
<1>2. ASSUME NEW c \in Caller, RRCheckClosed(c)
      PROVE  RRInv' /\ (RRPromise \/ UNCHANGED LB!vars)
  BY <1>2, ClosedCheckStep, Zenon DEF RRInv, RRCheckClosed, RRPromise, LB!Next
<1>3. ASSUME NEW c \in Caller, GetHealthyBackends(c)
      PROVE  RRInv' /\ UNCHANGED LB!vars
  BY <1>3, HealthyReadStep, Zenon DEF RRInv, GetHealthyBackends
<1>4. ASSUME NEW c \in Caller, GetFallbackBackends(c)
      PROVE  RRInv' /\ (RRPromise \/ UNCHANGED LB!vars)
  BY <1>4, FallbackReadStep DEF RRInv, GetFallbackBackends, RRPromise, LB!Next
<1>5. ASSUME NEW c \in Caller, RRSelectSingle(c) PROVE RRInv' /\ RRPromise
  <2>1. cand[c] \in SUBSET Backend
    BY Zenon DEF RRInv, CallsInv, CallsTypeOK
  <2>2. Nth(cand[c], 0) \in cand[c]
    BY <1>5, <2>1, NthIsListed DEF RRSelectSingle
  <2>3. CallsInv' /\ LB!Answer(c)
    BY <1>5, <2>2, ReturnStep, Zenon DEF RRInv, RRSelectSingle
  <2>4. QED
    BY <1>5, <2>3, Zenon DEF RRInv, RRSelectSingle, RRPromise, LB!Next
<1>6. ASSUME NEW c \in Caller, SelectNext(c) PROVE RRInv' /\ RRPromise
  <2>1. cand[c] \in SUBSET Backend
    BY DEF RRInv, CallsInv, CallsTypeOK
  <2>2. /\ pc[c] = "pick" /\ Cardinality(cand[c]) \in Nat /\ Cardinality(cand[c]) > 0
        /\ current' = AddInt32(current)
    BY <1>6, <2>1, ListsFinite DEF SelectNext
  <2>3. current' \in Int
    BY <2>2, CounterAssumption DEF AddInt32, RRInv
  <2>4. PICK index \in Int : index = Rem(current', Cardinality(cand[c]))
    BY <2>2, <2>3, RemIndex, Zenon
  <2>5. CASE index >= 0
    <3>1. Nth(cand[c], index) \in cand[c]
      <4>1. index \in Nat /\ index < Cardinality(cand[c])
        BY <2>2, <2>3, <2>4, <2>5, RemIndex
      <4>2. QED
        BY <2>1, <4>1, NthIsListed, Zenon
    <3>2. Return(c, Nth(cand[c], index))
      BY <1>6, <2>4, <2>5 DEF SelectNext
    <3>3. CallsInv' /\ LB!Answer(c)
      BY <2>2, <3>1, <3>2, ReturnStep, Zenon DEF RRInv
    <3>4. QED
      BY <2>3, <3>3, Zenon DEF RRInv, RRPromise, LB!Next
  <2>6. CASE index < 0
    <3>1. Panic(c) /\ current' < 0
      BY <1>6, <2>2, <2>3, <2>4, <2>6, RemIndex DEF SelectNext
    <3>2. CallsInv' /\ pc[c] # "panicked" /\ pc'[c] = "panicked"
      BY <2>2, <3>1, PanicStep, Zenon DEF RRInv
    <3>3. QED
      BY <2>3, <3>1, <3>2, Zenon DEF RRInv, RRPromise, PanicAside
  <2>7. QED
    BY <2>5, <2>6
<1>7. ASSUME NEW c \in Caller, RRReportResult(c) PROVE RRInv' /\ RRPromise
  BY <1>7, ReportedStep, Zenon DEF RRInv, RRReportResult, RRPromise, LB!Next
<1>8. ASSUME NEW b \in Backend, NEW s \in BackendStates, RRUpdateBackendState(Url[b], s)
      PROVE  RRInv' /\ RRPromise
  BY <1>8, StateUpdateStep, FirstWithIsBackend, SameStates, Zenon
     DEF RRInv, RRUpdateBackendState, RRPromise, LB!Next
<1>9. ASSUME RRClose PROVE RRInv' /\ RRPromise
  BY <1>9, CloseCallsStep, Zenon DEF RRInv, RRClose, RRPromise, LB!Next
<1>10. ASSUME UNCHANGED rrVars PROVE RRInv' /\ UNCHANGED LB!vars
  BY <1>10, CallsStutter, Zenon DEF RRInv, rrVars
<1>11. QED
  BY <1>1, <1>2, <1>3, <1>4, <1>5, <1>6, <1>7, <1>8, <1>9, <1>10, Zenon DEF RRNext

\* NextBackend of the round-robin balancer keeps the promise of LoadBalancer for
\* any number of backends and callers; it panics only with a counter that has
\* wrapped below zero.
THEOREM RRRefinement == RRSpec => RRImplementsLoadBalancer
<1>1. RRInit => LB!Init
  BY Zenon DEF RRInit, CallsInit, LB!Init, Phase, InCall
<1>2. RRInit => RRInv
  BY CallsInitInv DEF RRInit, RRInv
<1>3. RRInv /\ [RRNext]_rrVars
        => RRInv' /\ [LB!Next \/ PanicAside({c \in Caller : current' < 0})]_(LB!vars)
  BY RRStep, Zenon DEF RRPromise
<1>4. QED
  BY <1>1, <1>2, <1>3, PTL DEF RRSpec, RRImplementsLoadBalancer

\* How many turns ago, counted cyclically, position r was at position p.
Ago(p, r, n) == IF r <= p THEN p - r ELSE p - r + n

\* The backends served in the current turn are the last m of a cyclic list of
\* n > m: this is what makes the turns even.
Window(S, m) ==
  \A b \in Backend :
    turns[b] = IF b \in S /\ Ago(current % Cardinality(S), Rank(S, b), Cardinality(S)) < m
               THEN 1 ELSE 0

TurnsInv ==
  \/ turns = NoTurns
  \/ /\ current >= 0 /\ turns \in [Backend -> Nat]
     /\ \E m \in Nat : m < Cardinality(Candidates(state)) /\ Window(Candidates(state), m)

\* A selection from the current list serves a backend that was not served yet
\* in this turn, and makes the window longer or ends the turn.
LEMMA SelectKeepsTurns ==
  ASSUME RRInv, TurnsInv, NEW c \in Caller, SelectNext(c)
  PROVE  TurnsInv'
<1> DEFINE S == cand[c]
           n == Cardinality(S)
           b == got'[c]
<1>1. S \in SUBSET Backend /\ n \in Nat /\ n > 1
  BY ListsFinite, Zenon DEF RRInv, CallsInv, CallsTypeOK, SelectNext
<1>2. current \in Int /\ current' = AddInt32(current) /\ current' \in Int
  BY CounterAssumption DEF RRInv, SelectNext, AddInt32
<1>3. CASE turns' = NoTurns
  BY <1>3, Zenon DEF TurnsInv, NoTurns
<1>4. CASE turns' # NoTurns
  <2>1. /\ Rem(current', n) >= 0 /\ Return(c, Nth(S, Rem(current', n))) /\ CountTurn(c, b)
    BY <1>4, Zenon DEF SelectNext
  <2>2. S = Candidates(state) /\ ~(current' < 0) /\ state' = state
    BY <1>4, <2>1, Zenon DEF CountTurn, Return, EndCall
  <2>3. current' >= 0 /\ current' = current + 1 /\ (current = -1 \/ current >= 0)
    BY <1>2, <2>2, CounterAssumption DEF AddInt32
  <2>4. b \in S /\ Rank(S, b) = current' % n /\ current' % n \in 0 .. n - 1
    <3>1. Rem(current', n) = current' % n /\ current' % n \in 0 .. n - 1
      BY <1>1, <1>2, <2>3, RemIndex
    <3>2. b = Nth(S, current' % n)
      BY <2>1, <3>1, Zenon DEF Return, RRInv, CallsInv, CallsTypeOK
    <3>3. QED
      BY <1>1, <3>1, <3>2, NthIsListed
  <2>5. \A a \in S : Rank(S, a) \in 0 .. n - 1 /\ (a # b => Rank(S, a) # Rank(S, b))
    BY <1>1, <2>4, ListsFinite, ListOrder, RankGrows
  <2>6. PICK m \in Nat :
          /\ m < n
          /\ turns \in [Backend -> Nat]
          /\ \A a \in Backend :
               turns[a] = IF a \in S /\ a # b /\ Ago(current' % n, Rank(S, a), n) <= m
                          THEN 1 ELSE 0
    <3>1. CASE turns = NoTurns
      <4>1. \A a \in S : a # b => ~(Ago(current' % n, Rank(S, a), n) <= 0)
        BY <1>1, <2>4, <2>5 DEF Ago
      <4>2. 0 \in Nat /\ 0 < n
        BY <1>1
      <4>3. QED
        BY <3>1, <4>1, <4>2, Zenon DEF NoTurns
    <3>2. CASE turns # NoTurns
      <4>1. current \in Nat
        BY <1>2, <3>2 DEF TurnsInv
      <4>2. PICK m \in Nat : m < n /\ Window(S, m) /\ turns \in [Backend -> Nat]
        BY <2>2, <3>2, Zenon DEF TurnsInv
      <4>3. /\ current % n \in 0 .. n - 1
            /\ current' % n = IF current % n = n - 1 THEN 0 ELSE (current % n) + 1
        <5> HIDE DEF n
        <5>1. n \in Nat /\ n > 0
          BY <1>1
        <5>2. /\ current % n \in 0 .. n - 1
              /\ (current + 1) % n = IF current % n = n - 1 THEN 0 ELSE (current % n) + 1
          BY <4>1, <5>1, Remainders, Zenon
        <5>3. QED
          BY <2>3, <5>2, Zenon
      <4>4. \A a \in S : IF a = b THEN Ago(current % n, Rank(S, a), n) = n - 1
                         ELSE Ago(current' % n, Rank(S, a), n)
                                = Ago(current % n, Rank(S, a), n) + 1
        BY <1>1, <2>4, <2>5, <4>3 DEF Ago
      <4>5. \A a \in S : Ago(current % n, Rank(S, a), n) \in Int
        BY <1>1, <2>5, <4>3 DEF Ago
      <4>6. \A a \in S : Ago(current % n, Rank(S, a), n) < m
                           <=> a # b /\ Ago(current' % n, Rank(S, a), n) <= m
        BY <1>1, <4>2, <4>4, <4>5
      <4>7. QED
        BY <4>2, <4>6, Zenon DEF Window
    <3>3. QED
      BY <3>1, <3>2, Zenon
  <2>7. b \in Backend /\ turns[b] = 0
    BY <1>1, <2>4, <2>6, Zenon
  <2>8. ASSUME ~\A a \in S : [turns EXCEPT ![b] = @ + 1][a] > 0 PROVE TurnsInv'
    <3>1. turns' = [turns EXCEPT ![b] = @ + 1]
      BY <2>1, <2>2, <2>8, Zenon DEF CountTurn
    <3>2. turns' \in [Backend -> Nat]
      BY <2>6, <2>7, <3>1
    <3>3. \A a \in Backend :
            turns'[a] = IF a \in S /\ Ago(current' % n, Rank(S, a), n) < m + 1 THEN 1 ELSE 0
      <4>1. Ago(current' % n, Rank(S, b), n) = 0
        BY <1>1, <2>4 DEF Ago
      <4>2. \A a \in S : Ago(current' % n, Rank(S, a), n) \in Int
        BY <1>1, <2>4, <2>5 DEF Ago
      <4>3. QED
        BY <2>4, <2>6, <2>7, <3>1, <4>1, <4>2
    <3>4. m + 1 < n
      <4>1. SUFFICES ASSUME m + 1 = n PROVE \A a \in S : turns'[a] > 0
        BY <1>1, <2>6, <2>8, <3>1
      <4>2. \A a \in S : Ago(current' % n, Rank(S, a), n) < n
        BY <1>1, <2>4, <2>5 DEF Ago
      <4>3. QED
        BY <1>1, <3>3, <4>1, <4>2
    <3>5. QED
      BY <2>2, <2>3, <3>2, <3>3, <3>4 DEF TurnsInv, Window
  <2>9. ASSUME \A a \in S : [turns EXCEPT ![b] = @ + 1][a] > 0 PROVE turns' = NoTurns
    <3>1. turns' = [a \in Backend |-> IF a \in S THEN [turns EXCEPT ![b] = @ + 1][a] - 1 ELSE 0]
      BY <2>1, <2>2, <2>9, Zenon DEF CountTurn
    <3>2. \A a \in S : [turns EXCEPT ![b] = @ + 1][a] = 1
      BY <1>1, <2>6, <2>7, <2>9
    <3>3. QED
      BY <1>1, <3>1, <3>2 DEF NoTurns
  <2>10. QED
    BY <1>4, <2>8, <2>9, Zenon
<1>5. QED
  BY <1>3, <1>4, Zenon

\* No other step disturbs the turns without starting afresh.
LEMMA TurnsStep ==
  ASSUME RRInv, TurnsInv, [RRNext]_rrVars
  PROVE  TurnsInv'
<1>1. ASSUME UNCHANGED <<current, turns, state>> PROVE TurnsInv'
  BY <1>1, Zenon DEF TurnsInv, Window, NoTurns
<1>2. ASSUME NEW b \in Backend, NEW s \in BackendStates, RRUpdateBackendState(Url[b], s)
      PROVE  TurnsInv'
  BY <1>2, Zenon DEF RRUpdateBackendState, TurnsInv, NoTurns
<1>3. ASSUME NEW c \in Caller,
             \/ RREnter(c) \/ RRCheckClosed(c) \/ GetHealthyBackends(c)
             \/ GetFallbackBackends(c) \/ RRSelectSingle(c) \/ RRReportResult(c)
      PROVE  UNCHANGED <<current, turns, state>>
  BY <1>3, Zenon DEF RREnter, RRCheckClosed, GetHealthyBackends, GetFallbackBackends,
     RRSelectSingle,
              RRReportResult, CallNext, ClosedCheck, HealthyRead, FallbackRead, Reported,
              Return, EndCall
<1>4. ASSUME RRClose PROVE UNCHANGED <<current, turns, state>>
  BY <1>4, Zenon DEF RRClose, CloseCalls
<1>5. ASSUME UNCHANGED rrVars PROVE UNCHANGED <<current, turns, state>>
  BY <1>5, Zenon DEF rrVars, callVars
<1>6. QED
  BY <1>1, <1>2, <1>3, <1>4, <1>5, SelectKeepsTurns, Zenon DEF RRNext

\* Round robin is fair between the backends that are offered, for any number of
\* backends and callers and any interleaving.
THEOREM TurnsAreEven == RRSpec => []EvenTurns
<1>1. RRInit => RRInv /\ TurnsInv
  BY CallsInitInv DEF RRInit, RRInv, TurnsInv
<1>2. RRInv /\ TurnsInv => EvenTurns
  <2> SUFFICES ASSUME RRInv, TurnsInv, NEW a \in Candidates(state), NEW b \in Candidates(state)
               PROVE  turns[a] - turns[b] <= 1
    BY Zenon DEF EvenTurns
  <2>1. a \in Backend /\ b \in Backend
    BY OffersBackends, Zenon DEF Candidates, RRInv, CallsInv, CallsTypeOK
  <2>2. turns[a] \in 0 .. 1 /\ turns[b] \in 0 .. 1
    BY <2>1 DEF TurnsInv, Window, NoTurns
  <2>3. QED
    BY <2>2
<1>3. RRInv /\ TurnsInv /\ [RRNext]_rrVars => RRInv' /\ TurnsInv'
  BY RRStep, TurnsStep, Zenon
<1>4. QED
  BY <1>1, <1>2, <1>3, PTL DEF RRSpec
-----------------------------------------------------------------------------
\* u[i] is the sum of f over the first i of the backends.
Adds(f, n, u) ==
  /\ u \in [0 .. n -> Int] /\ u[0] = 0
  /\ \A i \in 1 .. n : u[i] = u[i - 1] + f[i]

\* f adds up to s over the backends.
IsSum(f, s) == \E u : Adds(f, NumBackends, u) /\ u[NumBackends] = s

\* The indices of the loops over the backends.
LEMMA Indices ==
  /\ NumBackends \in 0 .. NumBackends /\ 0 \in 0 .. NumBackends
  /\ Backend = 1 .. NumBackends
  /\ \A i \in 1 .. NumBackends : i \in 0 .. NumBackends /\ i - 1 \in 0 .. NumBackends
BY CallsAssumption DEF Backend

\* What holds before the first backend, and after each that it held before, holds
\* after all of them.
LEMMA LoopInduction ==
  ASSUME NEW B \in SUBSET (0 .. NumBackends), 0 \notin B,
         \A i \in 1 .. NumBackends : i - 1 \notin B => i \notin B
  PROVE  B = {}
<1>1. SUFFICES ASSUME NEW n \in B, \A k \in B : n <= k
               PROVE  FALSE
  <2>1. B \subseteq Nat
    BY CallsAssumption
  <2>2. QED
    BY <2>1, LeastExists, Zenon
<1>2. n # 0
  BY Zenon
<1>3. n \in 1 .. NumBackends /\ ~(n <= n - 1)
  BY <1>2, CallsAssumption
<1>4. QED
  BY <1>1, <1>3, Zenon

\* A loop that adds numbers up has its partial sums.
LEMMA PartialSums ==
  ASSUME NEW f \in [Backend -> Int]
  PROVE  \E u : Adds(f, NumBackends, u)
<1> DEFINE B == {n \in 0 .. NumBackends : ~\E u : Adds(f, n, u)}
<1>1. 0 \notin B
  <2>1. Adds(f, 0, [i \in 0 .. 0 |-> 0])
    BY DEF Adds
  <2>2. QED
    BY <2>1, Zenon
<1>2. ASSUME NEW n \in 1 .. NumBackends, n - 1 \notin B PROVE n \notin B
  <2>1. n - 1 \in 0 .. NumBackends /\ n - 1 \in 0 .. n - 1 /\ n \in Nat /\ n \in Backend
    BY CallsAssumption DEF Backend
  <2>2. PICK u : Adds(f, n - 1, u)
    BY <1>2, <2>1, Zenon
  <2> DEFINE w == [i \in 0 .. n |-> IF i = n THEN u[n - 1] + f[n] ELSE u[i]]
  <2>3. u[n - 1] \in Int /\ f[n] \in Int /\ u[0] = 0
    BY <2>1, <2>2, Zenon DEF Adds
  <2>4. \A i \in 0 .. n : i # n => u[i] \in Int
    <3>1. \A i \in 0 .. n : i # n => i \in 0 .. n - 1
      BY <2>1
    <3>2. QED
      BY <2>2, <3>1, Zenon DEF Adds
  <2>5. w \in [0 .. n -> Int] /\ w[0] = 0
    BY <1>2, <2>1, <2>3, <2>4
  <2>6. ASSUME NEW i \in 1 .. n PROVE w[i] = w[i - 1] + f[i]
    <3>1. i - 1 \in 0 .. n /\ i - 1 # n /\ i \in 0 .. n /\ (i # n => i \in 1 .. n - 1)
      BY <2>1
    <3>2. w[i - 1] = u[i - 1]
      BY <3>1, Zenon
    <3>3. i # n => u[i] = u[i - 1] + f[i]
      BY <2>2, <3>1, Zenon DEF Adds
    <3>4. QED
      BY <3>1, <3>2, <3>3, Zenon
  <2>7. Adds(f, n, w)
    <3> HIDE DEF w
    <3>1. QED
      BY <2>5, <2>6, Zenon DEF Adds
  <2>8. QED
    BY <2>7, Zenon
<1>3. B \in SUBSET (0 .. NumBackends)
  BY Zenon
<1>4. B = {}
  <2> HIDE DEF B
  <2>1. QED
    BY <1>1, <1>2, <1>3, LoopInduction, Zenon
<1>5. QED
  BY <1>4, Indices, Zenon

\* Two loops that start with the same number and go on in the same way agree.
LEMMA SameLoop ==
  ASSUME NEW u, NEW v, u[0] = v[0],
         \A i \in 1 .. NumBackends : u[i - 1] = v[i - 1] => u[i] = v[i]
  PROVE  \A i \in 0 .. NumBackends : u[i] = v[i]
<1> DEFINE B == {n \in 0 .. NumBackends : u[n] # v[n]}
<1>1. 0 \notin B /\ B \in SUBSET (0 .. NumBackends)
  BY Zenon
<1>2. \A i \in 1 .. NumBackends : i - 1 \notin B => i \notin B
  BY Indices, Zenon
<1>3. B = {}
  <2> HIDE DEF B
  <2>1. QED
    BY <1>1, <1>2, LoopInduction, Zenon
<1>4. QED
  BY <1>3, Zenon

\* Selections adds up how often each backend was selected.
LEMMA SelectionsAdds ==
  ASSUME NEW f \in [Backend -> Int]
  PROVE  IsSum(f, Selections(f))
<1>1. PICK u : Adds(f, NumBackends, u)
  BY PartialSums, Zenon
<1>2. u = [i \in 0 .. NumBackends |-> IF i = 0 THEN 0 ELSE u[i - 1] + f[i]]
  <2>1. u = [i \in 0 .. NumBackends |-> u[i]]
    BY <1>1, Zenon DEF Adds
  <2>2. ASSUME NEW i \in 0 .. NumBackends
        PROVE  u[i] = IF i = 0 THEN 0 ELSE u[i - 1] + f[i]
    <3>1. i # 0 => i \in 1 .. NumBackends
      BY CallsAssumption
    <3>2. QED
      BY <1>1, <3>1, Zenon DEF Adds
  <2>3. QED
    BY <2>1, <2>2, Zenon
<1> DEFINE d == CHOOSE upTo :
                  upTo = [i \in 0 .. NumBackends |-> IF i = 0 THEN 0 ELSE upTo[i - 1] + f[i]]
<1>3. Selections(f) = d[NumBackends]
  BY Zenon DEF Selections
<1>4. d = [i \in 0 .. NumBackends |-> IF i = 0 THEN 0 ELSE d[i - 1] + f[i]]
  BY <1>2, Zenon
<1>5. u[0] = d[0] /\ \A i \in 1 .. NumBackends : u[i - 1] = d[i - 1] => u[i] = d[i]
  <2> HIDE DEF d
  <2>1. \A i \in 1 .. NumBackends : i \in 0 .. NumBackends /\ i # 0
    BY CallsAssumption
  <2>2. QED
    BY <1>1, <1>4, <2>1, Indices, Zenon DEF Adds
<1>6. u[NumBackends] = d[NumBackends]
  <2> HIDE DEF d
  <2>1. QED
    BY <1>5, SameLoop, Indices, Zenon
<1>7. QED
  BY <1>1, <1>3, <1>6, Zenon DEF IsSum

\* Sums are numbers, and adding up two functions adds up their sums.
LEMMA SumPlus ==
  ASSUME NEW f \in [Backend -> Int], NEW g \in [Backend -> Int], NEW s, NEW t,
         IsSum(f, s), IsSum(g, t), NEW h, \A b \in Backend : h[b] = f[b] + g[b]
  PROVE  IsSum(h, s + t)
<1>1. PICK u : Adds(f, NumBackends, u) /\ u[NumBackends] = s
  BY Zenon DEF IsSum
<1>2. PICK v : Adds(g, NumBackends, v) /\ v[NumBackends] = t
  BY Zenon DEF IsSum
<1> DEFINE w == [i \in 0 .. NumBackends |-> u[i] + v[i]]
<1>3. \A i \in 0 .. NumBackends : u[i] \in Int /\ v[i] \in Int
  BY <1>1, <1>2, Zenon DEF Adds
<1>4. w \in [0 .. NumBackends -> Int]
  BY <1>3
<1>5. w[0] = 0 /\ w[NumBackends] = s + t
  BY <1>1, <1>2, Indices DEF Adds
<1>6. ASSUME NEW i \in 1 .. NumBackends PROVE w[i] = w[i - 1] + h[i]
  <2>1. /\ i \in Backend /\ i \in 0 .. NumBackends /\ i - 1 \in 0 .. NumBackends
        /\ f[i] \in Int /\ g[i] \in Int /\ h[i] = f[i] + g[i]
        /\ u[i] \in Int /\ v[i] \in Int /\ u[i - 1] \in Int /\ v[i - 1] \in Int
    BY <1>3, Indices, Zenon
  <2>2. u[i] = u[i - 1] + f[i] /\ v[i] = v[i - 1] + g[i]
    BY <1>1, <1>2, Zenon DEF Adds
  <2>3. w[i] = u[i] + v[i] /\ w[i - 1] = u[i - 1] + v[i - 1]
    BY <2>1, Zenon
  <2>4. QED
    BY <2>1, <2>2, <2>3
<1>7. Adds(h, NumBackends, w)
  <2> HIDE DEF w
  <2>1. QED
    BY <1>4, <1>5, <1>6, Zenon DEF Adds
<1>8. QED
  BY <1>5, <1>7, Zenon DEF IsSum

\* The sum of a function that is zero but for one backend.
LEMMA SumOfOne ==
  ASSUME NEW a \in Backend, NEW d \in Int
  PROVE  IsSum([b \in Backend |-> IF b = a THEN d ELSE 0], d)
<1> DEFINE w == [i \in 0 .. NumBackends |-> IF i < a THEN 0 ELSE d]
           h == [b \in Backend |-> IF b = a THEN d ELSE 0]
<1>1. a \in Nat /\ a # 0 /\ 0 < a /\ ~(NumBackends < a)
  BY CallsAssumption DEF Backend
<1>2. w \in [0 .. NumBackends -> Int] /\ w[0] = 0 /\ w[NumBackends] = d
  BY <1>1, Indices
<1>3. ASSUME NEW i \in 1 .. NumBackends PROVE w[i] = w[i - 1] + h[i]
  <2>1. i \in Backend /\ i \in 0 .. NumBackends /\ i - 1 \in 0 .. NumBackends
    BY Indices, Zenon
  <2>2. h[i] = (IF i = a THEN d ELSE 0)
    BY <2>1, Zenon
  <2>3. w[i] = (IF i < a THEN 0 ELSE d) /\ w[i - 1] = (IF i - 1 < a THEN 0 ELSE d)
    BY <2>1, Zenon
  <2> HIDE DEF w, h
  <2>4. QED
    BY <1>1, <2>2, <2>3
<1>4. Adds(h, NumBackends, w)
  <2> HIDE DEF w, h
  <2>1. QED
    BY <1>2, <1>3, Zenon DEF Adds
<1>5. QED
  BY <1>2, <1>4, Zenon DEF IsSum

\* The sum of a function that is the same for all backends.
LEMMA SumOfSame ==
  ASSUME NEW m \in Int
  PROVE  IsSum([b \in Backend |-> m], NumBackends * m)
<1> DEFINE w == [i \in 0 .. NumBackends |-> i * m]
           h == [b \in Backend |-> m]
<1>1. w \in [0 .. NumBackends -> Int] /\ w[0] = 0 /\ w[NumBackends] = NumBackends * m
  BY Indices
<1>2. ASSUME NEW i \in 1 .. NumBackends PROVE w[i] = w[i - 1] + h[i]
  <2>1. i \in Backend /\ i \in 0 .. NumBackends /\ i - 1 \in 0 .. NumBackends
    BY Indices, Zenon
  <2>2. h[i] = m /\ w[i] = i * m /\ w[i - 1] = (i - 1) * m
    BY <2>1, Zenon
  <2>3. i * m = (i - 1) * m + m
    OBVIOUS
  <2> HIDE DEF w, h
  <2>4. QED
    BY <2>2, <2>3, Zenon
<1>3. Adds(h, NumBackends, w)
  <2> HIDE DEF w, h
  <2>1. QED
    BY <1>1, <1>2, Zenon DEF Adds
<1>4. QED
  BY <1>1, <1>3, Zenon DEF IsSum

\* A sum above zero has a term above zero.
LEMMA SumPositive ==
  ASSUME NEW f \in [Backend -> Int], NEW s, IsSum(f, s), s > 0
  PROVE  s \in Int /\ \E b \in Backend : f[b] > 0
<1>1. PICK u : Adds(f, NumBackends, u) /\ u[NumBackends] = s
  BY Zenon DEF IsSum
<1>2. \A i \in 0 .. NumBackends : u[i] \in Int
  BY <1>1, Zenon DEF Adds
<1> DEFINE B == {n \in 0 .. NumBackends : u[n] > 0}
<1>3. SUFFICES ASSUME \A b \in Backend : ~(f[b] > 0) PROVE FALSE
  BY <1>1, <1>2, Indices, Zenon
<1>4. 0 \notin B /\ B \in SUBSET (0 .. NumBackends)
  BY <1>1 DEF Adds
<1>5. ASSUME NEW i \in 1 .. NumBackends, i - 1 \notin B PROVE i \notin B
  <2>1. /\ i \in Backend /\ i \in 0 .. NumBackends /\ i - 1 \in 0 .. NumBackends
        /\ f[i] \in Int /\ u[i - 1] \in Int /\ ~(f[i] > 0)
    BY <1>2, <1>3, Indices, Zenon
  <2>2. u[i] = u[i - 1] + f[i]
    BY <1>1, Zenon DEF Adds
  <2>3. QED
    BY <1>5, <2>1, <2>2
<1>6. B = {}
  <2> HIDE DEF B
  <2>1. QED
    BY <1>4, <1>5, LoopInduction, Zenon
<1>7. QED
  BY <1>1, <1>6, Indices, Zenon

\* Sums are numbers.
LEMMA SumType ==
  ASSUME NEW f, NEW s, IsSum(f, s)
  PROVE  s \in Int
BY Indices, Zenon DEF IsSum, Adds

\* The sum of the opposite numbers.
LEMMA SumMinus ==
  ASSUME NEW f \in [Backend -> Int], NEW s, IsSum(f, s)
  PROVE  IsSum([b \in Backend |-> -f[b]], -s)
<1>1. PICK u : Adds(f, NumBackends, u) /\ u[NumBackends] = s
  BY Zenon DEF IsSum
<1> DEFINE w == [i \in 0 .. NumBackends |-> -u[i]]
           h == [b \in Backend |-> -f[b]]
<1>2. \A i \in 0 .. NumBackends : u[i] \in Int
  BY <1>1, Zenon DEF Adds
<1>3. w \in [0 .. NumBackends -> Int] /\ w[0] = 0 /\ w[NumBackends] = -s
  BY <1>1, <1>2, Indices DEF Adds
<1>4. ASSUME NEW i \in 1 .. NumBackends PROVE w[i] = w[i - 1] + h[i]
  <2>1. /\ i \in Backend /\ i \in 0 .. NumBackends /\ i - 1 \in 0 .. NumBackends
        /\ f[i] \in Int /\ u[i] \in Int /\ u[i - 1] \in Int
    BY <1>2, Indices, Zenon
  <2>2. u[i] = u[i - 1] + f[i]
    BY <1>1, Zenon DEF Adds
  <2>3. h[i] = -f[i] /\ w[i] = -u[i] /\ w[i - 1] = -u[i - 1]
    BY <2>1, Zenon
  <2> HIDE DEF w, h
  <2>4. QED
    BY <2>1, <2>2, <2>3
<1>5. Adds(h, NumBackends, w)
  <2> HIDE DEF w, h
  <2>1. QED
    BY <1>3, <1>4, Zenon DEF Adds
<1>6. QED
  BY <1>3, <1>5, Zenon DEF IsSum

\* Larger terms make a larger sum; in particular there is one sum only.
LEMMA SumOrder ==
  ASSUME NEW f \in [Backend -> Int], NEW g \in [Backend -> Int], NEW s, NEW t,
         IsSum(f, s), IsSum(g, t), \A b \in Backend : f[b] <= g[b]
  PROVE  s <= t
<1>1. s \in Int /\ t \in Int
  BY SumType, Zenon
<1>2. SUFFICES ASSUME s > t PROVE FALSE
  BY <1>1
<1> DEFINE k == [b \in Backend |-> -g[b]]
           h == [b \in Backend |-> f[b] + k[b]]
<1>3. IsSum(k, -t)
  BY SumMinus, Zenon
<1>4. k \in [Backend -> Int]
  OBVIOUS
<1>5. \A b \in Backend : k[b] = -g[b]
  BY Zenon
<1> HIDE DEF k
<1>6. h \in [Backend -> Int]
  BY <1>4
<1>7. \A b \in Backend : h[b] = f[b] + k[b]
  BY Zenon
<1> HIDE DEF h
<1>8. IsSum(h, s + (-t))
  BY <1>3, <1>4, <1>7, SumPlus, Zenon
<1>9. s + (-t) > 0
  BY <1>1, <1>2
<1>10. PICK b \in Backend : h[b] > 0
  BY <1>6, <1>8, <1>9, SumPositive, Zenon
<1>11. f[b] \in Int /\ g[b] \in Int /\ h[b] = f[b] + k[b] /\ k[b] = -g[b] /\ f[b] <= g[b]
  BY <1>5, <1>7, Zenon
<1>12. QED
  BY <1>10, <1>11

\* Every weight is at most m, and there is room for the sums.
Fit(m) == NumBackends * (NumBackends * m) <= MaxInt32 /\ \A b \in Backend : weights[b] <= m

\* Multiplying with a number of backends does not make smaller.
LEMMA Multiples ==
  ASSUME NEW m \in Nat
  PROVE  /\ NumBackends * m \in Nat /\ NumBackends * (NumBackends * m) \in Nat
         /\ m <= NumBackends * m /\ NumBackends * m <= NumBackends * (NumBackends * m)
<1>1. ASSUME NEW n \in Nat PROVE NumBackends * n \in Nat /\ n <= NumBackends * n
  BY CallsAssumption
<1>2. QED
  BY <1>1, Zenon

\* A weight is positive: what is not configured has the default weight.
LEMMA WeightsPositive == weights \in [Backend -> Nat] /\ \A b \in Backend : weights[b] >= 1
BY WeightAssumption DEF weights, DefaultBackendWeight

\* Weights that fit are at most the largest of them.
LEMMA LargestWeight ==
  ASSUME WeightsFit
  PROVE  \E m \in Nat : Fit(m)
<1>1. \A b \in Backend : weights[b] \in Nat /\ weights[b] <= MaxInt32
  <2>1. ASSUME NEW b \in Backend PROVE weights[b] \in Nat /\ weights[b] <= MaxInt32
    <3>1. weights[b] \in Nat
      BY WeightsPositive, Zenon
    <3>2. NumBackends * (NumBackends * weights[b]) <= MaxInt32
      BY Zenon DEF WeightsFit
    <3>3. QED
      BY <3>1, <3>2, Multiples, WeightAssumption
  <2>2. QED
    BY <2>1, Zenon
<1> DEFINE R == {MaxInt32 - weights[b] : b \in Backend}
<1>2. R \subseteq Nat
  BY <1>1, WeightAssumption
<1>3. R # {}
  <2>1. NumBackends \in Backend
    BY CallsAssumption DEF Backend
  <2>2. QED
    BY <2>1, Zenon
<1>4. PICK r \in R : \A a \in R : r <= a
  <2> HIDE DEF R
  <2>1. QED
    BY <1>2, <1>3, LeastExists, Zenon
<1>5. PICK b \in Backend : r = MaxInt32 - weights[b]
  BY Zenon
<1>6. ASSUME NEW a \in Backend PROVE weights[a] <= weights[b]
  <2>1. r <= MaxInt32 - weights[a]
    BY <1>4, Zenon
  <2>2. QED
    BY <1>1, <1>5, <2>1, WeightAssumption
<1>7. QED
  BY <1>1, <1>6, Zenon DEF Fit, WeightsFit

\* Within its range an int32 does not wrap.
LEMMA Int32Small ==
  ASSUME NEW n \in -MaxInt32 - 1 .. MaxInt32
  PROVE  Int32(n) = n
<1>1. ASSUME NEW k \in Nat, NEW a \in 0 .. k - 1 PROVE a % k = a
  <2>1. a = k * (a \div k) + (a % k) /\ a % k \in 0 .. k - 1 /\ a \div k \in Int
    OBVIOUS
  <2>2. ~(a \div k >= 1)
    BY <2>1
  <2>3. ~(a \div k <= -1)
    BY <2>1
  <2>4. QED
    BY <2>1, <2>2, <2>3
<1>2. 2 * MaxInt32 + 2 \in Nat /\ n + MaxInt32 + 1 \in 0 .. (2 * MaxInt32 + 2) - 1
  BY WeightAssumption
<1>3. (n + MaxInt32 + 1) % (2 * MaxInt32 + 2) = n + MaxInt32 + 1
  BY <1>1, <1>2, Zenon
<1>4. QED
  BY <1>3, WeightAssumption DEF Int32

WeightsOn(S) == [b \in Backend |-> IF b \in S THEN weights[b] ELSE 0]

\* The overflow checks of selectByWeight change nothing where the sum fits.
LEMMA SumFits ==
  ASSUME NEW m \in Nat, Fit(m), NEW b \in Backend, NEW x \in Int,
         x >= -(NumBackends * m), x + weights[b] <= NumBackends * (NumBackends * m)
  PROVE  Int32(x + Clip(x, weights[b])) = x + weights[b]
<1>1. /\ weights[b] \in Nat /\ MaxInt32 \in Nat /\ NumBackends * m \in Nat
      /\ NumBackends * (NumBackends * m) \in Nat
      /\ NumBackends * m <= NumBackends * (NumBackends * m)
      /\ NumBackends * (NumBackends * m) <= MaxInt32
  BY WeightsPositive, WeightAssumption, Multiples, Zenon DEF Fit
<1>2. ASSUME NEW p \in Nat, NEW q \in Nat, p <= q, q <= MaxInt32, x >= -p, x + weights[b] <= q
      PROVE  ~(x > MaxInt32 - weights[b]) /\ x + weights[b] \in -MaxInt32 - 1 .. MaxInt32
  BY <1>1, <1>2
<1>3. ~(x > MaxInt32 - weights[b]) /\ x + weights[b] \in -MaxInt32 - 1 .. MaxInt32
  BY <1>1, <1>2, Zenon
<1>4. QED
  BY <1>3, Int32Small, Zenon DEF Clip

\* Where the weights fit, TotalWeight is the sum of the weights on the list.
LEMMA TotalAdds ==
  ASSUME NEW m \in Nat, Fit(m), NEW S \in SUBSET Backend
  PROVE  /\ IsSum(WeightsOn(S), TotalWeight(S))
         /\ TotalWeight(S) \in 0 .. NumBackends * m
         /\ \A b \in S : weights[b] <= TotalWeight(S)
<1> DEFINE f == WeightsOn(S)
<1>1. f \in [Backend -> Int] /\ \A b \in Backend : f[b] = IF b \in S THEN weights[b] ELSE 0
  BY WeightsPositive DEF WeightsOn
<1>2. \A b \in Backend : f[b] \in 0 .. m /\ weights[b] \in 1 .. m
  BY <1>1, WeightsPositive DEF Fit
<1> HIDE DEF f
<1>3. PICK v : Adds(f, NumBackends, v)
  BY <1>1, PartialSums, Zenon
<1>4. \A i \in 0 .. NumBackends : v[i] \in 0 .. i * m
  <2> DEFINE B == {i \in 0 .. NumBackends : v[i] \notin 0 .. i * m}
  <2>1. 0 \notin B /\ B \in SUBSET (0 .. NumBackends)
    BY <1>3 DEF Adds
  <2>2. ASSUME NEW i \in 1 .. NumBackends, i - 1 \notin B PROVE i \notin B
    <3>1. /\ i \in Backend /\ i - 1 \in 0 .. NumBackends /\ v[i] = v[i - 1] + f[i]
          /\ f[i] \in 0 .. m
      BY <1>2, <1>3, Indices, Zenon DEF Adds
    <3>2. v[i - 1] \in 0 .. (i - 1) * m
      BY <2>2, <3>1, Zenon
    <3>3. i * m = (i - 1) * m + m /\ (i - 1) * m \in Int
      OBVIOUS
    <3>4. v[i] \in 0 .. i * m
      BY <3>1, <3>2, <3>3
    <3>5. QED
      BY <3>4, Zenon
  <2>3. B = {}
    <3> HIDE DEF B
    <3>1. QED
      BY <2>1, <2>2, LoopInduction, Zenon
  <2>4. QED
    BY <2>3, Zenon
<1>5. \A i \in 0 .. NumBackends : i * m \in Nat /\ i * m <= NumBackends * m
  <2>1. ASSUME NEW i \in 0 .. NumBackends PROVE i * m \in Nat /\ i * m <= NumBackends * m
    <3>1. (NumBackends - i) * m >= 0 /\ (NumBackends - i) * m = NumBackends * m - i * m
      BY CallsAssumption
    <3>2. i * m \in Nat
      BY CallsAssumption
    <3>3. QED
      BY <3>1, <3>2, CallsAssumption
  <2>2. QED
    BY <2>1, Zenon
<1>6. \A i \in 0 .. NumBackends : v[i] \in Nat /\ v[i] <= NumBackends * m
  <2>1. ASSUME NEW i \in 0 .. NumBackends PROVE v[i] \in Nat /\ v[i] <= NumBackends * m
    <3>1. /\ v[i] \in 0 .. i * m /\ i * m \in Nat
          /\ i * m <= NumBackends * m /\ NumBackends * m \in Nat
      BY <1>4, <1>5, Multiples, Zenon
    <3>2. QED
      BY <3>1
  <2>2. QED
    BY <2>1, Zenon
<1>7. Valid(S) = S
  <2>1. \A b \in S : weights[b] <= MaxInt32
    <3>1. \A b \in S : weights[b] \in Nat /\ weights[b] <= m
      BY WeightsPositive, Zenon DEF Fit
    <3>2. m <= NumBackends * m /\ NumBackends * m <= NumBackends * (NumBackends * m)
          /\ NumBackends * (NumBackends * m) <= MaxInt32
      BY Multiples, Zenon DEF Fit
    <3>3. m <= MaxInt32
      BY <3>2, Multiples, WeightAssumption
    <3>4. QED
      BY <3>1, <3>3, WeightAssumption
  <2>2. QED
    BY <2>1, Zenon DEF Valid
<1> DEFINE Step(u, i) == IF i = 0 THEN 0
                         ELSE IF i \notin Valid(S) THEN u[i - 1]
                         ELSE Int32(u[i - 1] + Clip(u[i - 1], weights[i]))
<1>8. ASSUME NEW i \in 1 .. NumBackends, NEW u, u[i - 1] = v[i - 1]
      PROVE  v[i] = Step(u, i)
  <2>1. /\ i \in Backend /\ i \in 0 .. NumBackends /\ i - 1 \in 0 .. NumBackends /\ i # 0
        /\ v[i] = v[i - 1] + f[i]
    <3>1. i # 0
      OBVIOUS
    <3>2. QED
      BY <1>3, <3>1, Indices, Zenon DEF Adds
  <2>2. v[i - 1] \in Nat /\ v[i] \in Nat /\ v[i] <= NumBackends * m
    BY <1>6, <2>1, Zenon
  <2>3. CASE i \notin S
    <3>1. f[i] = 0
      BY <1>1, <2>1, <2>3, Zenon
    <3>2. v[i] = v[i - 1]
      BY <2>1, <2>2, <3>1
    <3>3. QED
      BY <1>7, <1>8, <2>1, <2>3, <3>2, Zenon
  <2>4. CASE i \in S
    <3>1. f[i] = weights[i] /\ v[i] = v[i - 1] + weights[i]
      BY <1>1, <2>1, <2>4, Zenon
    <3>2. v[i - 1] \in Int /\ v[i - 1] >= -(NumBackends * m)
      BY <2>2, Multiples
    <3>3. v[i - 1] + weights[i] <= NumBackends * (NumBackends * m)
      <4>1. v[i] <= NumBackends * (NumBackends * m)
        BY <2>2, Multiples
      <4>2. QED
        BY <3>1, <4>1, Zenon
    <3>4. Int32(v[i - 1] + Clip(v[i - 1], weights[i])) = v[i]
      BY <2>1, <3>1, <3>2, <3>3, SumFits, Zenon
    <3>5. QED
      BY <1>7, <1>8, <2>1, <2>4, <3>4, Zenon
  <2>5. QED
    BY <2>3, <2>4, Zenon
<1>9. v = [i \in 0 .. NumBackends |-> Step(v, i)]
  <2>1. v = [i \in 0 .. NumBackends |-> v[i]]
    BY <1>3, Zenon DEF Adds
  <2>2. ASSUME NEW i \in 0 .. NumBackends PROVE v[i] = Step(v, i)
    <3>1. CASE i = 0
      BY <1>3, <3>1, Zenon DEF Adds
    <3>2. CASE i # 0
      <4>1. i \in 1 .. NumBackends
        BY <3>2, CallsAssumption
      <4>2. QED
        BY <1>8, <4>1, Zenon
    <3>3. QED
      BY <3>1, <3>2, Zenon
  <2> HIDE DEF Step
  <2>3. QED
    BY <2>1, <2>2, Zenon
<1> DEFINE d == CHOOSE upTo : upTo = [i \in 0 .. NumBackends |-> Step(upTo, i)]
<1>10. TotalWeight(S) = d[NumBackends]
  BY Zenon DEF TotalWeight
<1>11. d = [i \in 0 .. NumBackends |-> Step(d, i)]
  <2> HIDE DEF Step
  <2>1. QED
    BY <1>9, Zenon
<1>12. d[0] = v[0]
  <2> HIDE DEF d
  <2>1. QED
    BY <1>3, <1>11, Indices, Zenon DEF Adds
<1>13. \A i \in 1 .. NumBackends : d[i - 1] = v[i - 1] => d[i] = v[i]
  <2> HIDE DEF d, Step
  <2>1. QED
    BY <1>8, <1>11, Indices, Zenon
<1>14. d[NumBackends] = v[NumBackends]
  <2> HIDE DEF d
  <2>1. QED
    BY <1>12, <1>13, SameLoop, Indices, Zenon
<1>15. IsSum(f, TotalWeight(S)) /\ TotalWeight(S) = v[NumBackends]
  <2> HIDE DEF d
  <2>1. QED
    BY <1>3, <1>10, <1>14, Zenon DEF IsSum
<1>16. TotalWeight(S) \in 0 .. NumBackends * m
  <2>1. TotalWeight(S) \in Nat /\ TotalWeight(S) <= NumBackends * m /\ NumBackends * m \in Nat
    BY <1>6, <1>15, Indices, Multiples, Zenon
  <2>2. QED
    BY <2>1
<1>17. ASSUME NEW b \in S PROVE weights[b] <= TotalWeight(S)
  <2> DEFINE g == [a \in Backend |-> IF a = b THEN weights[b] ELSE 0]
  <2>1. weights[b] \in Int /\ IsSum(g, weights[b])
    <3>1. weights[b] \in Int
      BY WeightsPositive
    <3>2. QED
      BY <3>1, SumOfOne, Zenon
  <2>2. g \in [Backend -> Int] /\ \A a \in Backend : g[a] <= f[a]
    BY <1>1, <1>2, <2>1
  <2> HIDE DEF g
  <2>3. QED
    BY <1>1, <1>15, <2>1, <2>2, SumOrder, Zenon
<1>18. QED
  BY <1>15, <1>16, <1>17, Zenon DEF f

\* A function adds up to one number.
LEMMA SumUnique ==
  ASSUME NEW f \in [Backend -> Int], NEW s, NEW t, IsSum(f, s), IsSum(f, t)
  PROVE  s = t
<1>1. s \in Int /\ t \in Int
  BY SumType, Zenon
<1>2. \A b \in Backend : f[b] <= f[b]
  OBVIOUS
<1>3. s <= t /\ t <= s
  BY <1>2, SumOrder, Zenon
<1>4. QED
  BY <1>1, <1>3

\* Nobody served makes no selections, and one more is one more.
LEMMA SelectionsCount ==
  /\ IsSum(NoneServed, 0) /\ Selections(NoneServed) = 0
  /\ \A f \in [Backend -> Nat] : \A b \in Backend :
       Selections(f) \in Int /\ Selections([f EXCEPT ![b] = @ + 1]) = Selections(f) + 1
<1>1. IsSum(NoneServed, 0) /\ NoneServed \in [Backend -> Int]
  <2>1. 0 \in Int /\ NumBackends * 0 = 0 /\ NoneServed \in [Backend -> Int]
    BY CallsAssumption DEF NoneServed
  <2>2. IsSum([b \in Backend |-> 0], NumBackends * 0)
    BY <2>1, SumOfSame, Zenon
  <2>3. QED
    BY <2>1, <2>2, Zenon DEF NoneServed
<1>2. Selections(NoneServed) = 0
  BY <1>1, SelectionsAdds, SumUnique, Zenon
<1>3. ASSUME NEW f \in [Backend -> Nat], NEW b \in Backend
      PROVE  Selections(f) \in Int /\ Selections([f EXCEPT ![b] = @ + 1]) = Selections(f) + 1
  <2> DEFINE g == [a \in Backend |-> IF a = b THEN 1 ELSE 0]
             h == [f EXCEPT ![b] = @ + 1]
  <2>1. f \in [Backend -> Int] /\ g \in [Backend -> Int] /\ h \in [Backend -> Int]
    OBVIOUS
  <2>2. \A a \in Backend : h[a] = f[a] + g[a]
    OBVIOUS
  <2>3. IsSum(g, 1)
    BY SumOfOne
  <2> HIDE DEF g, h
  <2>4. IsSum(f, Selections(f)) /\ IsSum(h, Selections(h))
    BY <2>1, SelectionsAdds, Zenon
  <2>5. IsSum(h, Selections(f) + 1)
    BY <2>1, <2>2, <2>3, <2>4, SumPlus, Zenon
  <2>6. QED
    BY <2>1, <2>4, <2>5, SumUnique, SumType, Zenon DEF h
<1>4. QED
  BY <1>1, <1>2, <1>3, Zenon

\* Weights that add up to zero, and of which none is below -p, are bounded above too.
LEMMA SumBound ==
  ASSUME NEW w \in [Backend -> Int], IsSum(w, 0), NEW p \in Nat, \A b \in Backend : w[b] >= -p,
         NEW b \in Backend
  PROVE  w[b] <= (NumBackends - 1) * p
<1> DEFINE q == [a \in Backend |-> p]
           g == [a \in Backend |-> w[a] + p]
           h == [a \in Backend |-> IF a = b THEN w[b] + p ELSE 0]
<1>1. w[b] \in Int /\ w[b] + p \in Int /\ w[b] + p >= 0 /\ p \in Int
  OBVIOUS
<1>2. /\ q \in [Backend -> Int] /\ g \in [Backend -> Int] /\ h \in [Backend -> Int]
      /\ \A a \in Backend : g[a] = w[a] + q[a] /\ h[a] <= g[a]
  BY <1>1
<1>3. IsSum(q, NumBackends * p) /\ IsSum(h, w[b] + p)
  BY <1>1, SumOfSame, SumOfOne, Zenon
<1> HIDE DEF q, g, h
<1>4. IsSum(g, 0 + NumBackends * p)
  BY <1>2, <1>3, SumPlus, Zenon
<1>5. w[b] + p <= 0 + NumBackends * p
  BY <1>2, <1>3, <1>4, SumOrder, Zenon
<1>6. (NumBackends - 1) * p = NumBackends * p - p /\ NumBackends * p \in Int
  BY CallsAssumption
<1>7. QED
  BY <1>1, <1>5, <1>6

\* Weights whose debts and credits cancel, and with no debt above the total weight.
Steady(w) ==
  w \in [Backend -> Int] /\ IsSum(w, 0) /\ \A b \in Backend : w[b] >= -TotalWeight(Backend)

\* The total weight of a list is at most that of all backends.
LEMMA TotalOrder ==
  ASSUME NEW m \in Nat, Fit(m), NEW S \in SUBSET Backend
  PROVE  /\ TotalWeight(S) \in Nat /\ TotalWeight(Backend) \in Nat
         /\ TotalWeight(S) <= TotalWeight(Backend)
         /\ TotalWeight(Backend) <= NumBackends * m
         /\ NumBackends * TotalWeight(Backend) <= NumBackends * (NumBackends * m)
         /\ NumBackends * (NumBackends * m) <= MaxInt32
<1>1. Backend \in SUBSET Backend
  BY Zenon
<1>2. /\ WeightsOn(S) \in [Backend -> Int] /\ WeightsOn(Backend) \in [Backend -> Int]
      /\ \A b \in Backend : WeightsOn(S)[b] <= WeightsOn(Backend)[b]
  BY WeightsPositive DEF WeightsOn
<1>3. /\ IsSum(WeightsOn(S), TotalWeight(S)) /\ IsSum(WeightsOn(Backend), TotalWeight(Backend))
      /\ TotalWeight(S) \in 0 .. NumBackends * m
      /\ TotalWeight(Backend) \in 0 .. NumBackends * m
  BY <1>1, TotalAdds, Zenon
<1>4. TotalWeight(S) <= TotalWeight(Backend)
  BY <1>2, <1>3, SumOrder, Zenon
<1>5. ASSUME NEW t \in Nat, NEW n \in Nat, t <= n PROVE NumBackends * t <= NumBackends * n
  <2>1. NumBackends * (n - t) >= 0 /\ NumBackends * (n - t) = NumBackends * n - NumBackends * t
    BY <1>5, CallsAssumption
  <2>2. NumBackends * n \in Int /\ NumBackends * t \in Int
    BY CallsAssumption
  <2>3. QED
    BY <2>1, <2>2
<1>6. /\ TotalWeight(S) \in Nat /\ TotalWeight(Backend) \in Nat
      /\ TotalWeight(Backend) <= NumBackends * m
  BY <1>3, Multiples
<1>7. QED
  BY <1>4, <1>5, <1>6, Multiples, Zenon DEF Fit

\* With steady weights no sum of the selection wraps.
LEMMA RaisedFits ==
  ASSUME NEW m \in Nat, Fit(m), Steady(currentWeights), NEW S \in SUBSET Backend
  PROVE  /\ Raised(S) \in [Backend -> Int] /\ Valid(S) = S
         /\ IsSum(Raised(S), TotalWeight(S))
         /\ \A b \in Backend : /\ Raised(S)[b] = currentWeights[b] + WeightsOn(S)[b]
                               /\ Raised(S)[b] <= MaxInt32
<1> DEFINE T == TotalWeight(Backend)
<1>1. /\ T \in Nat /\ T <= NumBackends * m /\ NumBackends * T <= NumBackends * (NumBackends * m)
      /\ NumBackends * (NumBackends * m) <= MaxInt32
      /\ NumBackends * m \in Nat /\ NumBackends * (NumBackends * m) \in Nat
      /\ NumBackends * T \in Nat /\ MaxInt32 \in Nat
  BY TotalOrder, Multiples, WeightAssumption, Zenon
<1>2. \A b \in Backend : weights[b] <= T /\ weights[b] \in Nat
  <2>1. Backend \in SUBSET Backend
    BY Zenon
  <2>2. QED
    BY <2>1, TotalAdds, WeightsPositive, Zenon
<1> HIDE DEF T
<1>3. ASSUME NEW b \in Backend
      PROVE  /\ currentWeights[b] \in Int /\ currentWeights[b] >= -(NumBackends * m)
             /\ currentWeights[b] + weights[b] <= NumBackends * (NumBackends * m)
             /\ currentWeights[b] <= MaxInt32 /\ currentWeights[b] + weights[b] <= MaxInt32
  <2>1. /\ currentWeights[b] \in Int /\ currentWeights[b] >= -T
        /\ currentWeights[b] <= (NumBackends - 1) * T
    <3>1. /\ currentWeights \in [Backend -> Int] /\ IsSum(currentWeights, 0)
          /\ \A a \in Backend : currentWeights[a] >= -T
      BY Zenon DEF Steady, T
    <3>2. QED
      BY <1>1, <3>1, SumBound, Zenon
  <2>2. (NumBackends - 1) * T + T = NumBackends * T /\ (NumBackends - 1) * T \in Int
    BY <1>1, CallsAssumption
  <2>3. weights[b] <= T /\ weights[b] \in Nat
    BY <1>2, Zenon
  <2> DEFINE p == (NumBackends - 1) * T
             q == NumBackends * T
             z == NumBackends * m
             r == NumBackends * (NumBackends * m)
  <2>4. /\ currentWeights[b] \in Int /\ weights[b] \in Nat /\ T \in Nat /\ p \in Int /\ q \in Nat
        /\ r \in Nat /\ z \in Nat /\ currentWeights[b] >= -T /\ currentWeights[b] <= p
        /\ weights[b] <= T /\ p + T = q /\ q <= r /\ T <= z /\ r <= MaxInt32 /\ MaxInt32 \in Nat
    BY <1>1, <2>1, <2>2, <2>3, Zenon
  <2> HIDE DEF p, q, r, z
  <2>5. /\ currentWeights[b] >= -z /\ currentWeights[b] + weights[b] <= r
        /\ currentWeights[b] <= MaxInt32 /\ currentWeights[b] + weights[b] <= MaxInt32
    BY <2>4
  <2>6. QED
    BY <2>4, <2>5, Zenon DEF r, z
<1>4. Valid(S) = S
  <2>1. \A b \in S : weights[b] <= MaxInt32
    <3>1. ASSUME NEW b \in S PROVE weights[b] <= MaxInt32
      <4>1. /\ weights[b] \in Nat /\ m <= NumBackends * m
            /\ NumBackends * m <= NumBackends * (NumBackends * m) /\ weights[b] <= m
        BY <1>2, Multiples, Zenon DEF Fit
      <4>2. QED
        BY <1>1, <4>1
    <3>2. QED
      BY <3>1, Zenon
  <2>2. QED
    BY <2>1, Zenon DEF Valid
<1>5. ASSUME NEW b \in Backend
      PROVE  Raised(S)[b] = currentWeights[b] + WeightsOn(S)[b] /\ Raised(S)[b] \in Int
             /\ Raised(S)[b] <= MaxInt32
  <2>1. CASE b \in S
    <3>1. Raised(S)[b] = Int32(currentWeights[b] + Clip(currentWeights[b], weights[b]))
      BY <1>4, <2>1, Zenon DEF Raised
    <3>2. Raised(S)[b] = currentWeights[b] + weights[b]
      BY <1>3, <3>1, SumFits, Zenon
    <3>3. WeightsOn(S)[b] = weights[b] /\ currentWeights[b] + weights[b] \in Int
      BY <1>2, <1>3, <2>1 DEF WeightsOn
    <3>4. QED
      BY <1>3, <3>2, <3>3, Zenon
  <2>2. CASE b \notin S
    <3>1. Raised(S)[b] = currentWeights[b] /\ WeightsOn(S)[b] = 0
      BY <1>4, <2>2, Zenon DEF Raised, WeightsOn
    <3>2. QED
      BY <1>3, <3>1
  <2>3. QED
    BY <2>1, <2>2, Zenon
<1>6. Raised(S) \in [Backend -> Int]
  <2>1. Raised(S) = [b \in Backend |-> Raised(S)[b]]
    BY Zenon DEF Raised
  <2>2. QED
    BY <1>5, <2>1, Zenon
<1>7. IsSum(Raised(S), TotalWeight(S))
  <2>1. IsSum(WeightsOn(S), TotalWeight(S)) /\ IsSum(currentWeights, 0)
    BY TotalAdds, Zenon DEF Steady
  <2>2. WeightsOn(S) \in [Backend -> Int] /\ currentWeights \in [Backend -> Int]
    BY WeightsPositive DEF WeightsOn, Steady
  <2>3. IsSum(Raised(S), 0 + TotalWeight(S))
    BY <1>5, <2>1, <2>2, SumPlus, Zenon
  <2>4. 0 + TotalWeight(S) = TotalWeight(S)
    BY TotalOrder
  <2>5. QED
    BY <2>3, <2>4, Zenon
<1>8. QED
  BY <1>4, <1>5, <1>6, <1>7, Zenon

\* What a selection of b from S does to the weights w.
Pays(w, w1, b, S) ==
  /\ w1 \in [Backend -> Int]
  /\ \A a \in Backend :
       w1[a] = (w[a] + WeightsOn(S)[a]) - (IF a = b THEN TotalWeight(S) ELSE 0)
  /\ w1[b] >= -TotalWeight(S)

\* selectByWeight with steady weights: everybody on the list is paid the own weight
\* and the selected backend pays the total, without any overflow.
LEMMA SelectionPays ==
  ASSUME NEW m \in Nat, Fit(m), Steady(currentWeights), NEW S \in SUBSET Backend,
         NEW b \in Best(S)
  PROVE  Pays(currentWeights, [Raised(S) EXCEPT ![b] = Int32(@ - TotalWeight(S))], b, S)
<1> DEFINE T == TotalWeight(S)
           R == Raised(S)
           w1 == [R EXCEPT ![b] = Int32(@ - T)]
<1>1. /\ R \in [Backend -> Int] /\ R[b] > -1 /\ b \in Backend
      /\ \A a \in Backend : R[a] = currentWeights[a] + WeightsOn(S)[a] /\ R[a] <= MaxInt32
  BY RaisedFits, Zenon DEF Best, Valid
<1>2. T \in Nat /\ T <= MaxInt32 /\ MaxInt32 \in Nat
  <2>1. /\ T <= TotalWeight(Backend) /\ TotalWeight(Backend) <= NumBackends * m
        /\ T \in Nat /\ TotalWeight(Backend) \in Nat /\ NumBackends * (NumBackends * m) <= MaxInt32
        /\ NumBackends * m <= NumBackends * (NumBackends * m) /\ NumBackends * m \in Nat
        /\ NumBackends * (NumBackends * m) \in Nat /\ MaxInt32 \in Nat
    BY TotalOrder, Multiples, WeightAssumption, Zenon
  <2> HIDE DEF T
  <2>2. QED
    BY <2>1
<1> HIDE DEF T, R
<1>3. R[b] - T \in -MaxInt32 - 1 .. MaxInt32 /\ R[b] - T \in Int /\ R[b] - T >= -T
  BY <1>1, <1>2
<1>4. Int32(R[b] - T) = R[b] - T
  BY <1>3, Int32Small, Zenon
<1>5. w1 = [R EXCEPT ![b] = R[b] - T]
  BY <1>4, Zenon
<1>6. w1 \in [Backend -> Int]
  BY <1>1, <1>3, <1>5, Zenon
<1>7. w1[b] = R[b] - T /\ \A a \in Backend : a # b => w1[a] = R[a]
  BY <1>1, <1>5, Zenon
<1>8. \A a \in Backend : R[a] - 0 = R[a]
  BY <1>1
<1>9. \A a \in Backend : w1[a] = R[a] - (IF a = b THEN T ELSE 0)
  BY <1>7, <1>8, Zenon
<1>10. \A a \in Backend :
         w1[a] = (currentWeights[a] + WeightsOn(S)[a]) - (IF a = b THEN T ELSE 0)
  BY <1>1, <1>9, Zenon
<1> HIDE DEF w1
<1>11. w1[b] >= -T
  BY <1>3, <1>7, Zenon
<1>12. Pays(currentWeights, w1, b, S)
  BY <1>6, <1>10, <1>11, Zenon DEF Pays, T
<1>13. QED
  BY <1>12, Zenon DEF T, R, w1

\* Such a selection keeps the weights steady.
LEMMA PayingIsSteady ==
  ASSUME NEW m \in Nat, Fit(m), NEW w, Steady(w), NEW S \in SUBSET Backend, NEW b \in Backend,
         NEW w1, Pays(w, w1, b, S)
  PROVE  Steady(w1) /\ \A a \in Backend : a # b => w1[a] >= w[a]
<1> DEFINE T == TotalWeight(S)
           f == WeightsOn(S)
           g == [a \in Backend |-> IF a = b THEN -T ELSE 0]
           h == [a \in Backend |-> w[a] + f[a]]
<1>1. T \in Nat /\ -T \in Int /\ TotalWeight(Backend) \in Nat /\ T <= TotalWeight(Backend)
  <2>1. T \in Nat /\ TotalWeight(Backend) \in Nat /\ T <= TotalWeight(Backend)
    BY TotalOrder, Zenon
  <2> HIDE DEF T
  <2>2. QED
    BY <2>1
<1>2. f \in [Backend -> Nat] /\ IsSum(f, T)
  <2>1. \A a \in Backend : (IF a \in S THEN weights[a] ELSE 0) \in Nat
    BY WeightsPositive
  <2>2. QED
    BY <2>1, TotalAdds, Zenon DEF WeightsOn
<1>3. w \in [Backend -> Int] /\ IsSum(w, 0) /\ \A a \in Backend : w[a] >= -TotalWeight(Backend)
  BY Zenon DEF Steady
<1>4. /\ w1 \in [Backend -> Int] /\ w1[b] >= -T
      /\ \A a \in Backend : w1[a] = (w[a] + f[a]) - (IF a = b THEN T ELSE 0)
  BY Zenon DEF Pays
<1>5. IsSum(g, -T)
  BY <1>1, SumOfOne, Zenon
<1> HIDE DEF T, f
<1>6. /\ g \in [Backend -> Int] /\ h \in [Backend -> Int] /\ f \in [Backend -> Int]
      /\ \A a \in Backend : h[a] = w[a] + f[a] /\ w1[a] = h[a] + g[a]
  BY <1>1, <1>2, <1>3, <1>4
<1>7. \A a \in Backend : a # b => w1[a] >= w[a]
  BY <1>2, <1>3, <1>4
<1>8. \A a \in Backend : w1[a] >= -TotalWeight(Backend)
  BY <1>1, <1>3, <1>4, <1>7
<1> HIDE DEF g, h
<1>9. IsSum(h, 0 + T)
  BY <1>2, <1>3, <1>6, SumPlus, Zenon
<1>10. IsSum(w1, (0 + T) + (-T)) /\ (0 + T) + (-T) = 0
  <2>1. IsSum(w1, (0 + T) + (-T))
    BY <1>5, <1>6, <1>9, SumPlus, Zenon
  <2>2. QED
    BY <1>1, <2>1
<1>11. QED
  BY <1>4, <1>7, <1>8, <1>10, Zenon DEF Steady

\* selectByWeight finds a backend when those off the list have no credit: the raised
\* weights of the list add up to the total, so that one of them is positive.
LEMMA BestExists ==
  ASSUME NEW m \in Nat, Fit(m), Steady(currentWeights), NEW S \in SUBSET Backend, S # {},
         \A b \in Backend : b \notin S => currentWeights[b] = 0
  PROVE  Best(S) # {}
<1> DEFINE R == Raised(S)
           V == {MaxInt32 - R[b] : b \in S}
<1>1. /\ R \in [Backend -> Int] /\ Valid(S) = S /\ IsSum(R, TotalWeight(S)) /\ MaxInt32 \in Nat
      /\ \A b \in Backend : R[b] = currentWeights[b] + WeightsOn(S)[b] /\ R[b] <= MaxInt32
  BY RaisedFits, WeightAssumption, Zenon
<1>2. TotalWeight(S) > 0
  <2>1. PICK b \in S : TRUE
    BY Zenon
  <2>2. weights[b] <= TotalWeight(S) /\ TotalWeight(S) \in Nat
    BY <2>1, TotalAdds, TotalOrder, Zenon
  <2>3. QED
    BY <2>2, WeightsPositive
<1> HIDE DEF R
<1>3. PICK p \in Backend : R[p] > 0
  BY <1>1, <1>2, SumPositive, Zenon
<1>4. p \in S
  <2>1. SUFFICES ASSUME p \notin S PROVE FALSE
    BY Zenon
  <2>2. R[p] = 0 + 0
    BY <1>1, <2>1, Zenon DEF WeightsOn
  <2>3. QED
    BY <1>3, <2>2
<1>5. V \subseteq Nat /\ V # {}
  BY <1>1
<1>6. PICK v \in V : \A a \in V : v <= a
  <2> HIDE DEF V
  <2>1. QED
    BY <1>5, LeastExists, Zenon
<1>7. PICK t \in S : v = MaxInt32 - R[t]
  BY Zenon
<1>8. ASSUME NEW a \in S PROVE R[a] <= R[t]
  <2>1. v <= MaxInt32 - R[a]
    BY <1>6, Zenon
  <2>2. QED
    BY <1>1, <1>7, <2>1
<1> DEFINE E == {a \in S : R[a] = R[t]}
<1>9. E \subseteq Nat /\ E # {}
  <2>1. Backend \subseteq Nat
    BY Indices
  <2>2. QED
    BY <2>1, Zenon
<1>10. PICK e \in E : \A a \in E : e <= a
  <2> HIDE DEF E
  <2>1. QED
    BY <1>9, LeastExists, Zenon
<1>11. e \in S /\ R[e] = R[t]
  BY Zenon
<1>12. R[e] > -1
  BY <1>1, <1>3, <1>4, <1>8, <1>11
<1>13. ASSUME NEW a \in S PROVE R[a] < R[e] \/ (R[a] = R[e] /\ e <= a)
  <2>1. CASE R[a] = R[t]
    BY <1>10, <1>11, <2>1, Zenon
  <2>2. CASE R[a] # R[t]
    BY <1>1, <1>8, <1>11, <2>2
  <2>3. QED
    BY <2>1, <2>2, Zenon
<1>14. e \in Best(S)
  BY <1>1, <1>11, <1>12, <1>13, Zenon DEF Best, R
<1>15. QED
  BY <1>14, Zenon

OwedIn(sv, b, S) == Selections(sv) * weights[b] - sv[b] * TotalWeight(S)

\* What holds in a round over S, with sv selections so far, that began with weights bg.
RoundInv(w, bg, sv, pn, S) ==
  /\ w \in [Backend -> Int] /\ bg \in [Backend -> Int] /\ sv \in [Backend -> Nat] /\ pn \in Nat
  /\ pn = 0 \/ bg = NoneServed =>
       /\ Steady(w)
       /\ \A b \in S : OwedIn(sv, b, S) = w[b] - bg[b]
       /\ \A b \in S : sv[b] > 0 => w[b] >= -TotalWeight(S)
  /\ bg = NoneServed =>
       \A b \in Backend : (b \notin S => w[b] = 0) /\ w[b] >= -TotalWeight(S)

\* A new round begins in the invariant, whatever the list is.
LEMMA RoundBegins ==
  ASSUME NEW m \in Nat, Fit(m), NEW w \in [Backend -> Int], NEW pn \in Nat, pn = 0 => Steady(w),
         NEW S \in SUBSET Backend
  PROVE  RoundInv(w, w, NoneServed, pn, S)
<1>1. /\ NoneServed \in [Backend -> Nat] /\ NoneServed \in [Backend -> Int]
      /\ \A b \in Backend : NoneServed[b] = 0
  BY DEF NoneServed
<1>2. /\ TotalWeight(S) \in Nat /\ TotalWeight(Backend) \in Nat /\ weights \in [Backend -> Nat]
      /\ Selections(NoneServed) = 0 /\ IsSum(NoneServed, 0)
  BY TotalOrder, WeightsPositive, SelectionsCount, Zenon
<1>3. \A b \in Backend : NoneServed[b] >= -TotalWeight(S) /\ NoneServed[b] >= -TotalWeight(Backend)
  BY <1>1, <1>2
<1>4. Steady(NoneServed)
  BY <1>1, <1>2, <1>3, Zenon DEF Steady
<1>5. \A b \in Backend : 0 * weights[b] - 0 * TotalWeight(S) = w[b] - w[b]
  BY <1>2
<1>6. \A b \in S : OwedIn(NoneServed, b, S) = w[b] - w[b] /\ ~(NoneServed[b] > 0)
  <2>1. ~(0 > 0)
    OBVIOUS
  <2>2. QED
    BY <1>1, <1>2, <1>5, <2>1, Zenon DEF OwedIn
<1>7. QED
  BY <1>1, <1>3, <1>4, <1>6, Zenon DEF RoundInv

\* A selection from the list of the round goes on with it.
LEMMA RoundGoesOn ==
  ASSUME NEW m \in Nat, Fit(m), NEW w, NEW bg, NEW sv, NEW pn, NEW S \in SUBSET Backend,
         RoundInv(w, bg, sv, pn, S), pn = 0 \/ bg = NoneServed, NEW b \in S,
         NEW w1, Pays(w, w1, b, S)
  PROVE  RoundInv(w1, bg, [sv EXCEPT ![b] = @ + 1], pn, S)
<1> DEFINE next == [sv EXCEPT ![b] = @ + 1]
           T == TotalWeight(S)
           n == Selections(sv)
<1>1. /\ w \in [Backend -> Int] /\ bg \in [Backend -> Int] /\ sv \in [Backend -> Nat] /\ pn \in Nat
      /\ Steady(w) /\ w1 \in [Backend -> Int] /\ b \in Backend
  BY Zenon DEF RoundInv, Pays
<1>2. /\ Steady(w1) /\ \A a \in Backend : a # b => w1[a] >= w[a]
  BY <1>1, PayingIsSteady, Zenon
<1>3. T \in Nat /\ n \in Int /\ Selections(next) = n + 1
  BY <1>1, TotalOrder, SelectionsCount, Zenon
<1>4. /\ next \in [Backend -> Nat] /\ next[b] = sv[b] + 1
      /\ \A a \in Backend : a # b => next[a] = sv[a]
  BY <1>1
<1>5. \A a \in Backend : w1[a] = (w[a] + WeightsOn(S)[a]) - (IF a = b THEN T ELSE 0)
  BY Zenon DEF Pays
<1>6. w1[b] >= -T
  BY Zenon DEF Pays
<1>7. \A a \in S : n * weights[a] - sv[a] * T = w[a] - bg[a] /\ (sv[a] > 0 => w[a] >= -T)
  BY Zenon DEF RoundInv, OwedIn
<1>8. bg = NoneServed => \A a \in Backend : (a \notin S => w[a] = 0) /\ w[a] >= -T
  BY Zenon DEF RoundInv
<1> HIDE DEF next, T, n
<1>9. ASSUME NEW a \in S
      PROVE  Selections(next) * weights[a] - next[a] * T = w1[a] - bg[a]
  <2>1. a \in Backend /\ weights[a] \in Nat /\ WeightsOn(S)[a] = weights[a] /\ sv[a] \in Nat
        /\ w[a] \in Int /\ bg[a] \in Int
    BY <1>1, WeightsPositive, Zenon DEF WeightsOn
  <2>2. /\ (n + 1) * weights[a] = n * weights[a] + weights[a]
        /\ (sv[a] + 1) * T = sv[a] * T + T
        /\ n * weights[a] \in Int /\ sv[a] * T \in Int
    BY <1>3, <2>1
  <2>3. n * weights[a] - sv[a] * T = w[a] - bg[a]
    BY <1>7, Zenon
  <2> DEFINE x == n * weights[a]
             y == sv[a] * T
             x1 == (n + 1) * weights[a]
             y1 == (sv[a] + 1) * T
  <2>4. /\ x \in Int /\ y \in Int /\ x1 = x + weights[a] /\ y1 = y + T /\ x - y = w[a] - bg[a]
    BY <2>2, <2>3, Zenon
  <2>5. CASE a = b
    <3>1. w1[a] = (w[a] + weights[a]) - T
      BY <1>5, <2>1, <2>5, Zenon
    <3>2. x1 - y1 = w1[a] - bg[a]
      <4> HIDE DEF x, y, x1, y1
      <4>1. QED
        BY <1>3, <2>1, <2>4, <3>1
    <3>3. QED
      BY <1>3, <1>4, <2>5, <3>2, Zenon
  <2>6. CASE a # b
    <3>1. w1[a] = (w[a] + weights[a]) - 0
      BY <1>5, <2>1, <2>6, Zenon
    <3>2. x1 - y = w1[a] - bg[a]
      <4> HIDE DEF x, y, x1, y1
      <4>1. QED
        BY <1>3, <2>1, <2>4, <3>1
    <3>3. QED
      BY <1>3, <1>4, <2>1, <2>6, <3>2, Zenon
  <2>7. QED
    BY <2>5, <2>6, Zenon
<1>10. ASSUME NEW a \in S, next[a] > 0 PROVE w1[a] >= -T
  <2>1. CASE a = b
    BY <1>6, <2>1, Zenon
  <2>2. CASE a # b
    <3>1. w[a] >= -T /\ w1[a] >= w[a]
      BY <1>2, <1>4, <1>7, <1>10, <2>2, Zenon
    <3>2. QED
      BY <1>1, <1>3, <3>1
  <2>3. QED
    BY <2>1, <2>2, Zenon
<1>11. ASSUME bg = NoneServed, NEW a \in Backend
       PROVE  (a \notin S => w1[a] = 0) /\ w1[a] >= -T
  <2>1. w[a] >= -T /\ (a \notin S => w[a] = 0)
    BY <1>8, <1>11, Zenon
  <2>2. w1[a] >= -T
    <3>1. a # b => w1[a] >= w[a]
      BY <1>2, Zenon
    <3>2. QED
      BY <1>1, <1>3, <1>6, <2>1, <3>1
  <2>3. ASSUME a \notin S PROVE w1[a] = 0
    <3>1. w1[a] = (0 + 0) - 0
      BY <1>5, <2>1, <2>3, Zenon DEF WeightsOn
    <3>2. QED
      BY <3>1
  <2>4. QED
    BY <2>2, <2>3, Zenon
<1>12. RoundInv(w1, bg, next, pn, S)
  BY <1>1, <1>2, <1>4, <1>9, <1>10, <1>11, Zenon DEF RoundInv, OwedIn, T
<1>13. QED
  BY <1>12, Zenon DEF next

\* The inductive invariant of the weighted round-robin balancer.
WRRInv ==
  CallsInv /\ RoundInv(currentWeights, began, served, panics, Candidates(state))

WRRPromise ==
  LB!Next \/ PanicAside({c \in Caller : ~Fresh \/ cand[c] # Candidates(state)})

\* The lists that a selection can be from are lists of backends.
LEMMA WRRLists ==
  ASSUME WRRInv
  PROVE  /\ state \in [Backend -> BackendStates]
         /\ Candidates(state) \in SUBSET Backend
         /\ \A c \in Caller : cand[c] \in SUBSET Backend
<1>1. state \in [Backend -> BackendStates] /\ \A c \in Caller : cand[c] \in SUBSET Backend
  BY Zenon DEF WRRInv, CallsInv, CallsTypeOK
<1>2. Candidates(state) \in SUBSET Backend
  BY <1>1, OffersBackends, Zenon DEF Candidates
<1>3. QED
  BY <1>1, <1>2, Zenon

\* A wrapped sum is a number.
LEMMA Int32Type ==
  ASSUME NEW n \in Int
  PROVE  Int32(n) \in Int
<1>1. 2 * MaxInt32 + 2 \in Nat \ {0} /\ n + MaxInt32 + 1 \in Int
  BY WeightAssumption
<1>2. \A a \in Int, k \in Nat \ {0} : a % k \in Int
  OBVIOUS
<1>3. (n + MaxInt32 + 1) % (2 * MaxInt32 + 2) \in Int
  BY <1>1, <1>2, Zenon
<1>4. QED
  BY <1>3, WeightAssumption DEF Int32

\* The raised weights are numbers, overflow or not.
LEMMA RaisedType ==
  ASSUME currentWeights \in [Backend -> Int], NEW S \in SUBSET Backend
  PROVE  Raised(S) \in [Backend -> Int] /\ Best(S) \subseteq S
<1>1. weights \in [Backend -> Nat]
  BY WeightsPositive, Zenon
<1>2. \A n \in Int : Int32(n) \in Int
  BY Int32Type, Zenon
<1>3. \A b \in Backend : currentWeights[b] + Clip(currentWeights[b], weights[b]) \in Int
  BY <1>1 DEF Clip, DefaultBackendWeight
<1>4. Raised(S) \in [Backend -> Int]
  BY <1>2, <1>3, Zenon DEF Raised
<1>5. QED
  BY <1>4, Zenon DEF Best, Valid

\* Steps that leave the weights, the round and the states alone keep the round.
LEMMA RoundKept ==
  ASSUME WRRInv, UNCHANGED <<currentWeights, historyVars>>, UNCHANGED state
  PROVE  RoundInv(currentWeights, began, served, panics, Candidates(state))'
BY Zenon DEF WRRInv, historyVars

\* A selection of b goes on with the round, or ends it.
LEMMA SelectionKeepsRound ==
  ASSUME NEW m \in Nat, Fit(m), WRRInv, NEW c \in Caller, NEW b \in Best(cand[c]),
         currentWeights' = [Raised(cand[c]) EXCEPT ![b] = Int32(@ - TotalWeight(cand[c]))],
         Count(c, b), UNCHANGED panics, UNCHANGED state
  PROVE  RoundInv(currentWeights, began, served, panics, Candidates(state))'
<1> DEFINE S == Candidates(state)
           C == cand[c]
           next == [served EXCEPT ![b] = @ + 1]
<1>1. /\ S \in SUBSET Backend /\ C \in SUBSET Backend
      /\ RoundInv(currentWeights, began, served, panics, S)
  BY WRRLists, Zenon DEF WRRInv
<1>2. /\ currentWeights \in [Backend -> Int] /\ began \in [Backend -> Int]
      /\ served \in [Backend -> Nat] /\ panics \in Nat
  BY <1>1, Zenon DEF RoundInv
<1>3. Raised(C) \in [Backend -> Int] /\ b \in C /\ b \in Backend
  BY <1>1, <1>2, RaisedType, Zenon
<1>4. next \in [Backend -> Nat]
  <2>1. served[b] + 1 \in Nat
    BY <1>2, <1>3
  <2>2. QED
    BY <1>2, <2>1, Zenon
<1>5. currentWeights' \in [Backend -> Int]
  <2>1. Int32(Raised(C)[b] - TotalWeight(C)) \in Int
    <3>1. Raised(C)[b] - TotalWeight(C) \in Int
      <4>1. Raised(C)[b] \in Int /\ TotalWeight(C) \in Nat
        BY <1>1, <1>3, TotalOrder, Zenon
      <4> HIDE DEF C
      <4>2. QED
        BY <4>1
    <3>2. QED
      BY <3>1, Int32Type, Zenon
  <2>2. QED
    BY <1>3, <2>1, Zenon
<1>6. ASSUME Steady(currentWeights)
      PROVE  Pays(currentWeights, currentWeights', b, C) /\ Steady(currentWeights')
  <2>1. Pays(currentWeights, currentWeights', b, C)
    BY <1>1, <1>6, SelectionPays, Zenon
  <2>2. QED
    BY <1>1, <1>3, <1>6, <2>1, PayingIsSteady, Zenon
<1>7. panics = 0 \/ began = NoneServed => Steady(currentWeights)
  BY <1>1, Zenon DEF RoundInv
<1>8. CASE NewRound
  <2>1. RoundInv(currentWeights', currentWeights', NoneServed, panics, S)
    BY <1>1, <1>2, <1>5, <1>6, <1>7, RoundBegins, Zenon
  <2>2. QED
    BY <1>8, <2>1, Zenon DEF NewRound
<1>9. CASE ~NewRound
  <2>1. C = S /\ served' = next /\ began' = began
    BY <1>9, Zenon DEF Count
  <2>2. CASE panics = 0 \/ began = NoneServed
    <3>1. RoundInv(currentWeights', began, next, panics, S)
      <4>1. Pays(currentWeights, currentWeights', b, S) /\ b \in S
        BY <1>3, <1>6, <1>7, <2>1, <2>2, Zenon
      <4> HIDE DEF S
      <4>2. QED
        BY <1>1, <2>2, <4>1, RoundGoesOn, Zenon
    <3>2. QED
      BY <2>1, <3>1, Zenon
  <2>3. CASE ~(panics = 0 \/ began = NoneServed)
    <3>1. RoundInv(currentWeights', began, next, panics, S)
      BY <1>2, <1>4, <1>5, <2>3, Zenon DEF RoundInv
    <3>2. QED
      BY <2>1, <3>1, Zenon
  <2>4. QED
    BY <2>2, <2>3, Zenon
<1>10. QED
  BY <1>8, <1>9, Zenon

\* Every step of the weighted balancer keeps the invariant and is a step of the
\* promise, a panic of a call whose list is not that of the round or in a round that
\* began with debts, or the call after one.
LEMMA WRRStep ==
  ASSUME NEW m \in Nat, Fit(m), WRRInv, [WRRNext]_wrrVars
  PROVE  WRRInv' /\ [WRRPromise]_(LB!vars)
<1>1. ASSUME NEW c \in Caller, WRREnter(c) PROVE WRRInv' /\ WRRPromise
  <2>1. CallsInv' /\ (pc[c] # "panicked" => LB!Call(c)) /\ UNCHANGED state
    BY <1>1, CallNextStep, Zenon DEF WRRInv, WRREnter, CallNext
  <2>2. pc'[c] # "panicked"
    BY <1>1, Zenon DEF WRREnter, CallNext, Goto, WRRInv, CallsInv, CallsTypeOK
  <2>3. WRRInv'
    BY <1>1, <2>1, RoundKept, Zenon DEF WRRInv, WRREnter
  <2>4. QED
    BY <2>1, <2>2, <2>3, Zenon DEF WRRPromise, LB!Next, PanicAside
<1>2. ASSUME NEW c \in Caller, WRRCheckClosed(c)
      PROVE  WRRInv' /\ (WRRPromise \/ UNCHANGED LB!vars)
  <2>1. CallsInv' /\ (LB!Fail(c) \/ UNCHANGED LB!vars) /\ UNCHANGED state
    BY <1>2, ClosedCheckStep, Zenon DEF WRRInv, WRRCheckClosed, ClosedCheck, EndCall
  <2>2. WRRInv'
    BY <1>2, <2>1, RoundKept, Zenon DEF WRRInv, WRRCheckClosed
  <2>3. QED
    BY <2>1, <2>2, Zenon DEF WRRPromise, LB!Next
<1>3. ASSUME NEW c \in Caller, WRRGetHealthyBackendIndices(c)
      PROVE  WRRInv' /\ UNCHANGED LB!vars
  <2>1. CallsInv' /\ UNCHANGED LB!vars /\ UNCHANGED state
    BY <1>3, HealthyReadStep, Zenon DEF WRRInv, WRRGetHealthyBackendIndices, HealthyRead
  <2>2. QED
    BY <1>3, <2>1, RoundKept, Zenon DEF WRRInv, WRRGetHealthyBackendIndices
<1>4. ASSUME NEW c \in Caller, WRRGetFallbackBackendIndices(c)
      PROVE  WRRInv' /\ (WRRPromise \/ UNCHANGED LB!vars)
  <2>1. CallsInv' /\ (LB!Fail(c) \/ UNCHANGED LB!vars) /\ UNCHANGED state
    BY <1>4, FallbackReadStep, Zenon
       DEF WRRInv, WRRGetFallbackBackendIndices, FallbackRead, EndCall
  <2>2. WRRInv'
    BY <1>4, <2>1, RoundKept, Zenon DEF WRRInv, WRRGetFallbackBackendIndices
  <2>3. QED
    BY <2>1, <2>2, Zenon DEF WRRPromise, LB!Next
<1>5. ASSUME NEW c \in Caller, WRRSelectSingle(c) PROVE WRRInv' /\ WRRPromise
  <2>1. PICK b \in cand[c] : Return(c, b)
    BY <1>5, Zenon DEF WRRSelectSingle
  <2>2. CallsInv' /\ LB!Answer(c) /\ UNCHANGED state
    BY <1>5, <2>1, ReturnStep, Zenon DEF WRRInv, WRRSelectSingle, Return, EndCall
  <2>3. WRRInv'
    BY <1>5, <2>2, RoundKept, Zenon DEF WRRInv, WRRSelectSingle
  <2>4. QED
    BY <2>2, <2>3, Zenon DEF WRRPromise, LB!Next
<1>6. ASSUME NEW c \in Caller, SelectByWeight(c) PROVE WRRInv' /\ WRRPromise
  <2>1. /\ cand[c] \in SUBSET Backend /\ Candidates(state) \in SUBSET Backend
        /\ RoundInv(currentWeights, began, served, panics, Candidates(state))
        /\ currentWeights \in [Backend -> Int] /\ panics \in Nat /\ pc[c] = "pick"
    BY <1>6, WRRLists, Zenon DEF WRRInv, RoundInv, SelectByWeight
  <2>2. ASSUME NEW b \in Best(cand[c]), Return(c, b), Count(c, b), UNCHANGED panics,
               currentWeights' = [Raised(cand[c]) EXCEPT ![b] = Int32(@ - TotalWeight(cand[c]))]
        PROVE  WRRInv' /\ WRRPromise
    <3>1. b \in cand[c]
      BY <2>1, RaisedType, Zenon
    <3>2. CallsInv' /\ LB!Answer(c) /\ UNCHANGED state
      BY <2>1, <2>2, <3>1, ReturnStep, Zenon DEF WRRInv, Return, EndCall
    <3>3. RoundInv(currentWeights, began, served, panics, Candidates(state))'
      BY <2>2, <3>2, SelectionKeepsRound, Zenon
    <3>4. QED
      BY <3>2, <3>3, Zenon DEF WRRInv, WRRPromise, LB!Next
  <2>3. ASSUME Best(cand[c]) = {}, currentWeights' = Raised(cand[c]), Panic(c),
               panics' = panics + 1, NewRound
        PROVE  WRRInv' /\ WRRPromise
    <3>1. CallsInv' /\ pc[c] # "panicked" /\ pc'[c] = "panicked" /\ UNCHANGED state
      BY <2>1, <2>3, PanicStep, Zenon DEF WRRInv, Panic, EndCall
    <3>2. panics' \in Nat /\ panics' # 0
      BY <2>1, <2>3
    <3>3. currentWeights' \in [Backend -> Int]
      BY <2>1, <2>3, RaisedType, Zenon
    <3>4. RoundInv(currentWeights', currentWeights', NoneServed, panics', Candidates(state))
      BY <2>1, <3>2, <3>3, RoundBegins, Zenon
    <3>5. WRRInv'
      BY <2>3, <3>1, <3>4, Zenon DEF WRRInv, NewRound
    <3>6. ~Fresh \/ cand[c] # Candidates(state)
      <4>1. SUFFICES ASSUME Fresh, cand[c] = Candidates(state) PROVE FALSE
        BY Zenon
      <4>2. /\ Steady(currentWeights)
            /\ \A b \in Backend : b \notin cand[c] => currentWeights[b] = 0
        BY <2>1, <4>1, Zenon DEF RoundInv, Fresh
      <4>3. cand[c] # {}
        BY <2>1, Zenon DEF WRRInv, CallsInv
      <4>4. QED
        BY <2>1, <2>3, <4>2, <4>3, BestExists, Zenon
    <3>7. QED
      BY <3>1, <3>5, <3>6, Zenon DEF WRRPromise, PanicAside
  <2>4. QED
    BY <1>6, <2>2, <2>3, Zenon DEF SelectByWeight
<1>7. ASSUME NEW c \in Caller, WRRReportResult(c) PROVE WRRInv' /\ WRRPromise
  <2>1. CallsInv' /\ LB!Report(c) /\ UNCHANGED state
    BY <1>7, ReportedStep, Zenon DEF WRRInv, WRRReportResult, Reported
  <2>2. WRRInv'
    BY <1>7, <2>1, RoundKept, Zenon DEF WRRInv, WRRReportResult
  <2>3. QED
    BY <2>1, <2>2, Zenon DEF WRRPromise, LB!Next
<1>8. ASSUME NEW b \in Backend, NEW s \in BackendStates, WRRUpdateBackendState(Url[b], s)
      PROVE  WRRInv' /\ WRRPromise
  <2>1. CallsInv' /\ LB!UpdateState(FirstWith(Url[b]), s)
    BY <1>8, StateUpdateStep, Zenon DEF WRRInv, WRRUpdateBackendState
  <2>2. Candidates(state') \in SUBSET Backend
    <3>1. state' \in [Backend -> BackendStates]
      BY <2>1, Zenon DEF CallsInv, CallsTypeOK
    <3>2. QED
      BY <3>1, OffersBackends, Zenon DEF Candidates
  <2>3. currentWeights \in [Backend -> Int] /\ panics \in Nat
        /\ (panics = 0 => Steady(currentWeights))
    BY Zenon DEF WRRInv, RoundInv
  <2>4. RoundInv(currentWeights, currentWeights, NoneServed, panics, Candidates(state'))
    BY <2>2, <2>3, RoundBegins, Zenon
  <2>5. WRRInv'
    BY <1>8, <2>1, <2>4, Zenon DEF WRRInv, WRRUpdateBackendState, NewRound
  <2>6. QED
    BY <2>1, <2>5, FirstWithIsBackend, SameStates, Zenon DEF WRRPromise, LB!Next
<1>9. ASSUME WRRClose PROVE WRRInv' /\ WRRPromise
  <2>1. CallsInv' /\ LB!Close /\ UNCHANGED state
    BY <1>9, CloseCallsStep, Zenon DEF WRRInv, WRRClose, CloseCalls
  <2>2. WRRInv'
    BY <1>9, <2>1, RoundKept, Zenon DEF WRRInv, WRRClose
  <2>3. QED
    BY <2>1, <2>2, Zenon DEF WRRPromise, LB!Next
<1>10. ASSUME UNCHANGED wrrVars PROVE WRRInv' /\ UNCHANGED LB!vars
  <2>1. UNCHANGED callVars /\ UNCHANGED <<currentWeights, historyVars>> /\ UNCHANGED state
    BY <1>10, Zenon DEF wrrVars, callVars
  <2>2. CallsInv' /\ UNCHANGED LB!vars
    BY <2>1, CallsStutter, Zenon DEF WRRInv
  <2>3. QED
    BY <2>1, <2>2, RoundKept, Zenon DEF WRRInv
<1>11. QED
  BY <1>1, <1>2, <1>3, <1>4, <1>5, <1>6, <1>7, <1>8, <1>9, <1>10, Zenon DEF WRRNext

\* The weighted balancer starts in a state of the invariant.
LEMMA WRRInitInv ==
  ASSUME NEW m \in Nat, Fit(m), WRRInit
  PROVE  WRRInv
<1>1. CallsInv
  BY CallsInitInv, Zenon DEF WRRInit
<1>2. Candidates(state) \in SUBSET Backend
  BY <1>1, OffersBackends, Zenon DEF CallsInv, CallsTypeOK, Candidates
<1>3. 0 \in Nat /\ NoneServed \in [Backend -> Int]
  BY DEF NoneServed
<1>4. Steady(NoneServed)
  <2>1. \A b \in Backend : NoneServed[b] >= -TotalWeight(Backend)
    <3>1. TotalWeight(Backend) \in Nat
      BY <1>2, TotalOrder, Zenon
    <3>2. QED
      BY <3>1 DEF NoneServed
  <2>2. QED
    BY <1>3, <2>1, SelectionsCount, Zenon DEF Steady
<1>5. RoundInv(NoneServed, NoneServed, NoneServed, 0, Candidates(state))
  BY <1>2, <1>3, <1>4, RoundBegins, Zenon
<1>6. QED
  BY <1>1, <1>5, Zenon DEF WRRInit, WRRInv

\* In a state of the invariant the shares are proportional: what a backend is owed
\* is its current weight less the one it began with, and weights that cancel out
\* and are bounded below are bounded above.
LEMMA SharesFromRound ==
  ASSUME NEW m \in Nat, Fit(m), WRRInv
  PROVE  ProportionalShare
<1> DEFINE S == Candidates(state)
           U == IF Fresh THEN S ELSE Backend
<1>1. /\ S \in SUBSET Backend /\ U \in SUBSET Backend
      /\ RoundInv(currentWeights, began, served, panics, S)
  BY WRRLists, Zenon DEF WRRInv
<1> SUFFICES ASSUME NEW b \in S, panics = 0 \/ Fresh
             PROVE  /\ served[b] > 0 => Owed(b) + began[b] >= -TotalWeight(S)
                    /\ Owed(b) + began[b] <= (NumBackends - 1) * TotalWeight(U)
  BY Zenon DEF ProportionalShare
<1>2. /\ currentWeights \in [Backend -> Int] /\ began \in [Backend -> Int]
      /\ Steady(currentWeights) /\ IsSum(currentWeights, 0) /\ b \in Backend
  BY <1>1, Zenon DEF RoundInv, Fresh, Steady
<1>3. OwedIn(served, b, S) = currentWeights[b] - began[b]
  BY <1>1, Zenon DEF RoundInv, Fresh
<1>4. Owed(b) = currentWeights[b] - began[b]
  BY <1>3, Zenon DEF Owed, OwedIn
<1>5. Owed(b) + began[b] = currentWeights[b]
  BY <1>2, <1>4
<1>6. served[b] > 0 => currentWeights[b] >= -TotalWeight(S)
  BY <1>1, Zenon DEF RoundInv, Fresh
<1>7. \A a \in Backend : currentWeights[a] >= -TotalWeight(U)
  BY <1>1, <1>2, Zenon DEF RoundInv, Fresh, Steady
<1>8. TotalWeight(U) \in Nat
  BY <1>1, TotalOrder, Zenon
<1> HIDE DEF U
<1>9. currentWeights[b] <= (NumBackends - 1) * TotalWeight(U)
  BY <1>2, <1>7, <1>8, SumBound, Zenon
<1>10. QED
  BY <1>5, <1>6, <1>9, Zenon

\* NextBackend of the weighted balancer keeps the promise of LoadBalancer, for any
\* number of backends and callers and any weights whose sums fit into an int32; it
\* panics only with a list that is not that of the round, or with debts left from
\* other rounds.
THEOREM WRRRefinement ==
  ASSUME WeightsFit
  PROVE  WRRSpec => WRRImplementsLoadBalancer
<1>1. PICK m \in Nat : Fit(m)
  BY LargestWeight, Zenon
<1>2. WRRInit => LB!Init
  BY Zenon DEF WRRInit, CallsInit, LB!Init, Phase, InCall
<1>3. WRRInit => WRRInv
  BY <1>1, WRRInitInv, Zenon
<1>4. WRRInv /\ [WRRNext]_wrrVars
        => /\ WRRInv'
           /\ [\/ LB!Next
               \/ PanicAside({c \in Caller : ~Fresh \/ cand[c] # Candidates(state)})]_(LB!vars)
  BY <1>1, WRRStep, Zenon DEF WRRPromise
<1>5. QED
  BY <1>2, <1>3, <1>4, PTL DEF WRRSpec, WRRImplementsLoadBalancer

\* The weighted balancer selects in proportion to the weights, for any number of
\* backends and any weights whose sums fit into an int32.
THEOREM SharesAreProportional ==
  ASSUME WeightsFit
  PROVE  WRRSpec => []ProportionalShare
<1>1. PICK m \in Nat : Fit(m)
  BY LargestWeight, Zenon
<1>2. WRRInit => WRRInv
  BY <1>1, WRRInitInv, Zenon
<1>3. WRRInv /\ [WRRNext]_wrrVars => WRRInv'
  BY <1>1, WRRStep, Zenon
<1>4. WRRInv => ProportionalShare
  BY <1>1, SharesFromRound, Zenon
<1>5. QED
  BY <1>2, <1>3, <1>4, PTL DEF WRRSpec
=============================================================================
