--------------------------- MODULE BalancerCalls ---------------------------
(* The control that the three balancers share, statement for statement: a    *)
(* call of NextBackend checks closed, reads the healthy backends under one   *)
(* read lock and, if there are none, the rate-limited ones under another,    *)
(* and then selects among the backends it read.  Between any two of these    *)
(* steps other callers, UpdateBackendState and Close may run.                *)
(*                                                                           *)
(* Each strategy's module conjoins these actions with what it does to its    *)
(* own counters.  avail and low are history variables: no action reads them. *)
EXTENDS BackendState, Integers

CONSTANTS
  NumBackends,   \* how many backends are configured
  Url,           \* Url[b]: the URL of backend b; updates and reports use URLs
  Caller         \* the goroutines that call the balancer

Backend == 1 .. NumBackends

NoBackend == 0

ASSUME CallsAssumption ==
  /\ NumBackends \in Nat \ {0}
  /\ Url \in [Backend -> Backend]

VARIABLES state, closed, pc, cand, got, avail, low

callVars == <<state, closed, pc, cand, got, avail, low>>

InCall == {"called", "healthy", "fallback", "pick"}

CallsTypeOK ==
  /\ state \in [Backend -> BackendStates]
  /\ closed \in BOOLEAN
  /\ pc \in [Caller -> InCall \cup {"idle", "held", "failed", "panicked"}]
  /\ cand \in [Caller -> SUBSET Backend]
  /\ got \in [Caller -> Backend \cup {NoBackend}]
  /\ avail \in [Caller -> SUBSET Backend]
  /\ low \in [Caller -> 0 .. 2]

CallsInit ==
  /\ state = [b \in Backend |-> "healthy"]
  /\ closed = FALSE
  /\ pc = [c \in Caller |-> "idle"]
  /\ cand = [c \in Caller |-> {}]
  /\ got = [c \in Caller |-> NoBackend]
  /\ avail = [c \in Caller |-> {}]
  /\ low = [c \in Caller |-> 2]

\* The loops over backends stop at the first entry with the URL.
FirstWith(u) == CHOOSE b \in Backend : /\ Url[b] = u
                                       /\ \A a \in Backend : Url[a] = u => b <= a

\* What NextBackend selects from after reading the backend list twice.
Candidates(st) == IF HealthyIn(st) # {} THEN HealthyIn(st) ELSE FallbackIn(st)

Goto(c, label) == pc' = [pc EXCEPT ![c] = label]

CallNext(c) ==
  /\ pc[c] \in {"idle", "failed", "panicked"}
  /\ Goto(c, "called")
  /\ avail' = [avail EXCEPT ![c] = AvailableIn(state)]
  /\ low' = [low EXCEPT ![c] = IF closed THEN 0 ELSE Level(state)]
  /\ UNCHANGED <<state, closed, cand, got>>

EndCall(c, label) ==
  /\ Goto(c, label)
  /\ avail' = [avail EXCEPT ![c] = {}]
  /\ cand' = [cand EXCEPT ![c] = {}]
  /\ low' = [low EXCEPT ![c] = IF label = "held" THEN 2 ELSE @]
  /\ UNCHANGED <<state, closed>>

ClosedCheck(c) ==
  /\ pc[c] = "called"
  /\ \/ closed /\ EndCall(c, "failed")
     \/ ~closed /\ Goto(c, "healthy") /\ UNCHANGED <<state, closed, cand, avail, low>>
  /\ UNCHANGED got

HealthyRead(c) ==
  /\ pc[c] = "healthy"
  /\ cand' = [cand EXCEPT ![c] = HealthyIn(state)]
  /\ Goto(c, IF HealthyIn(state) = {} THEN "fallback" ELSE "pick")
  /\ UNCHANGED <<state, closed, got, avail, low>>

\* Mutant: the fallback does not look at IsAvailableWithFallback.
FallbackReadAny(c) ==
  /\ pc[c] = "fallback"
  /\ cand' = [cand EXCEPT ![c] = {b \in Backend : ~IsAvailable(state[b])}]
  /\ Goto(c, "pick")
  /\ UNCHANGED <<state, closed, got, avail, low>>

FallbackRead(c) ==
  /\ pc[c] = "fallback"
  /\ \/ /\ FallbackIn(state) = {}
        /\ EndCall(c, "failed")
     \/ /\ FallbackIn(state) # {}
        /\ cand' = [cand EXCEPT ![c] = FallbackIn(state)]
        /\ Goto(c, "pick")
        /\ UNCHANGED <<state, closed, avail, low>>
  /\ UNCHANGED got

\* NextBackend returns backend b, or panics on an index out of range.
Return(c, b) == EndCall(c, "held") /\ got' = [got EXCEPT ![c] = b]

Panic(c) == EndCall(c, "panicked") /\ UNCHANGED got

Reported(c) ==
  /\ pc[c] = "held"
  /\ Goto(c, "idle")
  /\ got' = [got EXCEPT ![c] = NoBackend]
  /\ UNCHANGED <<state, closed, cand, avail, low>>

StateUpdate(u, s) ==
  /\ state' = [state EXCEPT ![FirstWith(u)] = s]
  /\ avail' = [c \in Caller |-> IF pc[c] \in InCall
                                THEN avail[c] \cup AvailableIn(state')
                                ELSE avail[c]]
  /\ low' = [c \in Caller |-> IF pc[c] \in InCall
                              THEN Lower(low[c], Level(state')) ELSE low[c]]
  /\ UNCHANGED <<closed, pc, cand, got>>

CloseCalls ==
  /\ closed' = TRUE
  /\ low' = [c \in Caller |-> IF pc[c] \in InCall THEN 0 ELSE low[c]]
  /\ UNCHANGED <<state, pc, cand, got, avail>>

\* What holds between the history of an open call and where the call is: it
\* selects from backends that were available while it was open, it looks for
\* rate-limited ones only after a moment without a healthy one, and once the
\* balancer is closed it may fail.
CallsInv ==
  /\ CallsTypeOK
  /\ \A c \in Caller :
       /\ got[c] # NoBackend <=> pc[c] = "held"
       /\ pc[c] = "pick" => cand[c] # {} /\ cand[c] \subseteq avail[c]
       /\ pc[c] = "fallback" => low[c] < 2
       /\ pc[c] \in InCall => /\ AvailableIn(state) \subseteq avail[c]
                              /\ low[c] <= Level(state)
                              /\ closed => low[c] = 0

\* The promise of domain.LoadBalancer, with the steps inside a call hidden.
Phase == [c \in Caller |-> IF pc[c] \in InCall THEN "open" ELSE pc[c]]

LB == INSTANCE LoadBalancer WITH phase <- Phase

\* A call of one of these callers panics, or a caller makes another one after that.
PanicAside(may) ==
  \/ \E c \in may : pc[c] # "panicked" /\ pc'[c] = "panicked"
  \/ \E c \in Caller : pc[c] = "panicked" /\ pc'[c] # "panicked"
=============================================================================
