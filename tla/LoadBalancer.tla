---------------------------- MODULE LoadBalancer ----------------------------
(* What domain.LoadBalancer promises to its callers, whatever the strategy.  *)
(*                                                                           *)
(* A call of NextBackend is open from the moment it is made until it         *)
(* answers.  It may answer with any backend that was available (healthy or   *)
(* rate-limited) at some moment while the call was open, and it may fail     *)
(* only if no backend was healthy, or the balancer was closed, at some       *)
(* moment while it was open.  It answers in no other way: a call that        *)
(* panics is not a behaviour of this specification.                          *)
EXTENDS BackendState

CONSTANTS Backend, Caller, NoBackend

VARIABLES
  state,    \* state[b]: the state the balancer holds for backend b
  closed,   \* the balancer has been closed
  phase,    \* phase[c]: "idle", "open", "held" or "failed"
  got,      \* got[c]: the backend the caller holds, or NoBackend
  avail,    \* avail[c]: backends available at some moment of the open call
  low       \* low[c]: the lowest Level of the open or failed call, 2 otherwise

vars == <<state, closed, phase, got, avail, low>>

Init ==
  /\ state = [b \in Backend |-> "healthy"]
  /\ closed = FALSE
  /\ phase = [c \in Caller |-> "idle"]
  /\ got = [c \in Caller |-> NoBackend]
  /\ avail = [c \in Caller |-> {}]
  /\ low = [c \in Caller |-> 2]

Call(c) ==
  /\ phase[c] \in {"idle", "failed"}
  /\ phase' = [phase EXCEPT ![c] = "open"]
  /\ avail' = [avail EXCEPT ![c] = AvailableIn(state)]
  /\ low' = [low EXCEPT ![c] = IF closed THEN 0 ELSE Level(state)]
  /\ UNCHANGED <<state, closed, got>>

Answer(c) ==
  /\ phase[c] = "open"
  /\ \E b \in avail[c] : got' = [got EXCEPT ![c] = b]
  /\ phase' = [phase EXCEPT ![c] = "held"]
  /\ avail' = [avail EXCEPT ![c] = {}]
  /\ low' = [low EXCEPT ![c] = 2]
  /\ UNCHANGED <<state, closed>>

Fail(c) ==
  /\ phase[c] = "open"
  /\ low[c] < 2
  /\ phase' = [phase EXCEPT ![c] = "failed"]
  /\ avail' = [avail EXCEPT ![c] = {}]
  /\ UNCHANGED <<state, closed, got, low>>

Report(c) ==
  /\ phase[c] = "held"
  /\ phase' = [phase EXCEPT ![c] = "idle"]
  /\ got' = [got EXCEPT ![c] = NoBackend]
  /\ UNCHANGED <<state, closed, avail, low>>

UpdateState(b, s) ==
  /\ state' = [state EXCEPT ![b] = s]
  /\ avail' = [c \in Caller |-> IF phase[c] = "open"
                                THEN avail[c] \cup AvailableIn(state')
                                ELSE avail[c]]
  /\ low' = [c \in Caller |-> IF phase[c] = "open"
                              THEN Lower(low[c], Level(state')) ELSE low[c]]
  /\ UNCHANGED <<closed, phase, got>>

Close ==
  /\ closed' = TRUE
  /\ low' = [c \in Caller |-> IF phase[c] = "open" THEN 0 ELSE low[c]]
  /\ UNCHANGED <<state, phase, got, avail>>

Next ==
  \/ \E c \in Caller : Call(c) \/ Answer(c) \/ Fail(c) \/ Report(c)
  \/ \E b \in Backend, s \in BackendStates : UpdateState(b, s)
  \/ Close

Spec == Init /\ [][Next]_vars
=============================================================================
