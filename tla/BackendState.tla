---------------------------- MODULE BackendState ----------------------------
EXTENDS Naturals

(* domain.BackendState and its two availability predicates.                 *)

BackendStates == {"healthy", "unhealthy", "rate-limited", "maintenance"}

IsAvailable(s) == s = "healthy"

IsAvailableWithFallback(s) == s \in {"healthy", "rate-limited"}

\* The backends of a state function that a balancer may offer.
HealthyIn(st) == {b \in DOMAIN st : IsAvailable(st[b])}

FallbackIn(st) ==
  {b \in DOMAIN st : IsAvailableWithFallback(st[b]) /\ ~IsAvailable(st[b])}

AvailableIn(st) == HealthyIn(st) \cup FallbackIn(st)

\* How well off a state function is: 2 when a backend is healthy, 1 when only
\* rate-limited backends are left, 0 when there is nothing to offer.
Level(st) == IF HealthyIn(st) # {} THEN 2
             ELSE IF FallbackIn(st) # {} THEN 1 ELSE 0

Lower(m, n) == IF m < n THEN m ELSE n
=============================================================================
