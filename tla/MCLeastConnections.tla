------------------------- MODULE MCLeastConnections -------------------------
(* Three backends and two callers: two callers are needed to race, three     *)
(* backends for a choice that changes while a list read earlier is in use.   *)
EXTENDS LeastConnections, TLC

DistinctUrls == [b \in Backend |-> b]

CallerSymmetry == Permutations(Caller)
=============================================================================
