---------------------------- MODULE MCRoundRobin ----------------------------
EXTENDS RoundRobin, TLC

DistinctUrls == [b \in Backend |-> b]

CallerSymmetry == Permutations(Caller)
=============================================================================
