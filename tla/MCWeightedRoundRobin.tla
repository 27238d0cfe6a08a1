------------------------ MODULE MCWeightedRoundRobin ------------------------
EXTENDS WeightedRoundRobin, TLC

DistinctUrls == [b \in Backend |-> b]

\* Weights with which losing the heaviest backend leaves only debts behind.
Weights115 == <<1, 1, 5>>
=============================================================================
