-------------------------- MODULE MCEnhancedService --------------------------
EXTENDS EnhancedService, TLC

ServiceSymmetry == Permutations(Client) \cup Permutations(Backend)
=============================================================================
