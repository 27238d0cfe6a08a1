--------------------------- MODULE MCStateStorage ---------------------------
(***************************************************************************)
(* Two keys, two nodes, two clients and two watchers, both of which watch  *)
(* k1 and are on node n1.                                                  *)
(***************************************************************************)
EXTENDS StateStorage, TLC

CONSTANTS c1, c2, k1, k2, w1, w2, n1, n2

MCPrefixOf == w1 :> {k1} @@ w2 :> {k1}
MCHostOf == w1 :> n1 @@ w2 :> n1
StorageSymmetry == Permutations({w1, w2}) \cup Permutations({c1, c2})
============================================================================
