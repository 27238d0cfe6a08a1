------------------------------ MODULE MCCluster -----------------------------
(***************************************************************************)
(* The two halves of cluster formation for model checking, one at a time:  *)
(* how the nodes find each other and bootstrap (Discovery) and how those   *)
(* that have found each other keep the Raft configuration (Membership).    *)
(***************************************************************************)
EXTENDS Membership, Discovery

CONSTANT h1

\* Each way to discover three nodes, with one of them joining the others by hand as well
\* or not, and being stopped or not, and each way to bootstrap.
Setting(p, c, joiners, leavers) ==
  [provider |-> p, config |-> c, manual |-> joiners, stoppable |-> leavers]
MCSettings ==
  {Setting("static", "expect", {}, {}), Setting("static", "expect", {h1}, {}),
   Setting("names", "expect", {}, {h1}), Setting("mdns", "expect", {}, {h1}),
   Setting("static", "peers", {h1}, {h1}), Setting("names", "single", {}, {})}

VARIABLE part    \* the half that is checked; the other one stands still

clusterVars == <<part, vars, discoveryVars>>

ClusterInit ==
  /\ part \in {"members", "discovery"}
  /\ Init /\ DiscoveryInit
  /\ part = "members" => config = "single"

ClusterNext ==
  \/ part = "members" /\ Next /\ UNCHANGED <<part, discoveryVars>>
  \/ part = "discovery" /\ DiscoveryNext /\ UNCHANGED <<part, vars>>

\* With the fairness of Spec and of DiscoverySpec for the half that is checked.
ClusterSpec ==
  /\ ClusterInit /\ [][ClusterNext]_clusterVars
  /\ \A n \in Servers : /\ WF_vars(part = "members" /\ checkLeadershipChange(n))
                        /\ WF_vars(part = "members" /\ ProcessPendingPeers(n))
                        /\ WF_vars(part = "members" /\ ProcessNext(n))
  /\ \A n \in Hosts : WF_discoveryVars(part = "discovery" /\ DiscoveryStep(n))
=============================================================================
