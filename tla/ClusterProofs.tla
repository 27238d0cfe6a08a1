--------------------------- MODULE ClusterProofs ---------------------------
(***************************************************************************)
(* The members of a cluster, for any nodes and guests, any gossip and any  *)
(* leaders: only peers that have left are removed from the configuration,  *)
(* and never the leader; whoever a leader has heard of is dealt with, or   *)
(* is on its list; no node bootstraps twice.                               *)
(***************************************************************************)
EXTENDS Membership, Discovery, TLAPS

\* The peer has left, now or earlier.
Gone(p) == p \notin live \/ p \in returned

\* A node that is not being stopped is there, so that nobody it sees leave is the node
\* itself; and whoever is to be removed has left.
GoneInv ==
  /\ \A n \in Servers : n \in live \/ n \in shutdownFlag
  /\ leaving \in [Servers -> All \cup {None}]
  /\ pendingRemovals \in [Servers -> SUBSET All]
  /\ \A n \in Servers : leaving[n] # None => Gone(leaving[n]) /\ leaving[n] # n
  /\ \A n \in Servers : \A p \in pendingRemovals[n] : Gone(p) /\ p # n

\* A step of the configuration that the two properties allow.
Sound == voters \subseteq voters' \/ \E p \in All \ {leader} : Gone(p) /\ voters' = voters \ {p}

\* AddVoter removes nobody.
LEMMA AddVoterSound ==
  ASSUME NEW n, NEW p, AddVoter(n, p)
  PROVE  Sound
BY Zenon DEF AddVoter, Sound

\* RemoveServer of a peer that has left and is not the node itself is sound.
LEMMA RemoveServerSound ==
  ASSUME NEW n, NEW p \in All, RemoveServer(n, p), Gone(p), p # n
  PROVE  Sound
<1>1. CASE voters' = voters \ {p} /\ leader = n
  BY <1>1, Zenon DEF Sound
<1>2. CASE voters' = voters
  BY <1>2, Zenon DEF Sound
<1>3. QED
  BY <1>1, <1>2, Zenon DEF RemoveServer

\* addRaftPeer adds the peer or caches it.
LEMMA addRaftPeerSound ==
  ASSUME NEW n, NEW p, addRaftPeer(n, p)
  PROVE  Sound
BY AddVoterSound, Zenon DEF addRaftPeer, Sound

\* What the world outside does: who has left stays somebody who has left.
LEMMA OutsideStep ==
  ASSUME GoneInv, Come \/ Go \/ Elect
  PROVE  GoneInv' /\ Sound
<1>1. CASE Come
  <2>1. \A p : Gone(p) => Gone(p)'
    BY <1>1, Zenon DEF Come, Gone
  <2>2. \A n \in Servers : n \in live' \/ n \in shutdownFlag'
    BY <1>1, Zenon DEF Come, GoneInv
  <2>3. UNCHANGED <<leaving, pendingRemovals, voters>>
    BY <1>1, Zenon DEF Come, delegateVars
  <2>4. QED
    BY <2>1, <2>2, <2>3, Zenon DEF GoneInv, Sound
<1>2. CASE Go
  <2>1. \A p : Gone(p) => Gone(p)'
    BY <1>2, Zenon DEF Go, Gone
  <2>2. \A n \in Servers : n \in live' \/ n \in shutdownFlag'
    BY <1>2, ServersAssumption, Zenon DEF Go, GoneInv
  <2>3. UNCHANGED <<leaving, pendingRemovals, voters>>
    BY <1>2, Zenon DEF Go, delegateVars
  <2>4. QED
    BY <2>1, <2>2, <2>3 DEF GoneInv, Sound
<1>3. CASE Elect
  BY <1>3, Zenon DEF Elect, delegateVars, GoneInv, Gone, Sound
<1>4. QED
  BY <1>1, <1>2, <1>3, Zenon

\* NotifyLeave, the one step that decides whom to remove.
LEMMA NotifyLeaveStep ==
  ASSUME GoneInv, NEW n \in Servers, NEW p \in All, NotifyLeave(n, p)
  PROVE  GoneInv' /\ Sound
<1>1. UNCHANGED <<live, returned, shutdownFlag, pendingRemovals>> /\ p \notin live
  BY Zenon DEF NotifyLeave, envVars, delegateVars
<1>2. \A q : Gone(q)' <=> Gone(q)
  BY <1>1, Zenon DEF Gone
<1>3. CASE n \in shutdownFlag \/ Cardinality(voters) = 2
  BY <1>1, <1>2, <1>3, Zenon DEF NotifyLeave, removeRaftPeer, GoneInv, Sound
<1>4. CASE ~(n \in shutdownFlag \/ Cardinality(voters) = 2)
  <2>1. p # n /\ Gone(p)
    BY <1>1, <1>4, Zenon DEF GoneInv, Gone
  <2>2. CASE leader # n
    <3>1. leaving' = [leaving EXCEPT ![n] = p] /\ voters' = voters
      BY <1>4, <2>2, Zenon DEF NotifyLeave, removeRaftPeer
    <3>2. QED
      BY <1>1, <1>2, <2>1, <3>1, Zenon DEF GoneInv, Sound
  <2>3. CASE leader = n
    <3>1. RemoveServer(n, p) /\ leaving' = leaving
      BY <1>4, <2>3, Zenon DEF NotifyLeave, removeRaftPeer
    <3>2. Sound
      BY <2>1, <3>1, RemoveServerSound, Zenon
    <3>3. QED
      BY <1>1, <1>2, <3>1, <3>2, Zenon DEF GoneInv
  <2>4. QED
    BY <2>2, <2>3, Zenon
<1>5. QED
  BY <1>3, <1>4, Zenon

\* ProcessPendingPeers adds peers and removes those that were cached for it.
LEMMA ProcessStep ==
  ASSUME GoneInv, NEW n \in Servers, ProcessNext(n)
  PROVE  GoneInv' /\ Sound
<1>1. UNCHANGED <<live, returned, shutdownFlag, leaving>>
  BY Zenon DEF ProcessNext, envVars
<1>2. \A q : Gone(q)' <=> Gone(q)
  BY <1>1, Zenon DEF Gone
<1>3. CASE pendingPeers[n] # {}
  BY <1>1, <1>2, <1>3, AddVoterSound, Zenon DEF ProcessNext, GoneInv
<1>4. CASE pendingPeers[n] = {}
  <2>1. PICK p \in pendingRemovals[n] :
          /\ RemoveServer(n, p)
          /\ pendingRemovals' = [pendingRemovals EXCEPT ![n] = @ \ {p}]
    BY <1>4, Zenon DEF ProcessNext
  <2>2. p \in All /\ Gone(p) /\ p # n
    BY <2>1, Zenon DEF GoneInv
  <2>3. Sound
    BY <2>1, <2>2, RemoveServerSound, Zenon
  <2>4. QED
    BY <1>1, <1>2, <2>1, <2>3, Zenon DEF GoneInv
<1>5. QED
  BY <1>3, <1>4, Zenon

\* Every step of a node, one case per handler.
LEMMA NodeStep ==
  ASSUME GoneInv, NEW n \in Servers, Step(n)
  PROVE  GoneInv' /\ Sound
<1>1. ASSUME NEW p \in All, NotifyJoin(n, p) PROVE GoneInv' /\ Sound
  BY <1>1, addRaftPeerSound, Zenon DEF NotifyJoin, envVars, GoneInv, Gone
<1>2. ASSUME NEW p \in All, NotifyLeave(n, p) PROVE GoneInv' /\ Sound
  BY <1>2, NotifyLeaveStep, Zenon
<1>3. CASE CacheRemoval(n)
  <2>1. UNCHANGED <<live, returned, shutdownFlag, voters>>
    BY <1>3, Zenon DEF CacheRemoval, envVars
  <2>2. \A q : Gone(q)' <=> Gone(q)
    BY <2>1, Zenon DEF Gone
  <2>3. QED
    BY <1>3, <2>1, <2>2 DEF CacheRemoval, GoneInv, Sound
<1>4. CASE Join(n)
  BY <1>4, Zenon DEF Join, envVars, delegateVars, GoneInv, Gone, Sound
<1>5. CASE processExistingMembers(n)
  BY <1>5, addRaftPeerSound, Zenon DEF processExistingMembers, envVars, GoneInv, Gone
<1>6. CASE checkLeadershipChange(n)
  BY <1>6, Zenon DEF checkLeadershipChange, envVars, GoneInv, Gone, Sound
<1>7. CASE ProcessPendingPeers(n)
  BY <1>7, Zenon DEF ProcessPendingPeers, envVars, GoneInv, Gone, Sound
<1>8. CASE ProcessNext(n)
  BY <1>8, ProcessStep, Zenon
<1>9. CASE Stop(n)
  <2>1. \A p : Gone(p) => Gone(p)'
    BY <1>9, Zenon DEF Stop, Gone
  <2>2. QED
    BY <1>9, <2>1, Zenon DEF Stop, delegateVars, GoneInv, Sound
<1>10. QED
  BY <1>1, <1>2, <1>3, <1>4, <1>5, <1>6, <1>7, <1>8, <1>9, Zenon DEF Step

\* Every step.
LEMMA GoneStep ==
  ASSUME GoneInv, [Next]_vars
  PROVE  GoneInv' /\ Sound
<1>1. CASE UNCHANGED vars
  BY <1>1, Zenon DEF vars, envVars, delegateVars, GoneInv, Gone, Sound
<1>2. QED
  BY <1>1, OutsideStep, NodeStep, Zenon DEF Next

\* Init establishes the invariant.
LEMMA GoneInit == Init => GoneInv
BY ServersAssumption, Zenon DEF Init, GoneInv, Gone, All

\* Whatever news reaches whom in which order, and whenever the leader changes, a peer
\* that never left is not removed from the configuration, and the leader does not
\* remove itself, also when it is stopped and so sees itself leave.
THEOREM StayersKept == Spec => RemovedOnlyIfLeft
<1>1. GoneInv /\ [Next]_vars => GoneInv'
  BY GoneStep, Zenon
<1>2. GoneInv /\ [Next]_vars
        => [\A p \in voters \ voters' : p # leader /\ (p \notin live \/ p \in returned)]_vars
  BY GoneStep, Zenon DEF Sound, Gone
<1>3. QED
  BY GoneInit, <1>1, <1>2, PTL DEF Spec, RemovedOnlyIfLeft

-----------------------------------------------------------------------------
\* What node n knows and Raft does not, the node still holds: a member that has stayed is
\* a voter or cached, one that has left for good is no voter or its removal is cached or
\* about to be, and a leader with nothing to do holds only peers whose news went astray.
News(n) ==
  /\ started[n] \in Nat
  /\ (members[n] \cap live) \ (returned \cup {n}) \subseteq voters \cup astray \cup pendingPeers[n]
  /\ None \notin left[n] /\ left[n] \cap live \subseteq returned
  /\ n \notin shutdownFlag \cup hung =>
       (left[n] \cap voters) \ (live \cup returned \cup astray)
         \subseteq {leaving[n]} \cup pendingRemovals[n]
  /\ n \in wasLeader \ (working \cup skipped) /\ started[n] = 0 =>
       pendingPeers[n] \cup pendingRemovals[n] \subseteq astray

NewsInv ==
  /\ DOMAIN members = Servers /\ DOMAIN left = Servers /\ DOMAIN leaving = Servers
  /\ DOMAIN pendingPeers = Servers /\ DOMAIN pendingRemovals = Servers
  /\ DOMAIN started = Servers
  /\ \A n \in Servers : News(n)

\* A step of the configuration that leaves a trace of what it did with whom: nobody
\* there is removed, and nobody gone is added, but astray.
Traced ==
  /\ UNCHANGED <<live, returned>> /\ astray \subseteq astray'
  /\ (voters \ voters') \cap live \subseteq astray'
  /\ voters' \ voters \subseteq live \cup astray'

\* The step does nothing to what node m holds.
Same(m) ==
  /\ members'[m] = members[m] /\ left'[m] = left[m] /\ leaving'[m] = leaving[m]
  /\ pendingPeers'[m] = pendingPeers[m] /\ pendingRemovals'[m] = pendingRemovals[m]
  /\ started'[m] = started[m]
  /\ (m \in hung' <=> m \in hung) /\ (m \in working' <=> m \in working)
  /\ (m \in skipped' <=> m \in skipped) /\ (m \in wasLeader' <=> m \in wasLeader)
  /\ (m \in shutdownFlag' <=> m \in shutdownFlag)

\* AddVoter leaves the peer in the configuration, or astray.
LEMMA AddVoterTraced ==
  ASSUME NEW n, NEW p, AddVoter(n, p), UNCHANGED <<live, returned>>
  PROVE  Traced /\ p \in voters' \cup astray'
BY Zenon DEF AddVoter, Traced

\* RemoveServer leaves the peer out of the configuration, or astray.
LEMMA RemoveServerTraced ==
  ASSUME NEW n, NEW p, RemoveServer(n, p), UNCHANGED <<live, returned>>
  PROVE  Traced /\ p \notin voters' \ astray'
BY Zenon DEF RemoveServer, Traced

\* addRaftPeer adds the peer or caches it; a node that takes itself for the leader
\* caches only what goes astray.
LEMMA addRaftPeerTraced ==
  ASSUME NEW n \in Servers, NEW p, addRaftPeer(n, p), UNCHANGED <<live, returned>>,
         DOMAIN pendingPeers = Servers
  PROVE  /\ Traced /\ p \in voters' \cup astray' \cup pendingPeers'[n]
         /\ pendingPeers[n] \subseteq pendingPeers'[n]
         /\ n \in wasLeader => pendingPeers'[n] \subseteq pendingPeers[n] \cup astray'
         /\ DOMAIN pendingPeers' = Servers
         /\ \A m \in Servers \ {n} : pendingPeers'[m] = pendingPeers[m]
<1>1. CASE leader = n
  BY <1>1, AddVoterTraced, Zenon DEF addRaftPeer
<1>2. CASE leader # n
  <2>1. voters' = voters /\ astray \subseteq astray' /\ (n \in wasLeader => p \in astray')
    BY <1>2, Zenon DEF addRaftPeer
  <2>2. Traced
    BY <2>1, Zenon DEF Traced
  <2>3. pendingPeers' = [pendingPeers EXCEPT ![n] = @ \cup {p}]
    BY <1>2, Zenon DEF addRaftPeer
  <2>4. /\ pendingPeers'[n] = pendingPeers[n] \cup {p} /\ DOMAIN pendingPeers' = Servers
        /\ \A m \in Servers \ {n} : pendingPeers'[m] = pendingPeers[m]
    BY <2>3, Zenon
  <2>5. QED
    BY <2>1, <2>2, <2>4, Zenon
<1>3. QED
  BY <1>1, <1>2, Zenon

\* A traced step that does nothing to what a node holds loses no news of it.
LEMMA OthersKeepNews ==
  ASSUME NEW m, News(m), Traced, Same(m)
  PROVE  News(m)'
<1>1. started'[m] \in Nat
  BY Zenon DEF News, Same
<1>2. (members'[m] \cap live') \ (returned' \cup {m})
        \subseteq voters' \cup astray' \cup pendingPeers'[m]
  BY Zenon DEF News, Same, Traced
<1>3. None \notin left'[m] /\ left'[m] \cap live' \subseteq returned'
  BY Zenon DEF News, Same, Traced
<1>4. m \notin shutdownFlag' \cup hung' =>
        (left'[m] \cap voters') \ (live' \cup returned' \cup astray')
          \subseteq {leaving'[m]} \cup pendingRemovals'[m]
  BY Zenon DEF News, Same, Traced
<1>5. m \in wasLeader' \ (working' \cup skipped') /\ started'[m] = 0 =>
        pendingPeers'[m] \cup pendingRemovals'[m] \subseteq astray'
  BY Zenon DEF News, Same, Traced
<1>6. QED
  BY <1>1, <1>2, <1>3, <1>4, <1>5, Zenon DEF News

\* Comings, goings and changes of the leader: whom a node has seen leave and who is
\* there has come back.
LEMMA OutsideKeepsNews ==
  ASSUME NewsInv, Come \/ Go \/ Elect
  PROVE  NewsInv'
<1>1. /\ UNCHANGED <<voters, members, left, leaving, hung, delegateVars, shutdownFlag, wasLeader,
                     skipped, astray>>
      /\ returned \subseteq returned' /\ live' \ live \subseteq returned'
  BY Zenon DEF Come, Go, Elect
<1>2. SUFFICES ASSUME NEW m \in Servers PROVE News(m)'
  BY <1>1, Zenon DEF NewsInv, delegateVars
<1>3. News(m)
  BY Zenon DEF NewsInv
<1>4. (members[m] \cap live') \ (returned' \cup {m}) \subseteq voters \cup astray \cup pendingPeers[m]
  BY <1>1, <1>3, Zenon DEF News
<1>5. left[m] \cap live' \subseteq returned'
  BY <1>1, <1>3, Zenon DEF News
<1>6. m \notin shutdownFlag \cup hung =>
        (left[m] \cap voters) \ (live' \cup returned' \cup astray)
          \subseteq {leaving[m]} \cup pendingRemovals[m]
  BY <1>1, <1>3, Zenon DEF News
<1>7. QED
  BY <1>1, <1>3, <1>4, <1>5, <1>6, Zenon DEF News, delegateVars

\* NotifyJoin: the new member is added or cached.
LEMMA NotifyJoinKeepsNews ==
  ASSUME NewsInv, NEW n \in Servers, NEW p \in All, NotifyJoin(n, p)
  PROVE  NewsInv'
<1>1. /\ UNCHANGED <<live, returned, leaving, hung, pendingRemovals, started, working, shutdownFlag,
                     wasLeader, skipped>>
      /\ p \in live
      /\ members' = [members EXCEPT ![n] = @ \cup {p}] /\ left' = [left EXCEPT ![n] = @ \ {p}]
      /\ addRaftPeer(n, p)
  BY Zenon DEF NotifyJoin, envVars
<1>2. /\ Traced /\ p \in voters' \cup astray' \cup pendingPeers'[n]
      /\ pendingPeers[n] \subseteq pendingPeers'[n]
      /\ n \in wasLeader => pendingPeers'[n] \subseteq pendingPeers[n] \cup astray'
      /\ DOMAIN pendingPeers' = Servers
      /\ \A m \in Servers \ {n} : pendingPeers'[m] = pendingPeers[m]
  BY <1>1, addRaftPeerTraced, Zenon DEF NewsInv
<1>3. /\ DOMAIN members' = Servers /\ DOMAIN left' = Servers
      /\ members'[n] = members[n] \cup {p} /\ left'[n] = left[n] \ {p}
      /\ \A m \in Servers \ {n} : members'[m] = members[m] /\ left'[m] = left[m]
  BY <1>1, Zenon DEF NewsInv
<1>4. ASSUME NEW m \in Servers \ {n} PROVE News(m)'
  <2>1. Same(m)
    BY <1>1, <1>2, <1>3, Zenon DEF Same
  <2>2. QED
    BY <1>2, <2>1, OthersKeepNews, Zenon DEF NewsInv
<1>5. News(n)'
  <2>0. News(n)
    BY Zenon DEF NewsInv
  <2>1. (members'[n] \cap live') \ (returned' \cup {n})
          \subseteq voters' \cup astray' \cup pendingPeers'[n]
    BY <1>1, <1>2, <1>3, <2>0, Zenon DEF News, Traced
  <2>2. None \notin left'[n] /\ left'[n] \cap live' \subseteq returned'
    BY <1>1, <1>3, <2>0, ServersAssumption, Zenon DEF News
  <2>3. n \notin shutdownFlag' \cup hung' =>
          (left'[n] \cap voters') \ (live' \cup returned' \cup astray')
            \subseteq {leaving'[n]} \cup pendingRemovals'[n]
    BY <1>1, <1>2, <1>3, <2>0, Zenon DEF News, Traced
  <2>4. n \in wasLeader' \ (working' \cup skipped') /\ started'[n] = 0 =>
          pendingPeers'[n] \cup pendingRemovals'[n] \subseteq astray'
    BY <1>1, <1>2, <2>0, Zenon DEF News, Traced
  <2>5. QED
    BY <1>1, <2>0, <2>1, <2>2, <2>3, <2>4, Zenon DEF News
<1>6. QED
  BY <1>1, <1>2, <1>3, <1>4, <1>5, Zenon DEF NewsInv

\* NotifyLeave: the member is removed, or its removal is about to be cached, unless
\* the node is stopping or hangs.
LEMMA NotifyLeaveKeepsNews ==
  ASSUME NewsInv, NEW n \in Servers, NEW p \in All, NotifyLeave(n, p)
  PROVE  NewsInv'
<1>1. /\ UNCHANGED <<live, returned, pendingPeers, pendingRemovals, started, working,
                     shutdownFlag, wasLeader, skipped>>
      /\ p \notin live /\ leaving[n] = None
      /\ members' = [members EXCEPT ![n] = @ \ {p}] /\ left' = [left EXCEPT ![n] = @ \cup {p}]
  BY Zenon DEF NotifyLeave, CanNotify, envVars, delegateVars
<1>2. /\ Traced /\ DOMAIN leaving' = Servers
      /\ \A m \in Servers \ {n} : leaving'[m] = leaving[m] /\ (m \in hung' <=> m \in hung)
      /\ hung \subseteq hung'
      /\ n \in shutdownFlag' \cup hung' \/ p \notin voters' \ astray' \/ p = leaving'[n]
  <2>1. CASE n \in shutdownFlag \/ Cardinality(voters) = 2
    BY <1>1, <2>1, Zenon DEF NotifyLeave, removeRaftPeer, Traced, NewsInv
  <2>2. CASE ~(n \in shutdownFlag \/ Cardinality(voters) = 2) /\ leader # n
    BY <1>1, <2>2, Zenon DEF NotifyLeave, removeRaftPeer, Traced, NewsInv
  <2>3. CASE ~(n \in shutdownFlag \/ Cardinality(voters) = 2) /\ leader = n
    <3>1. RemoveServer(n, p) /\ UNCHANGED <<hung, leaving>>
      BY <2>3, Zenon DEF NotifyLeave, removeRaftPeer
    <3>2. QED
      BY <1>1, <3>1, RemoveServerTraced, Zenon DEF NewsInv
  <2>4. QED
    BY <2>1, <2>2, <2>3, Zenon
<1>3. /\ DOMAIN members' = Servers /\ DOMAIN left' = Servers
      /\ members'[n] = members[n] \ {p} /\ left'[n] = left[n] \cup {p}
      /\ \A m \in Servers \ {n} : members'[m] = members[m] /\ left'[m] = left[m]
  BY <1>1, Zenon DEF NewsInv
<1>4. ASSUME NEW m \in Servers \ {n} PROVE News(m)'
  <2>1. Same(m)
    BY <1>1, <1>2, <1>3, Zenon DEF Same
  <2>2. QED
    BY <1>2, <2>1, OthersKeepNews, Zenon DEF NewsInv
<1>5. News(n)'
  <2>0. News(n)
    BY Zenon DEF NewsInv
  <2>1. (members'[n] \cap live') \ (returned' \cup {n})
          \subseteq voters' \cup astray' \cup pendingPeers'[n]
    BY <1>1, <1>2, <1>3, <2>0, Zenon DEF News, Traced
  <2>2. None \notin left'[n] /\ left'[n] \cap live' \subseteq returned'
    BY <1>1, <1>3, <2>0, ServersAssumption, Zenon DEF News
  <2>3. n \notin shutdownFlag' \cup hung' =>
          (left'[n] \cap voters') \ (live' \cup returned' \cup astray')
            \subseteq {leaving'[n]} \cup pendingRemovals'[n]
    <3>1. SUFFICES ASSUME n \notin shutdownFlag' \cup hung', NEW q \in left'[n] \cap voters',
                          q \notin live' \cup returned' \cup astray'
                   PROVE  q = leaving'[n] \/ q \in pendingRemovals'[n]
      BY Zenon
    <3>2. CASE q = p
      BY <1>2, <3>1, <3>2, Zenon
    <3>3. CASE q # p
      <4>1. q \in left[n] \cap voters /\ q \notin live \cup returned \cup astray
        BY <1>1, <1>2, <1>3, <3>1, <3>3, Zenon DEF Traced
      <4>2. q = None \/ q \in pendingRemovals[n]
        BY <1>1, <1>2, <2>0, <3>1, <4>1, Zenon DEF News
      <4>3. q # None
        BY <2>0, <4>1, Zenon DEF News
      <4>4. QED
        BY <1>1, <4>2, <4>3, Zenon
    <3>4. QED
      BY <3>2, <3>3, Zenon
  <2>4. n \in wasLeader' \ (working' \cup skipped') /\ started'[n] = 0 =>
          pendingPeers'[n] \cup pendingRemovals'[n] \subseteq astray'
    BY <1>1, <1>2, <2>0, Zenon DEF News, Traced
  <2>5. QED
    BY <1>1, <2>0, <2>1, <2>2, <2>3, <2>4, Zenon DEF News
<1>6. QED
  BY <1>1, <1>2, <1>3, <1>4, <1>5, Zenon DEF NewsInv

\* handleNonLeaderRemoval: the removal that was about to be cached is.
LEMMA CacheRemovalKeepsNews ==
  ASSUME NewsInv, NEW n \in Servers, CacheRemoval(n)
  PROVE  NewsInv'
<1>1. /\ UNCHANGED <<live, returned, voters, members, left, hung, pendingPeers, started, working,
                     shutdownFlag, wasLeader, skipped>>
      /\ pendingRemovals' = [pendingRemovals EXCEPT ![n] = @ \cup {leaving[n]}]
      /\ leaving' = [leaving EXCEPT ![n] = None]
      /\ astray \subseteq astray' /\ (n \in wasLeader => leaving[n] \in astray')
  BY Zenon DEF CacheRemoval, envVars
<1>2. Traced
  BY <1>1, Zenon DEF Traced
<1>3. /\ DOMAIN pendingRemovals' = Servers /\ DOMAIN leaving' = Servers
      /\ pendingRemovals'[n] = pendingRemovals[n] \cup {leaving[n]}
      /\ \A m \in Servers \ {n} :
           pendingRemovals'[m] = pendingRemovals[m] /\ leaving'[m] = leaving[m]
  BY <1>1, Zenon DEF NewsInv
<1>4. ASSUME NEW m \in Servers \ {n} PROVE News(m)'
  <2>1. Same(m)
    BY <1>1, <1>3, Zenon DEF Same
  <2>2. QED
    BY <1>2, <2>1, OthersKeepNews, Zenon DEF NewsInv
<1>5. News(n)'
  <2>0. News(n)
    BY Zenon DEF NewsInv
  <2>1. n \notin shutdownFlag' \cup hung' =>
          (left'[n] \cap voters') \ (live' \cup returned' \cup astray')
            \subseteq {leaving'[n]} \cup pendingRemovals'[n]
    BY <1>1, <1>3, <2>0, Zenon DEF News
  <2>2. n \in wasLeader' \ (working' \cup skipped') /\ started'[n] = 0 =>
          pendingPeers'[n] \cup pendingRemovals'[n] \subseteq astray'
    BY <1>1, <1>3, <2>0, Zenon DEF News
  <2>3. QED
    BY <1>1, <2>0, <2>1, <2>2, Zenon DEF News
<1>6. QED
  BY <1>1, <1>3, <1>4, <1>5, Zenon DEF NewsInv

\* Join only reads the member list.
LEMMA JoinKeepsNews ==
  ASSUME NewsInv, NEW n \in Servers, Join(n)
  PROVE  NewsInv'
BY Zenon DEF Join, delegateVars, NewsInv, News

\* processExistingMembers: the members it has read are added or cached once more.
LEMMA ExistingKeepNews ==
  ASSUME NewsInv, NEW n \in Servers, processExistingMembers(n)
  PROVE  NewsInv'
<1>1. UNCHANGED <<live, returned, members, left, leaving, hung, pendingRemovals, started, working,
                  shutdownFlag, wasLeader, skipped>>
  BY Zenon DEF processExistingMembers, envVars
<1>2. PICK p \in seen[n] : addRaftPeer(n, p)
  BY Zenon DEF processExistingMembers
<1>3. /\ Traced /\ pendingPeers[n] \subseteq pendingPeers'[n]
      /\ n \in wasLeader => pendingPeers'[n] \subseteq pendingPeers[n] \cup astray'
      /\ DOMAIN pendingPeers' = Servers
      /\ \A m \in Servers \ {n} : pendingPeers'[m] = pendingPeers[m]
  BY <1>1, <1>2, addRaftPeerTraced, Zenon DEF NewsInv
<1>4. ASSUME NEW m \in Servers \ {n} PROVE News(m)'
  <2>1. Same(m)
    BY <1>1, <1>3, Zenon DEF Same
  <2>2. QED
    BY <1>3, <2>1, OthersKeepNews, Zenon DEF NewsInv
<1>5. News(n)'
  <2>0. News(n)
    BY Zenon DEF NewsInv
  <2>1. (members'[n] \cap live') \ (returned' \cup {n})
          \subseteq voters' \cup astray' \cup pendingPeers'[n]
    BY <1>1, <1>3, <2>0, Zenon DEF News, Traced
  <2>2. n \notin shutdownFlag' \cup hung' =>
          (left'[n] \cap voters') \ (live' \cup returned' \cup astray')
            \subseteq {leaving'[n]} \cup pendingRemovals'[n]
    BY <1>1, <1>3, <2>0, Zenon DEF News, Traced
  <2>3. n \in wasLeader' \ (working' \cup skipped') /\ started'[n] = 0 =>
          pendingPeers'[n] \cup pendingRemovals'[n] \subseteq astray'
    BY <1>1, <1>3, <2>0, Zenon DEF News, Traced
  <2>4. QED
    BY <1>1, <2>0, <2>1, <2>2, <2>3, Zenon DEF News
<1>6. QED
  BY <1>1, <1>3, <1>4, <1>5, Zenon DEF NewsInv

\* checkLeadershipChange starts a ProcessPendingPeers when it finds the node leading.
LEMMA LeadershipKeepsNews ==
  ASSUME NewsInv, NEW n \in Servers, checkLeadershipChange(n)
  PROVE  NewsInv'
<1>1. UNCHANGED <<live, returned, voters, members, left, leaving, hung, pendingPeers,
                  pendingRemovals, working, shutdownFlag, skipped, astray>>
  BY Zenon DEF checkLeadershipChange, envVars
<1>2. /\ DOMAIN started' = Servers
      /\ \A m \in Servers \ {n} :
           started'[m] = started[m] /\ (m \in wasLeader' <=> m \in wasLeader)
      /\ started'[n] \in Nat /\ (n \in wasLeader' => started'[n] # 0)
  <2>1. CASE leader = n
    <3>1. /\ wasLeader' = wasLeader \cup {n}
          /\ started' = [started EXCEPT ![n] = started[n] + 1]
      BY <2>1, Zenon DEF checkLeadershipChange
    <3>2. started[n] \in Nat /\ DOMAIN started = Servers
      BY Zenon DEF NewsInv, News
    <3>3. started'[n] = started[n] + 1
      BY <3>1, <3>2, Zenon
    <3>4. started'[n] \in Nat /\ started'[n] # 0
      BY <3>2, <3>3, SMT
    <3>5. QED
      BY <3>1, <3>2, <3>4, Zenon
  <2>2. CASE leader # n
    BY <2>2, Zenon DEF checkLeadershipChange, NewsInv, News
  <2>3. QED
    BY <2>1, <2>2, Zenon
<1>3. ASSUME NEW m \in Servers \ {n} PROVE News(m)'
  BY <1>1, <1>2, Zenon DEF NewsInv, News
<1>4. News(n)'
  BY <1>1, <1>2, Zenon DEF NewsInv, News
<1>5. QED
  BY <1>1, <1>2, <1>3, <1>4, Zenon DEF NewsInv

\* ProcessPendingPeers: it skips the work, finds none, or takes it up.
LEMMA CheckKeepsNews ==
  ASSUME NewsInv, NEW n \in Servers, ProcessPendingPeers(n)
  PROVE  NewsInv'
<1>1. /\ UNCHANGED <<live, returned, voters, members, left, leaving, hung, pendingPeers,
                     pendingRemovals, wasLeader, shutdownFlag, astray>>
      /\ started' = [started EXCEPT ![n] = started[n] - 1] /\ started[n] > 0
  BY Zenon DEF ProcessPendingPeers, envVars
<1>2. /\ \A m \in Servers \ {n} : /\ m \in working' <=> m \in working
                                  /\ m \in skipped' <=> m \in skipped
      /\ n \in working' \cup skipped' \/ pendingPeers[n] \cup pendingRemovals[n] = {}
  BY Zenon DEF ProcessPendingPeers
<1>3. /\ DOMAIN started' = Servers /\ started'[n] = started[n] - 1
      /\ \A m \in Servers \ {n} : started'[m] = started[m]
  BY <1>1, Zenon DEF NewsInv
<1>4. started'[n] \in Nat
  <2>1. started[n] \in Nat
    BY Zenon DEF NewsInv, News
  <2>2. QED
    BY <1>1, <1>3, <2>1, SMT
<1>5. ASSUME NEW m \in Servers \ {n} PROVE News(m)'
  BY <1>1, <1>2, <1>3, Zenon DEF NewsInv, News
<1>6. News(n)'
  BY <1>1, <1>2, <1>4, Zenon DEF NewsInv, News
<1>7. QED
  BY <1>1, <1>3, <1>5, <1>6, Zenon DEF NewsInv

\* ProcessPendingPeers: a peer that is no longer cached has been added or removed, or
\* is astray; when the work ends nothing is cached.
LEMMA WorkKeepsNews ==
  ASSUME NewsInv, NEW n \in Servers, ProcessNext(n)
  PROVE  NewsInv'
<1>1. /\ UNCHANGED <<live, returned, members, left, leaving, hung, started, shutdownFlag,
                     wasLeader, skipped>>
      /\ n \in working
      /\ \A m \in Servers \ {n} : m \in working' <=> m \in working
      /\ n \in working' \/ pendingPeers'[n] \cup pendingRemovals'[n] = {}
  BY Zenon DEF ProcessNext, envVars
<1>2. /\ Traced /\ DOMAIN pendingPeers' = Servers /\ DOMAIN pendingRemovals' = Servers
      /\ \A m \in Servers \ {n} :
           pendingPeers'[m] = pendingPeers[m] /\ pendingRemovals'[m] = pendingRemovals[m]
      /\ pendingPeers[n] \subseteq pendingPeers'[n] \cup voters' \cup astray'
      /\ pendingRemovals[n] \cap voters' \subseteq pendingRemovals'[n] \cup astray'
  <2>1. CASE pendingPeers[n] # {}
    <3>1. PICK p \in pendingPeers[n] :
            /\ AddVoter(n, p)
            /\ pendingPeers' = [pendingPeers EXCEPT ![n] = pendingPeers[n] \ {p}]
            /\ pendingRemovals' = pendingRemovals
      BY <2>1, Zenon DEF ProcessNext
    <3>2. Traced /\ p \in voters' \cup astray'
      BY <1>1, <3>1, AddVoterTraced, Zenon
    <3>3. QED
      BY <3>1, <3>2, Zenon DEF NewsInv
  <2>2. CASE pendingPeers[n] = {}
    <3>1. PICK p \in pendingRemovals[n] :
            /\ RemoveServer(n, p)
            /\ pendingRemovals' = [pendingRemovals EXCEPT ![n] = pendingRemovals[n] \ {p}]
            /\ pendingPeers' = pendingPeers
      BY <2>2, Zenon DEF ProcessNext
    <3>2. Traced /\ p \notin voters' \ astray'
      BY <1>1, <3>1, RemoveServerTraced, Zenon
    <3>3. QED
      BY <3>1, <3>2, Zenon DEF NewsInv
  <2>3. QED
    BY <2>1, <2>2, Zenon
<1>3. ASSUME NEW m \in Servers \ {n} PROVE News(m)'
  <2>1. Same(m)
    BY <1>1, <1>2, Zenon DEF Same
  <2>2. QED
    BY <1>2, <2>1, OthersKeepNews, Zenon DEF NewsInv
<1>4. News(n)'
  <2>0. News(n)
    BY Zenon DEF NewsInv
  <2>1. (members'[n] \cap live') \ (returned' \cup {n})
          \subseteq voters' \cup astray' \cup pendingPeers'[n]
    BY <1>1, <1>2, <2>0, Zenon DEF News, Traced
  <2>2. n \notin shutdownFlag' \cup hung' =>
          (left'[n] \cap voters') \ (live' \cup returned' \cup astray')
            \subseteq {leaving'[n]} \cup pendingRemovals'[n]
    BY <1>1, <1>2, <2>0, Zenon DEF News, Traced
  <2>3. n \in wasLeader' \ (working' \cup skipped') /\ started'[n] = 0 =>
          pendingPeers'[n] \cup pendingRemovals'[n] \subseteq astray'
    BY <1>1, Zenon
  <2>4. QED
    BY <1>1, <2>0, <2>1, <2>2, <2>3, Zenon DEF News
<1>5. QED
  BY <1>1, <1>2, <1>3, <1>4, Zenon DEF NewsInv

\* Stop: the node is gone, and has not been seen to leave before.
LEMMA StopKeepsNews ==
  ASSUME NewsInv, NEW n \in Servers, Stop(n)
  PROVE  NewsInv'
<1>1. /\ UNCHANGED <<returned, voters, members, left, leaving, hung, delegateVars, wasLeader, skipped,
                     astray>>
      /\ n \in live /\ live' = live \ {n} /\ shutdownFlag' = shutdownFlag \cup {n}
  BY Zenon DEF Stop
<1>2. ASSUME NEW m \in Servers PROVE News(m)'
  <2>1. News(m)
    BY Zenon DEF NewsInv
  <2>2. (members[m] \cap live') \ (returned \cup {m}) \subseteq voters \cup astray \cup pendingPeers[m]
    BY <1>1, <2>1, Zenon DEF News
  <2>3. m \notin shutdownFlag' \cup hung =>
          (left[m] \cap voters) \ (live' \cup returned \cup astray)
            \subseteq {leaving[m]} \cup pendingRemovals[m]
    BY <1>1, <2>1, Zenon DEF News
  <2>4. left[m] \cap live' \subseteq returned
    BY <1>1, <2>1, Zenon DEF News
  <2>5. QED
    BY <1>1, <2>1, <2>2, <2>3, <2>4, Zenon DEF News, delegateVars
<1>3. QED
  BY <1>1, <1>2, Zenon DEF NewsInv, delegateVars

\* Whatever the order in which nodes come, go, lead and hear of each other, no news is
\* lost on the way from the gossip to the configuration: a leader that has noticed that
\* it leads and has nothing to do has added who stayed and removed who left for good,
\* unless a call failed, the news was out of date or reached it between two changes of
\* the leader that checkLeadershipChange or ProcessPendingPeers did not see.
THEOREM NewsArrives == Spec => []NoNewsIsLost
<1>1. Init => NewsInv
  <2>1. Init => \A n \in Servers : News(n)
    BY SMT DEF Init, News
  <2>2. QED
    BY <2>1, Zenon DEF Init, NewsInv
<1>2. NewsInv /\ [Next]_vars => NewsInv'
  <2>1. SUFFICES ASSUME NewsInv, [Next]_vars PROVE NewsInv'
    BY Zenon
  <2>2. CASE UNCHANGED vars
    <3>1. Traced /\ \A m \in Servers : Same(m)
      BY <2>2, Zenon DEF vars, envVars, delegateVars, Traced, Same
    <3>2. \A m \in Servers : News(m)'
      BY <2>1, <3>1, OthersKeepNews, Zenon DEF NewsInv
    <3>3. QED
      BY <2>1, <2>2, <3>2, Zenon DEF vars, delegateVars, NewsInv
  <2>3. ASSUME NEW n \in Servers, Step(n) PROVE NewsInv'
    <3>1. ASSUME NEW p \in All, NotifyJoin(n, p) \/ NotifyLeave(n, p) PROVE NewsInv'
      BY <2>1, <3>1, NotifyJoinKeepsNews, NotifyLeaveKeepsNews, Zenon
    <3>2. CASE CacheRemoval(n) \/ Join(n) \/ processExistingMembers(n)
      BY <2>1, <3>2, CacheRemovalKeepsNews, JoinKeepsNews, ExistingKeepNews, Zenon
    <3>3. CASE checkLeadershipChange(n) \/ ProcessPendingPeers(n) \/ ProcessNext(n) \/ Stop(n)
      BY <2>1, <3>3, LeadershipKeepsNews, CheckKeepsNews, WorkKeepsNews, StopKeepsNews,
         Zenon
    <3>4. QED
      BY <2>3, <3>1, <3>2, <3>3, Zenon DEF Step
  <2>4. QED
    BY <2>1, <2>2, <2>3, OutsideKeepsNews, Zenon DEF Next
<1>3. NewsInv => NoNewsIsLost
  <2>1. SUFFICES ASSUME NewsInv, NEW n \in Servers,
                        n \in wasLeader \ (shutdownFlag \cup skipped), started[n] = 0,
                        n \notin hung \cup working, leaving[n] = None
                 PROVE  /\ (members[n] \cap live) \ returned \subseteq voters \cup astray \cup {n}
                        /\ (left[n] \cap voters) \ (live \cup returned) \subseteq astray
    BY Zenon DEF NoNewsIsLost, CanNotify
  <2>2. News(n)
    BY <2>1, Zenon DEF NewsInv
  <2>3. pendingPeers[n] \cup pendingRemovals[n] \subseteq astray
    BY <2>1, <2>2, Zenon DEF News
  <2>4. QED
    BY <2>1, <2>2, <2>3, Zenon DEF News
<1>4. QED
  BY <1>1, <1>2, <1>3, PTL DEF Spec

-----------------------------------------------------------------------------
\* A node whose bootstrap is deferred has not called BootstrapCluster, and none has
\* called it twice.
DeferredInv ==
  /\ bootstraps \in [Hosts -> {0, 1}]
  /\ \A n \in Hosts : n \in deferred => bootstraps[n] = 0

\* What a step does to deferred and bootstraps: nothing, or one node gives up its
\* deferral and calls BootstrapCluster.
Bootstraps(n) ==
  /\ n \in deferred /\ deferred' = deferred \ {n}
  /\ bootstraps' = [bootstraps EXCEPT ![n] = @ + 1]

\* bootstrapCluster on every node establishes the invariant.
LEMMA DeferredInit ==
  ASSUME DiscoveryInit
  PROVE  DeferredInv
  BY Zenon DEF DiscoveryInit, DeferredInv

\* Only TryDelayedBootstrap calls BootstrapCluster, and only on a node whose bootstrap
\* is deferred; that call may fail.
LEMMA OnlyDeferred ==
  ASSUME [DiscoveryNext]_discoveryVars
  PROVE  UNCHANGED <<deferred, bootstraps>> \/ \E n \in Hosts : Bootstraps(n)
<1>1. ASSUME NEW n \in Hosts, TryDelayedBootstrap(n)
      PROVE  UNCHANGED <<deferred, bootstraps>> \/ Bootstraps(n)
  BY <1>1, Zenon DEF TryDelayedBootstrap, BootstrapDeferred, Bootstraps, raftState
<1>2. ASSUME NEW n \in Hosts, \/ Start(n) \/ Tick(n) \/ JoinPeers(n) \/ ManualJoin(n)
                              \/ EnterSelect(n) \/ StopService(n) \/ Leave(n) \/ Exit(n)
      PROVE  UNCHANGED <<deferred, bootstraps>>
  BY <1>2, Zenon DEF Start, Tick, JoinPeers, ManualJoin, EnterSelect, StopService, Leave,
     Exit, raftState
<1>3. ASSUME UNCHANGED discoveryVars
      PROVE  UNCHANGED <<deferred, bootstraps>>
  BY <1>3, Zenon DEF discoveryVars
<1>4. QED
  BY <1>1, <1>2, <1>3, Zenon DEF DiscoveryNext

\* Every step keeps the invariant: the only call that is counted is made by a node that
\* was deferred, and so had made none.
LEMMA DeferredStep ==
  ASSUME DeferredInv, [DiscoveryNext]_discoveryVars
  PROVE  DeferredInv'
<1>1. CASE UNCHANGED <<deferred, bootstraps>>
  BY <1>1, Zenon DEF DeferredInv
<1>2. ASSUME NEW n \in Hosts, Bootstraps(n)
      PROVE  DeferredInv'
  <2>1. bootstraps[n] + 1 = 1
    BY <1>2, SMT DEF DeferredInv, Bootstraps
  <2>2. bootstraps' = [bootstraps EXCEPT ![n] = 1]
    BY <1>2, <2>1, Zenon DEF Bootstraps
  <2>3. QED
    BY <1>2, <2>2, Zenon DEF DeferredInv, Bootstraps
<1>3. QED
  BY <1>1, <1>2, OnlyDeferred, Zenon

\* However discoveries, joins, stops and TryDelayedBootstrap interleave, and whether
\* BootstrapCluster succeeds or fails, no node calls it twice.
THEOREM NoSecondBootstrap == DiscoverySpec => []BootstrapsOnce
<1>1. DiscoveryInit => DeferredInv
  BY DeferredInit, Zenon
<1>2. DeferredInv /\ [DiscoveryNext]_discoveryVars => DeferredInv'
  BY DeferredStep, Zenon
<1>3. DeferredInv => BootstrapsOnce
  BY SMT DEF DeferredInv, BootstrapsOnce
<1>4. QED
  BY <1>1, <1>2, <1>3, PTL DEF DiscoverySpec
=============================================================================
