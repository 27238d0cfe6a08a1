----------------------------- MODULE Membership -----------------------------
(***************************************************************************)
(* services/memberlist: how the comings and goings that gossip reports     *)
(* become changes of the Raft configuration.  The delegates of Servers are *)
(* modelled; Guests are further nodes that come and go, whose delegates    *)
(* are not.  hashicorp/memberlist is external: a node learns of others in  *)
(* any order, and the list is locked while it calls the delegate (which is *)
(* why the delegate caches its own name).  hashicorp/raft is external: any *)
(* voter among Servers may be elected while a majority lives.              *)
(***************************************************************************)
EXTENDS Naturals, FiniteSets

CONSTANTS
  Servers, Guests,
  First,          \* the node that leads at first
  MaxEvents       \* bound: comings, goings, changes of the leader and calls of Join

VARIABLES
  live,             \* who is in the gossip
  events,           \* the number of comings, goings, changes of the leader and joins so far
  returned,         \* history: who has come more than once
  voters, leader,   \* external: the Raft configuration and its leader
  members,          \* each node's member list
  left,             \* history: whom each node has seen leave, and not come again
  leaving,          \* whose removal a NotifyLeave is about to cache
  hung,             \* a NotifyLeave waits for the lock its caller holds
  seen,             \* the members that processExistingMembers has still to process
  pendingPeers, pendingRemovals,
  shutdownFlag,
  wasLeader,
  started,          \* the ProcessPendingPeers that checkLeadershipChange has started
  working,          \* one of them has passed its check and holds d.mu
  skipped,          \* history: the nodes that did not lead when the last of them checked
  astray            \* history: whose news got lost, or was out of date when applied

envVars == <<live, events, returned, leader>>
delegateVars == <<pendingPeers, pendingRemovals, started, working>>
vars == <<envVars, voters, members, left, leaving, hung, seen, delegateVars, shutdownFlag,
          wasLeader, skipped, astray>>

All == Servers \cup Guests
None == "none"

ASSUME ServersAssumption == Servers \cap Guests = {} /\ First \in Servers /\ None \notin All

\* Start has returned on every node, the nodes have joined and form the configuration;
\* they have not yet heard of the guests.
Init ==
  /\ live = All /\ events = 0 /\ returned = {}
  /\ voters = Servers /\ leader = First
  /\ members = [n \in Servers |-> Servers] /\ left = [n \in Servers |-> {}]
  /\ leaving = [n \in Servers |-> None]
  /\ hung = {} /\ seen = [n \in Servers |-> {}]
  /\ pendingPeers = [n \in Servers |-> {}] /\ pendingRemovals = [n \in Servers |-> {}]
  /\ shutdownFlag = {} /\ wasLeader = {First}
  /\ started = [n \in Servers |-> 0] /\ working = {} /\ skipped = {} /\ astray = {}

-----------------------------------------------------------------------------
\* External: guests come and go; the leader changes.
Come ==
  /\ events < MaxEvents
  /\ \E p \in Guests \ live :
       live' = live \cup {p} /\ returned' = returned \cup {p}
  /\ events' = events + 1
  /\ UNCHANGED <<voters, leader, members, left, leaving, hung, seen, delegateVars,
                 shutdownFlag, wasLeader, skipped, astray>>

Go ==
  /\ events < MaxEvents
  /\ \E p \in Guests \cap live : live' = live \ {p}
  /\ events' = events + 1
  /\ UNCHANGED <<returned, voters, leader, members, left, leaving, hung, seen,
                 delegateVars, shutdownFlag, wasLeader, skipped, astray>>

Majority == 2 * Cardinality(voters \cap (live \cup Servers)) > Cardinality(voters)

Elect ==
  /\ events < MaxEvents
  /\ \E l \in (IF Majority THEN voters \cap Servers ELSE {}) \cup {None} :
       l # leader /\ leader' = l
  /\ events' = events + 1
  /\ UNCHANGED <<live, returned, voters, members, left, leaving, hung, seen,
                 delegateVars, shutdownFlag, wasLeader, skipped, astray>>

-----------------------------------------------------------------------------
\* AddVoter on node n, which fails if n does not lead (any more) or cannot commit.
AddVoter(n, p) ==
  \/ /\ leader = n /\ Majority
     /\ voters' = voters \cup {p}
     /\ astray' = IF p \in live THEN astray ELSE astray \cup {p}
  \/ /\ leader # n \/ ~Majority
     /\ astray' = astray \cup {p} /\ UNCHANGED voters

\* RemoveServer on node n, likewise.
RemoveServer(n, p) ==
  \/ /\ leader = n /\ Majority
     /\ voters' = voters \ {p}
     /\ astray' = IF p \in live THEN astray \cup {p} ELSE astray
  \/ /\ leader # n \/ ~Majority
     /\ astray' = astray \cup {p} /\ UNCHANGED voters

\* Mutant: a node that does not lead does not cache the peer.
addLeaderPeer(n, p) ==
  /\ UNCHANGED pendingPeers
  /\ IF leader = n THEN AddVoter(n, p) ELSE UNCHANGED <<voters, astray>>

\* addRaftPeer, under d.mu.  A node that takes itself for the leader already will not
\* look at what it caches.
addRaftPeer(n, p) ==
  IF leader = n
    THEN AddVoter(n, p) /\ UNCHANGED pendingPeers
    ELSE /\ pendingPeers' = [pendingPeers EXCEPT ![n] = @ \cup {p}]
         /\ astray' = IF n \in wasLeader THEN astray \cup {p} ELSE astray
         /\ UNCHANGED voters

\* The library may call the delegate of n, and d.mu is free.
CanNotify(n) == n \notin hung \cup working /\ leaving[n] = None

\* NotifyJoin: the node itself is skipped.
NotifyJoin(n, p) ==
  /\ CanNotify(n) /\ n \in live /\ p \in live \ members[n]
  /\ members' = [members EXCEPT ![n] = @ \cup {p}] /\ left' = [left EXCEPT ![n] = @ \ {p}]
  /\ addRaftPeer(n, p)
  /\ UNCHANGED <<envVars, leaving, hung, seen, pendingRemovals, started, working,
                 shutdownFlag, wasLeader, skipped>>

\* Mutant: NotifyLeave does not look at shutdownFlag.
NotifyAnyLeave(n, p) ==
  /\ CanNotify(n) /\ p \in members[n] \ live
  /\ members' = [members EXCEPT ![n] = @ \ {p}] /\ left' = [left EXCEPT ![n] = @ \cup {p}]
  /\ Cardinality(voters) # 2 /\ leader = n /\ RemoveServer(n, p)
  /\ UNCHANGED <<envVars, leaving, hung, seen, delegateVars, shutdownFlag, wasLeader, skipped>>

\* removeRaftPeer.  In a configuration of two, handleEmergencyRecovery asks for the list
\* that the caller has locked.  Otherwise the leader removes the peer, and others go on
\* to cache it.
removeRaftPeer(n, p) ==
  IF Cardinality(voters) = 2
    THEN hung' = hung \cup {n} /\ UNCHANGED <<leaving, voters, astray>>
  ELSE IF leader # n
    THEN leaving' = [leaving EXCEPT ![n] = p] /\ UNCHANGED <<hung, voters, astray>>
    ELSE RemoveServer(n, p) /\ UNCHANGED <<hung, leaving>>

\* NotifyLeave, which does nothing more once the node is stopping.
NotifyLeave(n, p) ==
  /\ CanNotify(n) /\ p \in members[n] \ live
  /\ members' = [members EXCEPT ![n] = @ \ {p}] /\ left' = [left EXCEPT ![n] = @ \cup {p}]
  /\ IF n \in shutdownFlag
       THEN UNCHANGED <<hung, leaving, voters, astray>>
       ELSE removeRaftPeer(n, p)
  /\ UNCHANGED <<envVars, seen, delegateVars, shutdownFlag, wasLeader, skipped>>

\* handleNonLeaderRemoval: the peer is cached, whoever leads by now.
CacheRemoval(n) ==
  /\ leaving[n] # None /\ n \notin working
  /\ pendingRemovals' = [pendingRemovals EXCEPT ![n] = @ \cup {leaving[n]}]
  /\ leaving' = [leaving EXCEPT ![n] = None]
  /\ astray' = IF n \in wasLeader THEN astray \cup {leaving[n]} ELSE astray
  /\ UNCHANGED <<envVars, voters, members, left, hung, seen, pendingPeers, started, working,
                 shutdownFlag, wasLeader, skipped>>

-----------------------------------------------------------------------------
\* Join: two seconds later processExistingMembers reads the list.
Join(n) ==
  /\ events < MaxEvents /\ n \notin hung /\ leaving[n] = None
  /\ events' = events + 1
  /\ seen' = [seen EXCEPT ![n] = members[n] \ {n}]
  /\ UNCHANGED <<live, returned, leader, voters, members, left, leaving, hung, delegateVars,
                 shutdownFlag, wasLeader, skipped, astray>>

\* processExistingMembers: NotifyJoin of the next member it has read.
processExistingMembers(n) ==
  /\ n \notin working
  /\ \E p \in seen[n] :
       /\ addRaftPeer(n, p)
       /\ seen' = [seen EXCEPT ![n] = @ \ {p}]
  /\ UNCHANGED <<envVars, members, left, leaving, hung, pendingRemovals, started, working,
                 shutdownFlag, wasLeader, skipped>>

\* Mutant: a new leader does not process what it has cached.
noteLeadership(n) ==
  /\ n \notin shutdownFlag /\ (leader = n) # (n \in wasLeader)
  /\ wasLeader' = IF leader = n THEN wasLeader \cup {n} ELSE wasLeader \ {n}
  /\ UNCHANGED <<envVars, voters, members, left, leaving, hung, seen, delegateVars,
                 shutdownFlag, skipped, astray>>

\* monitorLeadership, checkLeadershipChange: every five seconds until Stop.
checkLeadershipChange(n) ==
  /\ n \notin shutdownFlag /\ (leader = n) # (n \in wasLeader)
  /\ IF leader = n
       THEN /\ wasLeader' = wasLeader \cup {n}
            /\ started' = [started EXCEPT ![n] = @ + 1]
       ELSE wasLeader' = wasLeader \ {n} /\ UNCHANGED started
  /\ UNCHANGED <<envVars, voters, members, left, leaving, hung, seen, pendingPeers,
                 pendingRemovals, working, shutdownFlag, skipped, astray>>

\* ProcessPendingPeers: the check, under d.mu.
ProcessPendingPeers(n) ==
  /\ started[n] > 0 /\ n \notin working
  /\ started' = [started EXCEPT ![n] = @ - 1]
  /\ working' = IF leader = n /\ pendingPeers[n] \cup pendingRemovals[n] # {}
                  THEN working \cup {n} ELSE working
  /\ skipped' = IF leader = n THEN skipped \ {n} ELSE skipped \cup {n}
  /\ UNCHANGED <<envVars, voters, members, left, leaving, hung, seen, pendingPeers,
                 pendingRemovals, shutdownFlag, wasLeader, astray>>

\* ProcessPendingPeers: the next addition, or the next removal when none is left; both
\* lists are empty in the end, whether the calls succeeded or not.
ProcessNext(n) ==
  /\ n \in working
  /\ IF pendingPeers[n] # {}
       THEN \E p \in pendingPeers[n] :
              /\ AddVoter(n, p)
              /\ pendingPeers' = [pendingPeers EXCEPT ![n] = @ \ {p}]
              /\ UNCHANGED pendingRemovals
       ELSE \E p \in pendingRemovals[n] :
              /\ RemoveServer(n, p)
              /\ pendingRemovals' = [pendingRemovals EXCEPT ![n] = @ \ {p}]
              /\ UNCHANGED pendingPeers
  /\ working' = IF pendingPeers'[n] \cup pendingRemovals'[n] = {} THEN working \ {n} ELSE working
  /\ UNCHANGED <<envVars, members, left, leaving, hung, seen, started, shutdownFlag, wasLeader,
                 skipped>>

\* Stop: the flag is set before the list is left.
Stop(n) ==
  /\ n \in live /\ events < MaxEvents
  /\ shutdownFlag' = shutdownFlag \cup {n}
  /\ live' = live \ {n}
  /\ events' = events + 1
  /\ UNCHANGED <<returned, voters, leader, members, left, leaving, hung, seen,
                 delegateVars, wasLeader, skipped, astray>>

Step(n) ==
  \/ \E p \in All : NotifyJoin(n, p) \/ NotifyLeave(n, p)
  \/ CacheRemoval(n) \/ Join(n) \/ processExistingMembers(n)
  \/ checkLeadershipChange(n) \/ ProcessPendingPeers(n) \/ ProcessNext(n) \/ Stop(n)

Next == Come \/ Go \/ Elect \/ \E n \in Servers : Step(n)

Spec ==
  /\ Init /\ [][Next]_vars
  /\ \A n \in Servers : /\ WF_vars(checkLeadershipChange(n)) /\ WF_vars(ProcessPendingPeers(n))
                      /\ WF_vars(ProcessNext(n))

-----------------------------------------------------------------------------
\* A leader that has noticed that it leads and has nothing to do has in the
\* configuration every living member of its list that never left, and none that it has
\* seen leave and that never came back, except those for whom a call failed, was made on
\* outdated news, or was cached by a node that took itself for the leader already; and
\* unless it had lost the lead again by the time ProcessPendingPeers looked, and won it
\* back before checkLeadershipChange noticed, in which case it has only cached them.
NoNewsIsLost ==
  \A n \in Servers :
    (/\ leader = n /\ n \in wasLeader \ (shutdownFlag \cup skipped)
     /\ started[n] = 0 /\ CanNotify(n))
    => /\ (members[n] \cap live) \ returned \subseteq voters \cup astray \cup {n}
       /\ (left[n] \cap voters) \ (live \cup returned) \subseteq astray

\* Only a peer that has left is ever removed from the configuration, whatever the order
\* in which nodes hear of others; and never the leader itself, not even when it stops
\* and so sees itself leave.
RemovedOnlyIfLeft ==
  [][\A p \in voters \ voters' : p # leader /\ (p \notin live \/ p \in returned)]_vars

\* A node that leads for good comes to add and remove all that it has cached, unless
\* it took itself for the leader already when it cached it, did not lead when
\* ProcessPendingPeers last looked, or is stopped.
PendingProcessed ==
  \A n \in Servers :
    <>[](leader = n /\ n \notin shutdownFlag \cup skipped)
    => <>[](pendingPeers[n] \cup pendingRemovals[n] \subseteq astray)
=============================================================================
