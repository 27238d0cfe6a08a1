------------------------------ MODULE Discovery -----------------------------
(***************************************************************************)
(* services/discovery with its providers, and how it forms a cluster: what *)
(* it finds is joined (Join of services/memberlist) and then offered to    *)
(* TryDelayedBootstrap of services/statestorage/raft_storage.go.  The      *)
(* gossip library is external: a node that is contacted shares its list    *)
(* with the one that contacts it.                                          *)
(***************************************************************************)
EXTENDS Naturals, FiniteSets

CONSTANTS
  Hosts,
  BootstrapExpected,    \* the configured number of nodes to wait for
  Settings              \* the configurations: the records [provider, config, manual] below,
                        \* and the bound stoppable

ASSUME ExpectedAssumption == BootstrapExpected \in 1..Cardinality(Hosts)
ASSUME SettingsAssumption ==
  Settings \subseteq [provider : {"static", "names", "mdns"},
                      config : {"peers", "expect", "single"}, manual : SUBSET Hosts,
                      stoppable : SUBSET Hosts]

VARIABLES
  provider,     \* static: all nodes are configured as peers, by IP address; names: by
                \* host name; mdns: they announce themselves
  manual,       \* the nodes that still have to Join those in memberlist.peers.join
  stoppable,    \* bound: the nodes that may be stopped
  config,       \* peers: storage.raft.peers is set; expect: bootstrapExpected is; single
  loop,         \* each service: off, found, joined, ready (a discovery is over), wait (in
                \* the select of discoveryLoop), ended
  starting,     \* the nodes whose Start runs its first discovery, holding s.mu
  stopped,      \* the nodes where Stop was called: stopCh is closed, and nil
  departed,     \* the nodes whose member list has left and shut down
  deaf,         \* the loops that have entered their select after Stop
  found,        \* the peers that a discovery is about to join
  memberlist,   \* the member list of each node
  deferred,     \* bootstrapDeferred
  bootstraps,   \* history: how often each node has called BootstrapCluster
  cluster       \* the servers that each node bootstrapped its Raft with; {} if it did not

discoveryVars == <<provider, manual, stoppable, config, loop, starting, stopped, departed, deaf,
                   found, memberlist, deferred, bootstraps, cluster>>

Up == {n \in Hosts : loop[n] # "off"}
settings == <<provider, config, stoppable>>
raftState == <<deferred, bootstraps, cluster>>

\* The servers with which a node bootstraps its Raft: itself and the configured peers,
\* itself, or itself again, the peers that were discovered being left to services/memberlist.
bootstrapWithStaticPeers == Hosts
bootstrapSingleNode(n) == {n}
bootstrapWithDiscoveredPeers(n) == {n}

\* bootstrapCluster on a node without Raft state; maybeBootstrap defers it.  A node whose
\* BootstrapCluster fails here does not start.
bootstrapCluster(n) ==
  CASE config = "peers" -> bootstrapWithStaticPeers
    [] config = "expect" -> {}
    [] config = "single" -> bootstrapSingleNode(n)

\* NewRaftStorage, NewMemberlistServiceWithMetadata and NewService on every node.
DiscoveryInit ==
  /\ \E s \in Settings : /\ provider = s.provider /\ config = s.config
                         /\ manual = s.manual /\ stoppable = s.stoppable
  /\ loop = [n \in Hosts |-> "off"]
  /\ starting = {} /\ stopped = {} /\ departed = {} /\ deaf = {}
  /\ found = [n \in Hosts |-> {}] /\ memberlist = [n \in Hosts |-> {n}]
  /\ deferred = (IF config = "expect" THEN Hosts ELSE {})
  /\ bootstraps = [n \in Hosts |-> IF config = "expect" THEN 0 ELSE 1]
  /\ cluster = [n \in Hosts |-> bootstrapCluster(n)]

-----------------------------------------------------------------------------
\* What a provider may return: StaticProvider all it was configured with; MDNSProvider,
\* until it is stopped, some of those who announce themselves, within its timeout.
StaticDiscover == {Hosts}
MDNSDiscover(n) == SUBSET (IF n \in stopped THEN {} ELSE Up \ stopped)
Discover(n) == IF provider = "mdns" THEN MDNSDiscover(n) ELSE StaticDiscover

\* filterPeers: not those already connected, the node itself included; isAlreadyConnected
\* compares with the IP addresses of the members, so a host name never is.
filterPeers(n, peers) == IF provider = "names" THEN peers ELSE peers \ memberlist[n]

\* Join of the member list: the peers that are there answer, some or all of them, and
\* share their lists; no peer answers if none is there.
Contact(n, peers, met) ==
  /\ met \subseteq peers \cap (Up \ departed)
  /\ met = {} => peers \cap (Up \ departed) = {}
  /\ LET all == (memberlist[n] \cup UNION {memberlist[m] : m \in met}) \ departed
     IN memberlist' = [m \in Hosts |-> IF m \in met \cup {n} THEN all ELSE memberlist[m]]

\* A discovery is over; if it was the first one, Start releases s.mu and the loop is run.
DiscoveryOver(n) ==
  /\ loop' = [loop EXCEPT ![n] = "ready"]
  /\ found' = [found EXCEPT ![n] = {}]
  /\ starting' = starting \ {n}

\* runDiscovery: the providers are asked and their answers filtered.
runDiscovery(n) ==
  \E peers \in Discover(n) :
    LET unique == filterPeers(n, peers)
    IN IF unique = {} THEN DiscoveryOver(n)
       ELSE /\ loop' = [loop EXCEPT ![n] = "found"]
            /\ found' = [found EXCEPT ![n] = unique]
            /\ starting' = IF loop[n] = "off" THEN starting \cup {n} ELSE starting

\* Start, whose first discovery runs under s.mu.
Start(n) ==
  /\ loop[n] = "off"
  /\ runDiscovery(n)
  /\ UNCHANGED <<settings, manual, stopped, departed, deaf, memberlist, raftState>>

\* discoveryLoop enters its select, with the stopCh that it reads there: nil after Stop.
EnterSelect(n) ==
  /\ loop[n] = "ready"
  /\ loop' = [loop EXCEPT ![n] = "wait"]
  /\ deaf' = IF n \in stopped THEN deaf \cup {n} ELSE deaf
  /\ UNCHANGED <<settings, manual, starting, stopped, departed, found, memberlist, raftState>>

\* discoveryLoop: the ticker.
Tick(n) ==
  /\ loop[n] = "wait"
  /\ runDiscovery(n)
  /\ UNCHANGED <<settings, manual, stopped, departed, deaf, memberlist, raftState>>

\* runDiscovery: Join, which fails if nobody answers.
JoinPeers(n) ==
  /\ loop[n] = "found"
  /\ \E met \in SUBSET Hosts :
       /\ Contact(n, found[n], met)
       /\ \/ /\ met # {}
             /\ loop' = [loop EXCEPT ![n] = "joined"]
             /\ UNCHANGED <<starting, found>>
          \/ met = {} /\ DiscoveryOver(n)
  /\ UNCHANGED <<settings, manual, stopped, departed, deaf, raftState>>

\* initializeMemberlist: once Start has returned, Join of the configured nodes, here
\* all the others.
ManualJoin(n) ==
  /\ n \in (manual \cap Up) \ (starting \cup stopped)
  /\ \E met \in SUBSET Hosts : Contact(n, Hosts \ {n}, met)
  /\ manual' = manual \ {n}
  /\ UNCHANGED <<settings, loop, starting, stopped, departed, deaf, found, raftState>>

\* BootstrapCluster with the node itself: it succeeds, or it fails and nothing is kept.
BootstrapDeferred(n) ==
  /\ bootstraps' = [bootstraps EXCEPT ![n] = @ + 1]
  /\ \/ cluster' = [cluster EXCEPT ![n] = bootstrapWithDiscoveredPeers(n)]
     \/ UNCHANGED cluster

\* Mutant: the node does not count itself.
BootstrapWithOthers(n) ==
  /\ loop[n] = "joined"
  /\ IF n \in deferred /\ Cardinality(found[n]) >= BootstrapExpected
       THEN deferred' = deferred \ {n} /\ BootstrapDeferred(n)
       ELSE UNCHANGED raftState
  /\ DiscoveryOver(n)
  /\ UNCHANGED <<settings, manual, stopped, departed, deaf, memberlist>>

\* Mutant: bootstrapDeferred stays set.
BootstrapAgain(n) ==
  /\ loop[n] = "joined"
  /\ IF n \in deferred /\ Cardinality(found[n]) + 1 >= BootstrapExpected
       THEN UNCHANGED deferred /\ BootstrapDeferred(n)
       ELSE UNCHANGED raftState
  /\ DiscoveryOver(n)
  /\ UNCHANGED <<settings, manual, stopped, departed, deaf, memberlist>>

\* TryDelayedBootstrap with the peers that were discovered, met or not.  bootstrapDeferred
\* is cleared first, and an error of BootstrapCluster is only logged.
TryDelayedBootstrap(n) ==
  /\ loop[n] = "joined"
  /\ IF n \in deferred /\ Cardinality(found[n]) + 1 >= BootstrapExpected
       THEN deferred' = deferred \ {n} /\ BootstrapDeferred(n)
       ELSE UNCHANGED raftState
  /\ DiscoveryOver(n)
  /\ UNCHANGED <<settings, manual, stopped, departed, deaf, memberlist>>

\* Stop, which Start's first discovery keeps waiting.
StopService(n) ==
  /\ n \in (stoppable \cap Up) \ (stopped \cup starting)
  /\ stopped' = stopped \cup {n}
  /\ UNCHANGED <<settings, manual, loop, starting, departed, deaf, found, memberlist, raftState>>

\* Stop of the member list goes on when the loop has ended or two seconds have passed:
\* it leaves.
Leave(n) ==
  /\ n \in stopped \ departed
  /\ departed' = departed \cup {n}
  /\ memberlist' = [m \in Hosts |-> memberlist[m] \ {n}]
  /\ UNCHANGED <<settings, manual, loop, starting, stopped, deaf, found, raftState>>

\* discoveryLoop: stopCh is closed; a loop that read it after Stop waits on nil.
Exit(n) ==
  /\ loop[n] = "wait" /\ n \in stopped \ deaf
  /\ loop' = [loop EXCEPT ![n] = "ended"]
  /\ UNCHANGED <<settings, manual, starting, stopped, departed, deaf, found, memberlist, raftState>>

DiscoveryNext ==
  \E n \in Hosts :
    \/ Start(n) \/ Tick(n) \/ JoinPeers(n) \/ TryDelayedBootstrap(n) \/ ManualJoin(n)
    \/ EnterSelect(n) \/ StopService(n) \/ Leave(n) \/ Exit(n)

\* What a node does by itself: it is started, its ticker fires and its calls return.
DiscoveryStep(n) ==
  \/ Start(n) \/ EnterSelect(n) \/ Tick(n) \/ Exit(n) \/ JoinPeers(n)
  \/ TryDelayedBootstrap(n)

DiscoverySpec ==
  /\ DiscoveryInit /\ [][DiscoveryNext]_discoveryVars
  /\ \A n \in Hosts : WF_discoveryVars(DiscoveryStep(n))

-----------------------------------------------------------------------------
\* With static discovery, no manual Join, nobody stopped and no BootstrapCluster that
\* fails some node bootstraps, in whatever order the nodes are started and whoever
\* answers first.
SomebodyBootstraps ==
  (/\ provider # "mdns" /\ manual = {}
   /\ [](stopped = {} /\ \A n \in Hosts : bootstraps[n] > 0 => cluster[n] # {}))
  => <>(\E n \in Hosts : cluster[n] # {})

\* No node calls BootstrapCluster a second time, whatever it discovers and however often,
\* and whether the first call succeeded or failed.
BootstrapsOnce == \A n \in Hosts : bootstraps[n] <= 1
=============================================================================
