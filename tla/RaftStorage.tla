---------------------------- MODULE RaftStorage ----------------------------
(***************************************************************************)
(* services/statestorage/raft_storage.go: the state machine that every     *)
(* node keeps behind the library's log, and its snapshots; RaftWatchers    *)
(* has the watchers.  hashicorp/raft is external: the committed log is one *)
(* sequence that no node forgets, nodes apply it in order, and any node    *)
(* that runs may be the leader at any time.  Clocks agree.                 *)
(***************************************************************************)
EXTENDS WatchChannels

VARIABLES
  log,        \* the committed commands
  up,         \* the nodes that run: RaftStorage.closed is not set
  fsm,        \* raftFSM.data of each node: a function from some keys to items
  applied,    \* the length of the log that a node has applied
  snap,       \* the last snapshot on each node's disk
  base,       \* history: how much of the log is in the snapshot a node was restored from
  purging,    \* the keys that goroutines started by get are to delete
  hurt        \* history: keys set while they were to be deleted

raftVars == <<log, up, fsm, applied, snap, base, purging, hurt>>

Blank == [stamp |-> 0, ttl |-> FALSE]       \* an item without a value
Maps == UNION {[ks -> storageItem] : ks \in SUBSET Keys}

\* raftCommand: SetMultiple, Set (of one key) or Delete.
raftCommand ==
  {cmd \in [type : {"set", "delete"}, keys : SUBSET Keys \ {{}}, ttl : BOOLEAN] :
     cmd.type = "delete" => ~cmd.ttl /\ \E k \in Keys : cmd.keys = {k}}

Snapshots == [index : 0..writes, items : Maps, hurt : SUBSET Keys]
NoSnapshot == [index |-> 0, items |-> [k \in {} |-> Blank], hurt |-> {}]

\* The types of the variables of RaftStorage.
RaftTypeOK ==
  /\ SharedTypeOK
  /\ log \in Seq(raftCommand) /\ (kind = "raft" => writes = Len(log)) /\ up \subseteq Nodes
  /\ fsm \in [Nodes -> Maps] /\ applied \in [Nodes -> 0..writes] /\ snap \in [Nodes -> Snapshots]
  /\ base \in [Nodes -> 0..writes]
  /\ purging \in [Nodes -> SUBSET Keys] /\ hurt \in [Nodes -> SUBSET Keys]

\* NewRaftStorage on every node of a cluster.
RaftInit ==
  /\ log = <<>> /\ up = Nodes
  /\ fsm = [n \in Nodes |-> NoSnapshot.items] /\ applied = [n \in Nodes |-> 0]
  /\ snap = [n \in Nodes |-> NoSnapshot] /\ base = [n \in Nodes |-> 0]
  /\ purging = [n \in Nodes |-> {}] /\ hurt = [n \in Nodes |-> {}]

\* Set, Delete, SetMultiple on the node that leads, not yet closed: the library
\* commits the command.  A call that meets an error changes nothing.
RaftCommit(n) ==
  /\ n \in up /\ writes < MaxWrites
  /\ \E cmd \in raftCommand : log' = Append(log, cmd)
  /\ writes' = writes + 1
  /\ UNCHANGED <<kind, over, chan, wst, panicked, historyVars, up, fsm, applied, snap, base,
                 purging, hurt>>

\* Mutant: Apply forgets the time to live of what it sets.
ApplyForGood(n) ==
  LET i == applied[n] + 1
      cmd == log[i]
  IN /\ n \in up /\ i <= Len(log)
     /\ applied' = [applied EXCEPT ![n] = i]
     /\ fsm' = [fsm EXCEPT ![n] =
          [k \in IF cmd.type = "set" THEN DOMAIN @ \cup cmd.keys ELSE DOMAIN @ \ cmd.keys |->
             IF k \in cmd.keys THEN [stamp |-> i, ttl |-> FALSE] ELSE @[k]]]
     /\ UNCHANGED <<sharedVars, log, up, snap, base, purging, hurt>>

\* Apply: the next command changes the map.
RaftApply(n) ==
  LET i == applied[n] + 1
      cmd == log[i]
  IN /\ n \in up /\ i <= Len(log)
     /\ applied' = [applied EXCEPT ![n] = i]
     /\ fsm' = [fsm EXCEPT ![n] =
          IF cmd.type = "delete" THEN [k \in DOMAIN @ \ cmd.keys |-> @[k]]
          ELSE [k \in DOMAIN @ \cup cmd.keys |->
                  IF k \in cmd.keys THEN [stamp |-> i, ttl |-> cmd.ttl] ELSE @[k]]]
     /\ hurt' = [hurt EXCEPT ![n] = (@ \ cmd.keys) \cup (cmd.keys \cap purging[n])]
     /\ UNCHANGED <<sharedVars, log, up, snap, base, purging>>

\* Get, GetMultiple: an expired item is to be deleted by a goroutine of its own.
RaftGet(n) ==
  /\ n \in up
  /\ \E k \in DOMAIN fsm[n] \ purging[n] :
       isExpired(fsm[n][k]) /\ purging' = [purging EXCEPT ![n] = @ \cup {k}]
  /\ UNCHANGED <<sharedVars, log, up, fsm, applied, snap, base, hurt>>

\* get: such a goroutine deletes what the key holds by now; others may be left.
RaftPurge(n) ==
  /\ n \in up
  /\ \E k \in purging[n] :
       /\ fsm' = [fsm EXCEPT ![n] = [j \in DOMAIN @ \ {k} |-> @[j]]]
       /\ purging' \in {purging, [purging EXCEPT ![n] = @ \ {k}]}
  /\ UNCHANGED <<sharedVars, log, up, applied, snap, base, hurt>>

\* Persist: encoding/json writes {} for an item, none of its fields being exported.
Persist(items) == [k \in DOMAIN items |-> Blank]

\* Snapshot and Persist: the items that have not expired.
RaftSnapshot(n) ==
  /\ n \in up /\ applied[n] > snap[n].index
  /\ snap' = [snap EXCEPT ![n] =
       [index |-> applied[n], hurt |-> hurt[n],
        items |-> Persist([k \in {j \in DOMAIN fsm[n] : ~isExpired(fsm[n][j])} |-> fsm[n][k]])]]
  /\ UNCHANGED <<sharedVars, log, up, fsm, applied, base, purging, hurt>>

\* Mutant: the command after the snapshot is skipped.
RestoreAndSkip(n, s) ==
  /\ fsm' = [fsm EXCEPT ![n] = s.items]
  /\ applied' = [applied EXCEPT ![n] = s.index + 1]
  /\ base' = [base EXCEPT ![n] = s.index]

\* Restore: the map is replaced.
Restore(n, s) ==
  /\ fsm' = [fsm EXCEPT ![n] = s.items]
  /\ applied' = [applied EXCEPT ![n] = s.index]
  /\ base' = [base EXCEPT ![n] = s.index]

\* External: a node that is behind is sent the snapshot of the leader.
RaftInstall(n) ==
  /\ n \in up
  /\ \E l \in up \ {n} :
       /\ snap[l].index > applied[n]
       /\ Restore(n, snap[l])
       /\ snap' = [snap EXCEPT ![n] = snap[l]]
       /\ hurt' = [hurt EXCEPT ![n] = snap[l].hurt \cup purging[n]]
  /\ UNCHANGED <<sharedVars, log, up, purging>>

\* A node stops, by a crash or by Close, and loses all but its disk.
RaftStop(n) ==
  /\ n \in up
  /\ up' = up \ {n}
  /\ Restore(n, NoSnapshot)
  /\ purging' = [purging EXCEPT ![n] = {}] /\ hurt' = [hurt EXCEPT ![n] = {}]
  /\ UNCHANGED <<sharedVars, log, snap>>

\* NewRaftStorage with existing state: the library restores the last snapshot, and
\* then applies the log from there on.
RaftRestart(n) ==
  /\ n \notin up
  /\ up' = up \cup {n}
  /\ Restore(n, snap[n])
  /\ hurt' = [hurt EXCEPT ![n] = snap[n].hurt]
  /\ UNCHANGED <<sharedVars, log, snap, purging>>

RaftNext ==
  /\ kind = "raft"
  /\ \/ \E n \in Nodes : \/ RaftCommit(n) \/ RaftApply(n) \/ RaftGet(n) \/ RaftPurge(n)
                         \/ RaftSnapshot(n) \/ RaftInstall(n) \/ RaftStop(n) \/ RaftRestart(n)
     \/ /\ TimeToLiveEnds({[stamp |-> i, ttl |-> log[i].ttl] : i \in 1..Len(log)})
        /\ UNCHANGED raftVars

-----------------------------------------------------------------------------
\* The number of the command that set the key, of the first i; 0 if none did or a later
\* one deleted it.
SetBy(i, k) ==
  LET about == {j \in 1..i : k \in log[j].keys}
      j == CHOOSE j \in about : \A l \in about : l <= j
  IN IF about = {} \/ log[j].type = "delete" THEN 0 ELSE j

\* The number of the command whose value a Get is to return after the first i, or 0.
Expected(i, k) ==
  LET j == SetBy(i, k)
  IN IF j # 0 /\ log[j].ttl /\ j \in over THEN 0 ELSE j

\* A node that runs has for each key what the commands it has applied say, through
\* snapshots, restarts and expiry, unless the key was set while a goroutine was about to
\* delete its expired predecessor.  Only a key that was set before the snapshot that the
\* node was restored from, and not since, may have lost its value and its time to live;
\* none that was deleted comes back, and none that is there gets lost.
StateFollowsLog ==
  \A n \in up : \A k \in Keys \ hurt[n] :
    IF k \in DOMAIN fsm[n] /\ ~isExpired(fsm[n][k])
      THEN IF fsm[n][k] = Blank THEN SetBy(applied[n], k) \in 1..base[n]
           ELSE fsm[n][k].stamp = Expected(applied[n], k)
      ELSE Expected(applied[n], k) = 0

\* "Restore restores the FSM from a snapshot", its comment says: a node that was restored
\* has the values that were set before, like one that was not.  It does not hold: Persist
\* writes no values.
RestoreRestores ==
  \A n \in up : \A k \in DOMAIN fsm[n] \ hurt[n] :
    ~isExpired(fsm[n][k]) => fsm[n][k].stamp = Expected(applied[n], k)
============================================================================
