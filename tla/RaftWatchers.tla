---------------------------- MODULE RaftWatchers ---------------------------
(***************************************************************************)
(* services/statestorage/raft_storage.go: the watchers of one node, which  *)
(* are registered twice, in RaftStorage and in its state machine, while    *)
(* commands are applied and the storage is closed.  The keys' items are in *)
(* RaftStorage; a crash loses all that is here.                            *)
(***************************************************************************)
EXTENDS WatchChannels

VARIABLES
  notes,      \* the events that goroutines started by Apply are to send
  chans,      \* RaftStorage.watchChans
  fsmChans,   \* raftFSM.watchChans
  stage,      \* Close: open; flagged: closed is set; half: the channels in chans are
              \* ended and rs.mu is held; ended: all are; shut: the library is down
  taken       \* history: watchers whose end took an event instead of closing

raftWatchVars == <<notes, chans, fsmChans, stage, taken>>

\* The types of the variables of RaftWatchers.
RaftWatchTypeOK ==
  /\ SharedTypeOK
  /\ notes \subseteq StateEvent
  /\ chans \subseteq Watchers /\ fsmChans \subseteq Watchers /\ taken \subseteq Watchers
  /\ stage \in {"open", "flagged", "half", "ended", "shut"}

RaftWatchInit ==
  notes = {} /\ chans = {} /\ fsmChans = {} /\ stage = "open" /\ taken = {}

\* The next command, about these keys, changes the state machine of the node.
Command(type, keys) ==
  /\ stage # "shut" /\ writes < MaxWrites
  /\ writes' = writes + 1
  /\ last' = [k \in Keys |->
       IF k \in keys THEN [key |-> k, type |-> type, stamp |-> writes'] ELSE last[k]]

\* Mutant: only a Set is announced.
AnnounceSets ==
  /\ \E type \in {"set", "delete"}, keys \in SUBSET Keys \ {{}} :
       /\ type = "delete" => \E k \in Keys : keys = {k}
       /\ Command(type, keys)
       /\ notes' = notes \cup {last'[k] : k \in IF type = "set" THEN keys ELSE {}}
       /\ mixed' = mixed \cup {writes' : e \in {f \in notes : f.key \in keys}}
  /\ UNCHANGED <<kind, over, chan, wst, panicked, told, missed, chans, fsmChans, stage, taken>>

\* Apply: one goroutine per key of the command is to notify its watchers.
RaftAnnounce ==
  /\ \E type \in {"set", "delete"}, keys \in SUBSET Keys \ {{}} :
       /\ type = "delete" => \E k \in Keys : keys = {k}
       /\ Command(type, keys)
       /\ notes' = notes \cup {last'[k] : k \in keys}
       /\ mixed' = mixed \cup {writes' : e \in {f \in notes : f.key \in keys}}
  /\ UNCHANGED <<kind, over, chan, wst, panicked, told, missed, chans, fsmChans, stage, taken>>

\* Restore of a snapshot from the leader: nobody is notified.
RaftRestore ==
  /\ \E keys \in SUBSET Keys \ {{}} : Command("set", keys)
  /\ missed' = [w \in Watchers |-> missed[w] \cup {writes'}]
  /\ UNCHANGED <<kind, over, chan, wst, panicked, mixed, told, raftWatchVars>>

\* notifyWatchers: such a goroutine sends its event, under the lock of the state machine.
RaftNotify ==
  /\ \E e \in notes : Broadcast(Listeners(fsmChans, e.key), e) /\ notes' = notes \ {e}
  /\ UNCHANGED <<kind, writes, over, wst, last, mixed, chans, fsmChans, stage, taken>>

WatchStep(w, from, to) == wst[w] = from /\ wst' = [wst EXCEPT ![w] = to]

\* Watch: isClosed, which waits for rs.mu.
RaftWatchCheck(w) ==
  /\ WatchStep(w, "none", "called") /\ stage = "open"
  /\ UNCHANGED <<kind, writes, over, chan, panicked, historyVars, raftWatchVars>>

\* Watch: into RaftStorage.watchChans, under rs.mu.
RaftWatch(w) ==
  /\ WatchStep(w, "called", "half") /\ stage # "half"
  /\ chans' = chans \cup {w}
  /\ UNCHANGED <<kind, writes, over, chan, panicked, historyVars, notes, fsmChans, stage, taken>>

\* Watch: addWatcher, under the lock of the state machine.
addWatcher(w) ==
  /\ WatchStep(w, "half", "on")
  /\ fsmChans' = fsmChans \cup {w}
  /\ UNCHANGED <<kind, writes, over, chan, panicked, historyVars, notes, chans, stage, taken>>

\* These channels are ended: an event that waits is taken, else the channel is closed.
EndChannels(ws) ==
  /\ chan' = [w \in Watchers |-> IF w \in ws THEN DrainOrClose(chan[w]) ELSE chan[w]]
  /\ taken' = (taken \ ws) \cup {w \in ws : chan[w].buf # <<>>}

\* The context of a watcher is done: removeWatcherAndClose, first under rs.mu.
RaftRemove(w) ==
  /\ WatchStep(w, "on", "cut") /\ stage # "half"
  /\ chans' = chans \ {w}
  /\ UNCHANGED <<kind, writes, over, chan, panicked, historyVars, notes, fsmChans, stage, taken>>

\* removeWatcherAndClose: removeWatcher, under the lock of the state machine.
removeWatcher(w) ==
  /\ WatchStep(w, "cut", "cut2")
  /\ fsmChans' = fsmChans \ {w}
  /\ UNCHANGED <<kind, writes, over, chan, panicked, historyVars, notes, chans, stage, taken>>

\* removeWatcherAndClose: the channel, under no lock.
RaftEndWatcher(w) ==
  /\ WatchStep(w, "cut2", "off")
  /\ EndChannels({w})
  /\ UNCHANGED <<kind, writes, over, panicked, historyVars, notes, chans, fsmChans, stage>>

CloseStep(from, to) == stage = from /\ stage' = to

\* Close: closed is set.
RaftClose ==
  /\ CloseStep("open", "flagged")
  /\ UNCHANGED <<sharedVars, notes, chans, fsmChans, taken>>

\* closeAllWatchers takes rs.mu and ends the channels of RaftStorage.
RaftCloseAll ==
  /\ CloseStep("flagged", "half")
  /\ EndChannels(chans)
  /\ chans' = {}
  /\ UNCHANGED <<kind, writes, over, wst, panicked, historyVars, notes, fsmChans>>

\* closeAllWatchers ends the channels of the state machine, and releases rs.mu.
RaftCloseFSM ==
  /\ CloseStep("half", "ended")
  /\ EndChannels(fsmChans)
  /\ fsmChans' = {}
  /\ UNCHANGED <<kind, writes, over, wst, panicked, historyVars, notes, chans>>

\* Close: raft.Shutdown.
RaftShutdown ==
  /\ CloseStep("ended", "shut")
  /\ UNCHANGED <<sharedVars, notes, chans, fsmChans, taken>>

RaftWatchNext ==
  /\ kind = "raft watchers" /\ ~panicked
  /\ \/ RaftAnnounce \/ RaftRestore \/ RaftNotify
     \/ RaftClose \/ RaftCloseAll \/ RaftCloseFSM \/ RaftShutdown
     \/ \E w \in Watchers : \/ RaftWatchCheck(w) \/ RaftWatch(w) \/ addWatcher(w)
                            \/ RaftRemove(w) \/ removeWatcher(w) \/ RaftEndWatcher(w)
     \/ \E w \in Watchers : Receive(w) /\ UNCHANGED raftWatchVars

-----------------------------------------------------------------------------
\* The last event that a watcher was sent for a key is that of the last command for
\* the key that the node has applied, once no goroutine is to send one, unless its
\* channel was full, the node was brought up to date by a snapshot, or two such
\* goroutines ran at once.
RaftLastEventTells ==
  \A w \in fsmChans, k \in Keys :
    (stage = "open" /\ \A e \in notes : e.key # k) => Knows(w, k, last[k].stamp)

\* The channel of a watcher that was removed, by its context or by Close, is closed,
\* unless an event was waiting in it when it was last to be closed.
RaftEndedWatchersClosed ==
  kind = "raft watchers" => \A w \in Watchers \ (taken \cup chans \cup fsmChans) :
    (wst[w] = "off" \/ (wst[w] = "on" /\ stage \in {"ended", "shut"})) => chan[w].closed

\* No goroutine sends on a closed channel before the storage of its node is being
\* closed.
RaftPanicNeedsClose == kind = "raft watchers" /\ panicked => stage # "open"
============================================================================
