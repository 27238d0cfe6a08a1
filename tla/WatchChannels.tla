--------------------------- MODULE WatchChannels ---------------------------
(***************************************************************************)
(* What the three implementations of domain.StateStorage share: items with *)
(* a time to live, state events, and the buffered Go channels on which a   *)
(* watcher receives them.  A watcher is one call of Watch and the channel  *)
(* which that call makes; a key prefix is the set of the keys it matches.  *)
(***************************************************************************)
EXTENDS Naturals, Sequences

CONSTANTS
  Nodes,       \* the nodes of the cluster
  Clients,     \* the goroutines that call Get, Set, Delete and their multiple forms
  Keys,        \* the keys
  Watchers,    \* the calls of Watch, and the channels they make
  PrefixOf,    \* the prefix each of them watches, a set of keys
  Buffer,      \* the capacity of a watch channel
  MaxWrites    \* bound: the number of Sets and Deletes

ASSUME WritesAssumption == MaxWrites \in Nat

VARIABLES
  kind,        \* the implementation that is used
  writes,      \* the number of Sets and Deletes so far
  over,        \* the writes whose time to live is over
  chan,        \* the channels
  wst,         \* none: Watch not called; called, half: it is under way; on: it has
               \* returned and its goroutine waits for ctx.Done; cut, cut2: that
               \* goroutine removes the watcher; off: it has ended; gone: the node has
  panicked,    \* a goroutine sent on a closed channel or closed it again
  last,        \* history: the event of the last write of each key
  mixed,       \* history: the writes made while an earlier one of the key was not
               \* yet announced
  told,        \* history: the write of which the last event put into a channel for a
               \* key tells
  missed       \* history: the writes whose event did not get into a channel

historyVars == <<last, mixed, told, missed>>
sharedVars == <<kind, writes, over, chan, wst, panicked, historyVars>>

Stamps == 1..MaxWrites      \* a write is known by its number
Absent == [stamp |-> 0, ttl |-> FALSE]

\* storageItem: the value is the number of the Set that wrote it, 0 if there is none.
storageItem ==
  {item \in [stamp : 0..MaxWrites, ttl : BOOLEAN] : item.ttl => item.stamp \in Stamps}

\* Mutant: the time to live is over at once.
ExpiredAtOnce(item) == item.ttl

\* isExpired
isExpired(item) == item.ttl /\ item.stamp \in over

\* StateEvent, of a Set or a Delete.
StateEvent == [key : Keys, type : {"set", "delete"}, stamp : Stamps]
NoEvent == [type |-> "none", stamp |-> 0]

Channel == [buf : Seq(StateEvent), closed : BOOLEAN]
EmptyChannel == [buf |-> <<>>, closed |-> FALSE]

WatchStates == {"none", "called", "half", "on", "cut", "cut2", "off", "gone"}

SharedTypeOK ==
  /\ kind \in {"local", "redis", "raft", "raft watchers"}
  /\ writes \in 0..MaxWrites /\ over \subseteq Stamps
  /\ chan \in [Watchers -> Channel] /\ wst \in [Watchers -> WatchStates]
  /\ panicked \in BOOLEAN
  /\ last \in [Keys -> StateEvent \cup {NoEvent}] /\ mixed \subseteq Stamps
  /\ told \in [Watchers -> [Keys -> 0..MaxWrites]] /\ missed \in [Watchers -> SUBSET Stamps]

SharedInit ==
  /\ writes = 0 /\ over = {} /\ panicked = FALSE
  /\ chan = [w \in Watchers |-> EmptyChannel]
  /\ wst = [w \in Watchers |-> "none"]
  /\ last = [k \in Keys |-> NoEvent] /\ mixed = {}
  /\ told = [w \in Watchers |-> [k \in Keys |-> 0]] /\ missed = [w \in Watchers |-> {}]

IsFull(ch) == Len(ch.buf) >= Buffer

\* select { case ch <- event: default: }
TrySend(ch, event) ==
  IF IsFull(ch) THEN ch ELSE [ch EXCEPT !.buf = Append(@, event)]

\* select { case <-ch: default: close(ch) }
DrainOrClose(ch) ==
  IF ch.buf # <<>> THEN [ch EXCEPT !.buf = Tail(@)] ELSE [ch EXCEPT !.closed = TRUE]

\* The registered channels whose prefix matches the key.
Listeners(registered, key) == {w \in registered : key \in PrefixOf[w]}

\* An event is offered to channels; a send on a closed one panics.
Broadcast(to, event) ==
  /\ panicked' = (panicked \/ \E w \in to : chan[w].closed)
  /\ chan' = [w \in Watchers |-> IF w \in to THEN TrySend(chan[w], event) ELSE chan[w]]
  /\ told' = [w \in Watchers |->
       IF w \in to /\ ~IsFull(chan[w]) THEN [told[w] EXCEPT ![event.key] = event.stamp]
       ELSE told[w]]
  /\ missed' = [w \in Watchers |->
       IF w \in to /\ IsFull(chan[w]) THEN missed[w] \cup {event.stamp} ELSE missed[w]]

\* The reader of a channel.
Receive(w) ==
  /\ chan[w].buf # <<>>
  /\ chan' = [chan EXCEPT ![w].buf = Tail(@)]
  /\ UNCHANGED <<kind, writes, over, wst, panicked, historyVars>>

\* Time passes: the time to live of some write is over.
TimeToLiveEnds(items) ==
  /\ \E item \in items : item.ttl /\ ~isExpired(item) /\ over' = over \cup {item.stamp}
  /\ UNCHANGED <<kind, writes, chan, wst, panicked, historyVars>>

\* What a watcher was last told of a key is this write, unless the event of the write
\* missed the watcher or overtook another.
Knows(w, k, stamp) == told[w][k] \in {0, stamp} \/ stamp \in mixed \cup missed[w]
============================================================================
