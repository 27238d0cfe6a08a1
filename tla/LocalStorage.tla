---------------------------- MODULE LocalStorage ----------------------------
(***************************************************************************)
(* services/statestorage/local_storage.go.  The operations on sync.Map,    *)
(* the check of closed and the sends under watchMu are steps of their own. *)
(* A multiple call is a loop over single ones, and a single one is a       *)
(* multiple call for one key.                                              *)
(***************************************************************************)
EXTENDS WatchChannels

VARIABLES
  data,       \* sync.Map: key -> item, Absent if there is none
  op,         \* what each client is doing
  watches,    \* the registered channels, under their prefixes
  closedChans,
  closing,    \* open; clearing: Close holds closeMu and clears the data; closed
  toClear,    \* the keys that Close has still to delete
  raced,      \* history: keys stored while a Get was about to delete them
  late        \* history: watchers registered after Close

localVars == <<data, op, watches, closedChans, closing, toClear, raced, late>>

Idle == [do |-> "idle"]
Ops ==
  {Idle}
  \cup [do : {"load"}, todo : SUBSET Keys]
  \cup [do : {"purge"}, todo : SUBSET Keys, key : Keys]
  \cup [do : {"set"}, todo : SUBSET Keys, ttl : BOOLEAN]
  \cup [do : {"check", "send"}, todo : SUBSET Keys, ttl : BOOLEAN, event : StateEvent]

\* The types of the variables of LocalStorage.
LocalTypeOK ==
  /\ SharedTypeOK
  /\ data \in [Keys -> storageItem] /\ op \in [Clients -> Ops]
  /\ watches \subseteq Watchers /\ closedChans \subseteq Watchers
  /\ closing \in {"open", "clearing", "closed"} /\ toClear \subseteq Keys
  /\ raced \subseteq Keys /\ late \subseteq Watchers

\* NewLocalStorage
LocalInit ==
  /\ data = [k \in Keys |-> Absent] /\ op = [c \in Clients |-> Idle]
  /\ watches = {} /\ closedChans = {} /\ closing = "open" /\ toClear = {}
  /\ raced = {} /\ late = {}

Become(c, o) == op' = [op EXCEPT ![c] = o]
AfterGet(todo) == IF todo = {} THEN Idle ELSE [do |-> "load", todo |-> todo]
AfterSet(o) == IF o.todo = {} THEN Idle ELSE [do |-> "set", todo |-> o.todo, ttl |-> o.ttl]

\* Get, GetMultiple: data.Load of the first key; an expired item is to be deleted,
\* anything else ends this key.
LocalGet(c) ==
  /\ \/ op[c].do = "load"
     \/ op[c] = Idle /\ \E k \in Keys : isExpired(data[k])
  /\ \E todo \in (IF op[c] = Idle THEN SUBSET Keys \ {{}} ELSE {op[c].todo}) :
     \E k \in todo :
       Become(c, IF isExpired(data[k])
                   THEN [do |-> "purge", todo |-> todo \ {k}, key |-> k]
                   ELSE AfterGet(todo \ {k}))
  /\ UNCHANGED <<sharedVars, data, watches, closedChans, closing, toClear, raced, late>>

\* Get: data.Delete of whatever the key holds by now.
LocalPurge(c) ==
  /\ op[c].do = "purge"
  /\ data' = [data EXCEPT ![op[c].key] = Absent]
  /\ Become(c, AfterGet(op[c].todo))
  /\ UNCHANGED <<sharedVars, watches, closedChans, closing, toClear, raced, late>>

\* A client has written the key and not yet sent its event.
InFlight(c, k) == op[c].do \in {"check", "send"} /\ op[c].event.key = k

\* A key is written, by client c, which is then to notify the watchers.
LocalWrite(c, k, type, item, todo) ==
  /\ writes < MaxWrites
  /\ writes' = writes + 1
  /\ data' = [data EXCEPT ![k] = item]
  /\ last' = [last EXCEPT ![k] = [key |-> k, type |-> type, stamp |-> writes']]
  /\ Become(c, [do |-> "check", todo |-> todo, ttl |-> item.ttl, event |-> last'[k]])
  /\ raced' = IF \E d \in Clients : op[d].do = "purge" /\ op[d].key = k
                THEN raced \cup {k} ELSE raced \ {k}
  /\ mixed' = mixed \cup {s \in {writes'} : \E d \in Clients : InFlight(d, k)}
  /\ UNCHANGED <<kind, over, chan, wst, panicked, told, missed, watches, closedChans, closing, toClear, late>>

\* Set, SetMultiple: data.Store of the next key.
LocalSet(c) ==
  /\ op[c].do \in {"idle", "set"}
  /\ \E todo \in (IF op[c] = Idle THEN SUBSET Keys \ {{}} ELSE {op[c].todo}),
        ttl \in (IF op[c] = Idle THEN BOOLEAN ELSE {op[c].ttl}) :
     \E k \in todo : LocalWrite(c, k, "set", [stamp |-> writes + 1, ttl |-> ttl], todo \ {k})

\* Delete: data.Delete, whether or not there is an item.
LocalDelete(c) ==
  /\ op[c] = Idle
  /\ \E k \in Keys : LocalWrite(c, k, "delete", Absent, {})

\* notifyWatchers: closed is read under closeMu, which Close holds to its end.
LocalNotifyCheck(c) ==
  /\ op[c].do = "check" /\ closing # "clearing"
  /\ Become(c, IF closing = "closed" THEN AfterSet(op[c]) ELSE [op[c] EXCEPT !.do = "send"])
  /\ UNCHANGED <<sharedVars, data, watches, closedChans, closing, toClear, raced, late>>

\* notifyWatchers: the sends, under watchMu.
LocalNotifySend(c) ==
  /\ op[c].do = "send"
  /\ Broadcast(Listeners(watches, op[c].event.key), op[c].event)
  /\ Become(c, AfterSet(op[c]))
  /\ UNCHANGED <<kind, writes, over, wst, last, mixed,
                 data, watches, closedChans, closing, toClear, raced, late>>

\* Watch: closed is not looked at.
LocalWatch(w) ==
  /\ wst[w] = "none"
  /\ wst' = [wst EXCEPT ![w] = "on"]
  /\ watches' = watches \cup {w}
  /\ late' = IF closing = "open" THEN late ELSE late \cup {w}
  /\ UNCHANGED <<kind, writes, over, chan, panicked, historyVars,
                 data, op, closedChans, closing, toClear, raced>>

\* close(ch), guarded by closedChans.
closeChannelSafely(w) ==
  /\ closedChans' = closedChans \cup {w}
  /\ panicked' = (w \notin closedChans /\ chan[w].closed)
  /\ chan' = IF w \in closedChans THEN chan ELSE [chan EXCEPT ![w].closed = TRUE]

\* The context of a watcher is done: removeWatcherAndClose, which returns at once
\* if nobody is registered under the prefix.
LocalRemove(w) ==
  /\ wst[w] = "on"
  /\ wst' = [wst EXCEPT ![w] = "off"]
  /\ IF \A x \in watches : PrefixOf[x] # PrefixOf[w]
       THEN UNCHANGED <<watches, closedChans, chan, panicked>>
       ELSE watches' = watches \ {w} /\ closeChannelSafely(w)
  /\ UNCHANGED <<kind, writes, over, historyVars, data, op, closing, toClear, raced, late>>

\* Mutant: Close leaves the closed channels registered.
CloseKeepsWatches ==
  /\ closing = "open"
  /\ closing' = "clearing" /\ toClear' = Keys
  /\ chan' = [w \in Watchers |-> IF w \in watches \ closedChans
                THEN [chan[w] EXCEPT !.closed = TRUE] ELSE chan[w]]
  /\ closedChans' = watches
  /\ UNCHANGED <<kind, writes, over, wst, panicked, historyVars, data, op, watches, raced, late>>

\* Close: closed, the channels and the two maps, under three locks.
LocalClose ==
  /\ closing = "open"
  /\ closing' = "clearing" /\ toClear' = Keys
  /\ panicked' = (\E w \in watches \ closedChans : chan[w].closed)
  /\ chan' = [w \in Watchers |-> IF w \in watches \ closedChans
                THEN [chan[w] EXCEPT !.closed = TRUE] ELSE chan[w]]
  /\ watches' = {} /\ closedChans' = {}
  /\ UNCHANGED <<kind, writes, over, wst, historyVars, data, op, raced, late>>

\* Close: data.Range deletes key by key, without a lock on the data.
LocalClear ==
  /\ closing = "clearing"
  /\ \E k \in toClear :
       /\ data' = [data EXCEPT ![k] = Absent]
       /\ toClear' = toClear \ {k}
  /\ closing' = IF toClear' = {} THEN "closed" ELSE "clearing"
  /\ UNCHANGED <<sharedVars, op, watches, closedChans, raced, late>>

LocalNext ==
  /\ kind = "local" /\ ~panicked
  /\ \/ \E c \in Clients : \/ LocalGet(c) \/ LocalPurge(c) \/ LocalSet(c)
                           \/ LocalDelete(c) \/ LocalNotifyCheck(c) \/ LocalNotifySend(c)
     \/ \E w \in Watchers : LocalWatch(w) \/ LocalRemove(w)
     \/ \E w \in Watchers : Receive(w) /\ UNCHANGED localVars
     \/ TimeToLiveEnds({data[k] : k \in Keys}) /\ UNCHANGED localVars
     \/ LocalClose
     \/ LocalClear

-----------------------------------------------------------------------------
\* A value that was stored, has not expired and was neither overwritten, deleted nor
\* cleared by Close is there to be read, unless it was stored while a Get that had
\* found an expired item under the key was about to delete that one.
StoredValueFound ==
  \A k \in Keys :
    (/\ kind = "local" /\ closing = "open" /\ k \notin raced
     /\ last[k].type = "set" /\ last[k].stamp \notin over)
    => data[k].stamp = last[k].stamp

\* The last event that a watcher was sent for a key is that of the last write of the
\* key once none is in flight, unless it found its channel full or two writers of the
\* key were between their store and their notification at once.
LocalLastEventTells ==
  \A w \in watches \ late, k \in Keys :
    (\A c \in Clients : ~InFlight(c, k)) => Knows(w, k, last[k].stamp)

\* The channel of a watcher that was removed, or of one that was registered when the
\* storage was closed, is closed.
LocalEndedWatchersClosed ==
  kind = "local" => \A w \in Watchers \ late :
    (wst[w] = "off" \/ (wst[w] = "on" /\ closing # "open")) => chan[w].closed

\* No goroutine sends on a closed channel or closes one twice, unless Watch was
\* called after Close.
PanicNeedsLateWatch == kind = "local" /\ panicked => late # {}
============================================================================
