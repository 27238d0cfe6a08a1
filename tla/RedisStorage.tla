---------------------------- MODULE RedisStorage ----------------------------
(***************************************************************************)
(* services/statestorage/redis_storage.go, on several nodes that share one *)
(* Redis server.  The server is external: it executes one command at a     *)
(* time and sends what is published to every subscription in that order;   *)
(* a command or a subscription may fail.  The node a watcher is on is      *)
(* HostOf; a client calls on any node.  A single call is a multiple call   *)
(* for one key.                                                            *)
(***************************************************************************)
EXTENDS WatchChannels

CONSTANT HostOf

VARIABLES
  store,      \* the server: the keys that have a value
  feed,       \* the server: what each subscription has still to receive
  call,       \* what each client is doing
  monitor,    \* processPubSubMessages of each node
  watchers,   \* the registered channels of all nodes
  phase,      \* Close of each node: open; flagged: closed is set; closed: all is done
  drained     \* history: watchers whose end took an event instead of closing

redisVars == <<store, feed, call, monitor, watchers, phase, drained>>

\* A node without watchers drops what it receives, so its subscription is left out; to
\* close it makes the calls on it fail, which they may do anyway.
Subscribed == {HostOf[w] : w \in Watchers}

Quiet == [do |-> "quiet"]
Calls ==
  {Quiet}
  \cup [do : {"write"}, node : Nodes, keys : SUBSET Keys, events : SUBSET StateEvent]
  \cup [do : {"publish"}, node : Nodes, events : SUBSET StateEvent]
Monitors == {[do |-> "wait"], [do |-> "ended"]} \cup [do : {"check", "send"}, event : StateEvent]

\* The types of the variables of RedisStorage.
RedisTypeOK ==
  /\ SharedTypeOK
  /\ store \subseteq Keys
  /\ feed \in [Subscribed -> Seq([event : StateEvent, from : Nodes])]
  /\ call \in [Clients -> Calls] /\ monitor \in [Subscribed -> Monitors]
  /\ watchers \subseteq Watchers /\ drained \subseteq Watchers
  /\ phase \in [Subscribed -> {"open", "flagged", "closed"}]

\* NewRedisStorage and startPubSubMonitoring, on every node.
RedisInit ==
  /\ store = {} /\ feed = [n \in Subscribed |-> <<>>]
  /\ call = [c \in Clients |-> Quiet] /\ monitor = [n \in Subscribed |-> [do |-> "wait"]]
  /\ watchers = {} /\ phase = [n \in Subscribed |-> "open"] /\ drained = {}

On(n) == {w \in Watchers : HostOf[w] = n}
isClosed(n) == n \in Subscribed /\ phase[n] # "open"
Disconnected(n) == n \in Subscribed /\ phase[n] = "closed"

\* These events do not reach these watchers.
Lose(events, ws) ==
  missed' = [w \in Watchers |-> missed[w] \cup (IF w \in ws THEN {e.stamp : e \in events} ELSE {})]

\* A client has changed the key and not yet published that.
Unpublished(c, k) ==
  call[c].do \in {"write", "publish"} /\ \E e \in call[c].events : e.key = k

\* The server changes a key.
Change(k, type) ==
  /\ writes < MaxWrites
  /\ writes' = writes + 1
  /\ store' = IF type = "set" THEN store \cup {k} ELSE store \ {k}
  /\ last' = [last EXCEPT ![k] = [key |-> k, type |-> type, stamp |-> writes']]
  /\ mixed' = mixed \cup {s \in {writes'} : \E c \in Clients : Unpublished(c, k)}

\* Set, SetMultiple, which have found closed not set, at some time before: the server
\* executes the next SET or SETEX of the pipeline.
RedisSet(c) ==
  /\ \E set \in (IF call[c] = Quiet
                  THEN [do : {"write"}, node : Nodes, keys : SUBSET Keys, events : {{}}]
                  ELSE {call[c]}) :
       /\ set.do = "write" /\ ~Disconnected(set.node)
       /\ \E k \in set.keys :
            /\ Change(k, "set")
            /\ LET rest == set.keys \ {k}
                   events == set.events \cup {last'[k]}
               IN call' = [call EXCEPT ![c] =
                    IF rest = {} THEN [do |-> "publish", node |-> set.node, events |-> events]
                    ELSE [set EXCEPT !.keys = rest, !.events = events]]
  /\ UNCHANGED <<kind, over, chan, wst, panicked, told, missed, feed, monitor, watchers, phase, drained>>

\* Delete, likewise: the server executes DEL; only a key that was there is announced.
RedisDelete(c) ==
  /\ call[c] = Quiet
  /\ \E n \in Nodes, k \in store :
       /\ ~Disconnected(n)
       /\ Change(k, "delete")
       /\ call' = [call EXCEPT ![c] = [do |-> "publish", node |-> n, events |-> {last'[k]}]]
  /\ UNCHANGED <<kind, over, chan, wst, panicked, told, missed, feed, monitor, watchers, phase, drained>>

\* SetMultiple: a command of the pipeline fails or its reply is lost; the call returns
\* an error, and what the server has executed is not announced.
RedisCallFails(c) ==
  /\ call[c].do = "write"
  /\ call' = [call EXCEPT ![c] = Quiet]
  /\ Lose(call[c].events, Watchers)
  /\ UNCHANGED <<kind, writes, over, chan, wst, panicked, last, mixed, told,
                 store, feed, monitor, watchers, phase, drained>>

\* publishStateEvent for the next event: nothing if closed, and PUBLISH may fail, or the
\* call has returned an error before.
RedisPublish(c) ==
  /\ call[c].do = "publish"
  /\ \E e \in call[c].events :
       /\ call' = [call EXCEPT ![c] = IF call[c].events = {e} THEN Quiet
                                      ELSE [call[c] EXCEPT !.events = @ \ {e}]]
       /\ \/ /\ ~isClosed(call[c].node)
             /\ feed' = [n \in Subscribed |-> IF isClosed(n) THEN feed[n]
                           ELSE Append(feed[n], [event |-> e, from |-> call[c].node])]
             /\ UNCHANGED missed
          \/ Lose({e}, Watchers) /\ UNCHANGED feed
  /\ UNCHANGED <<kind, writes, over, chan, wst, panicked, last, mixed, told,
                 store, monitor, watchers, phase, drained>>

\* The connection of a subscription breaks; what was under way is lost.
RedisFeedLost(n) ==
  /\ feed[n] # <<>>
  /\ feed' = [feed EXCEPT ![n] = <<>>]
  /\ Lose({feed[n][i].event : i \in 1..Len(feed[n])}, On(n))
  /\ UNCHANGED <<kind, writes, over, chan, wst, panicked, last, mixed, told,
                 store, call, monitor, watchers, phase, drained>>

\* processPubSubMessages: on a tick the loop ends if closed, else receives.
\* handlePubSubMessage: an event of the node itself is skipped.
RedisMonitor(n) ==
  /\ monitor[n].do = "wait"
  /\ IF isClosed(n)
       THEN /\ monitor' = [monitor EXCEPT ![n] = [do |-> "ended"]]
            /\ UNCHANGED <<feed, missed>>
       ELSE /\ feed[n] # <<>>
            /\ feed' = [feed EXCEPT ![n] = Tail(@)]
            /\ LET msg == Head(feed[n])
               IN IF msg.from = n
                    THEN Lose({msg.event}, On(n)) /\ UNCHANGED monitor
                    ELSE /\ monitor' = [monitor EXCEPT ![n] =
                                          [do |-> "check", event |-> msg.event]]
                         /\ UNCHANGED missed
  /\ UNCHANGED <<kind, writes, over, chan, wst, panicked, last, mixed, told,
                 store, call, watchers, phase, drained>>

\* notifyWatchers: isClosed.
RedisNotifyCheck(n) ==
  /\ monitor[n].do = "check"
  /\ monitor' = [monitor EXCEPT ![n] = IF isClosed(n) THEN [do |-> "wait"]
                                       ELSE [@ EXCEPT !.do = "send"]]
  /\ UNCHANGED <<sharedVars, store, feed, call, watchers, phase, drained>>

\* notifyWatchers: the sends, under watchersMu.
RedisNotifySend(n) ==
  /\ monitor[n].do = "send"
  /\ Broadcast(Listeners(watchers \cap On(n), monitor[n].event.key), monitor[n].event)
  /\ monitor' = [monitor EXCEPT ![n] = [do |-> "wait"]]
  /\ UNCHANGED <<kind, writes, over, wst, last, mixed, store, feed, call, watchers, phase, drained>>

\* Watch: checkClosed.
RedisWatchCheck(w) ==
  /\ wst[w] = "none" /\ ~isClosed(HostOf[w])
  /\ wst' = [wst EXCEPT ![w] = "called"]
  /\ UNCHANGED <<kind, writes, over, chan, panicked, historyVars, redisVars>>

\* Watch: the channel is registered.
RedisWatch(w) ==
  /\ wst[w] = "called"
  /\ wst' = [wst EXCEPT ![w] = "on"]
  /\ watchers' = watchers \cup {w}
  /\ UNCHANGED <<kind, writes, over, chan, panicked, historyVars,
                 store, feed, call, monitor, phase, drained>>

\* These channels are ended: an event that waits is taken, else the channel is closed.
End(ws) ==
  /\ chan' = [w \in Watchers |-> IF w \in ws THEN DrainOrClose(chan[w]) ELSE chan[w]]
  /\ drained' = drained \cup {w \in ws : chan[w].buf # <<>>}

\* The context of a watcher is done: removeWatcherAndClose, which returns at once
\* if nobody is registered under the prefix.
RedisRemove(w) ==
  /\ wst[w] = "on"
  /\ wst' = [wst EXCEPT ![w] = "off"]
  /\ IF \A x \in watchers \cap On(HostOf[w]) : PrefixOf[x] # PrefixOf[w]
       THEN UNCHANGED <<watchers, chan, drained>>
       ELSE watchers' = watchers \ {w} /\ End({w})
  /\ UNCHANGED <<kind, writes, over, panicked, historyVars, store, feed, call, monitor, phase>>

\* Close: closed is set and the subscription closed.
RedisClose(n) ==
  /\ phase[n] = "open"
  /\ phase' = [phase EXCEPT ![n] = "flagged"]
  /\ feed' = [m \in Subscribed |-> IF m = n THEN <<>> ELSE feed[m]]
  /\ UNCHANGED <<sharedVars, store, call, monitor, watchers, drained>>

\* Mutant: Close forgets the watchers without ending their channels.
ForgetAll(n) ==
  /\ phase[n] = "flagged"
  /\ phase' = [phase EXCEPT ![n] = "closed"]
  /\ watchers' = watchers \ On(n)
  /\ UNCHANGED <<sharedVars, store, feed, call, monitor, drained>>

\* Close: closeAllWatchers, and the client is closed.
RedisCloseAll(n) ==
  /\ phase[n] = "flagged"
  /\ phase' = [phase EXCEPT ![n] = "closed"]
  /\ watchers' = watchers \ On(n)
  /\ End(watchers \cap On(n))
  /\ UNCHANGED <<kind, writes, over, wst, panicked, historyVars, store, feed, call, monitor>>

\* The server drops a key that was set with a time to live, and tells nobody.
RedisExpire ==
  /\ \E k \in store : store' = store \ {k}
  /\ UNCHANGED <<sharedVars, feed, call, monitor, watchers, phase, drained>>

RedisNext ==
  /\ kind = "redis"
  /\ \/ \E c \in Clients : \/ RedisSet(c) \/ RedisDelete(c)
                           \/ RedisCallFails(c) \/ RedisPublish(c)
     \/ \E n \in Subscribed : \/ RedisFeedLost(n) \/ RedisMonitor(n) \/ RedisNotifyCheck(n)
                              \/ RedisNotifySend(n) \/ RedisClose(n) \/ RedisCloseAll(n)
     \/ \E w \in Watchers : RedisWatchCheck(w) \/ RedisWatch(w) \/ RedisRemove(w)
     \/ \E w \in Watchers : Receive(w) /\ UNCHANGED redisVars
     \/ RedisExpire

-----------------------------------------------------------------------------
\* An event for the key is on its way to a node.
OnTheWay(n, k) ==
  \/ \E c \in Clients : Unpublished(c, k)
  \/ \E i \in 1..Len(feed[n]) : feed[n][i].event.key = k
  \/ monitor[n].do \in {"check", "send"} /\ monitor[n].event.key = k

\* While its storage is open, the last event that a watcher was sent for a key is that
\* of the last change of the key once none is on its way, unless that event was lost
\* (PUBLISH or the subscription failed, the channel was full), was of the watcher's own
\* node, or two clients were between their command and their PUBLISH at once.
RedisLastEventTells ==
  \A w \in watchers, k \in Keys :
    (~isClosed(HostOf[w]) /\ ~OnTheWay(HostOf[w], k)) => Knows(w, k, last[k].stamp)

\* The channel of a watcher that was removed, or was registered before its node had
\* closed all watchers, is closed, unless an event was waiting in it at that moment.
RedisEndedWatchersClosed ==
  kind = "redis" => \A w \in Watchers \ drained :
    (\/ wst[w] = "off"
     \/ wst[w] = "on" /\ phase[HostOf[w]] = "closed" /\ w \notin watchers)
    => chan[w].closed

\* No goroutine of Redis storage sends on a closed channel or closes one twice.
RedisNoPanic == kind = "redis" => ~panicked
============================================================================
