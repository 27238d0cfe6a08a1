--------------------------- MODULE StorageProofs ---------------------------
(***************************************************************************)
(* The three storages, for any clients, keys, watchers, prefixes, nodes    *)
(* and buffers.  First their watch channels: which goroutines may panic on *)
(* one (none of Redis storage; of local storage only after a Watch that    *)
(* came after Close; of Raft storage only while the storage is being       *)
(* closed), and that the channel of a watcher that has ended is closed.    *)
(* Then their values: local storage holds what its clients stored, and the *)
(* map that each Raft node keeps is what its log says, through snapshots,  *)
(* restarts and expiry.                                                    *)
(***************************************************************************)
EXTENDS StateStorage, WellFoundedInduction, TLAPS

\* The channels are channels, and each watcher is somewhere.
Shape ==
  /\ DOMAIN chan = Watchers /\ \A w \in Watchers : "closed" \in DOMAIN chan[w]
  /\ DOMAIN wst = Watchers

IsClosedChan(w) == chan[w].closed

\* A channel that Redis storage sends to is open, and so is one not yet registered.
RedisOpen ==
  kind = "redis" =>
    /\ ~panicked
    /\ watchers \subseteq Watchers
    /\ \A w \in watchers : wst[w] = "on" /\ ~IsClosedChan(w)
    /\ \A w \in Watchers : wst[w] \in {"none", "called"} => ~IsClosedChan(w)

\* The same of local storage as long as no Watch came after Close: until Close every
\* watcher is registered, and afterwards none.
LocalOpen ==
  kind = "local" /\ late = {} =>
    /\ ~panicked
    /\ watches \subseteq Watchers
    /\ \A w \in watches : wst[w] = "on" /\ ~IsClosedChan(w)
    /\ \A w \in Watchers : wst[w] = "none" => ~IsClosedChan(w)
    /\ closing = "open" => \A w \in Watchers : wst[w] = "on" => w \in watches
    /\ closing # "open" => watches = {}

\* The same of Raft storage until Close: a channel is closed after it has left the
\* state machine.
RaftOpen ==
  kind = "raft watchers" /\ stage = "open" =>
    /\ ~panicked
    /\ fsmChans \subseteq Watchers
    /\ \A w \in fsmChans : wst[w] \in {"on", "cut"}
    /\ \A w \in Watchers : wst[w] # "off" => ~IsClosedChan(w)

OpenInv == Shape /\ RedisOpen /\ LocalOpen /\ RaftOpen

\* A broadcast to open channels closes none, and does not panic.
LEMMA BroadcastKeeps ==
  ASSUME Shape, NEW to, to \subseteq Watchers, NEW e, Broadcast(to, e)
  PROVE  /\ DOMAIN chan' = Watchers
         /\ \A w \in Watchers : "closed" \in DOMAIN chan'[w] /\ chan'[w].closed = chan[w].closed
         /\ (~panicked /\ \A w \in to : ~IsClosedChan(w)) => ~panicked'
<1>1. chan' = [w \in Watchers |-> IF w \in to THEN TrySend(chan[w], e) ELSE chan[w]]
  BY Zenon DEF Broadcast
<1>2. \A w \in Watchers : /\ "closed" \in DOMAIN TrySend(chan[w], e)
                          /\ TrySend(chan[w], e).closed = chan[w].closed
  BY Zenon DEF Shape, TrySend
<1>3. panicked' = (panicked \/ \E w \in to : chan[w].closed)
  BY Zenon DEF Broadcast
<1>4. (~panicked /\ \A w \in to : ~IsClosedChan(w)) => ~panicked'
  BY <1>3, Zenon DEF IsClosedChan
<1>5. QED
  BY <1>1, <1>2, <1>4, Zenon DEF Shape

\* A reader leaves the channels open or closed as they are.
LEMMA ReceiveKeeps ==
  ASSUME Shape, NEW v \in Watchers, Receive(v)
  PROVE  /\ DOMAIN chan' = Watchers
         /\ \A w \in Watchers : "closed" \in DOMAIN chan'[w] /\ chan'[w].closed = chan[w].closed
         /\ UNCHANGED <<kind, wst, panicked>>
<1>1. chan' = [chan EXCEPT ![v].buf = Tail(@)] /\ UNCHANGED <<kind, wst, panicked>>
  BY Zenon DEF Receive
<1>2. \A w \in Watchers : "closed" \in DOMAIN chan'[w] /\ chan'[w].closed = chan[w].closed
  BY <1>1, Zenon DEF Shape
<1>3. QED
  BY <1>1, <1>2, Zenon DEF Shape

\* DrainOrClose leaves a channel a channel; the channels that are not ended keep theirs.
LEMMA EndKeeps ==
  ASSUME Shape, NEW ws,
         chan' = [w \in Watchers |-> IF w \in ws THEN DrainOrClose(chan[w]) ELSE chan[w]]
  PROVE  /\ DOMAIN chan' = Watchers
         /\ \A w \in Watchers : "closed" \in DOMAIN chan'[w]
         /\ \A w \in Watchers \ ws : chan'[w] = chan[w]
<1>1. \A w \in Watchers : "closed" \in DOMAIN DrainOrClose(chan[w])
  BY Zenon DEF Shape, DrainOrClose
<1>2. QED
  BY <1>1, Zenon DEF Shape

\* The steps of the channels' readers keep the invariant.
LEMMA ReaderKeepsOpen ==
  ASSUME OpenInv, NEW v \in Watchers, Receive(v),
         UNCHANGED <<localVars, redisVars, raftWatchVars>>
  PROVE  OpenInv'
<1>1. /\ DOMAIN chan' = Watchers
      /\ \A w \in Watchers : "closed" \in DOMAIN chan'[w] /\ chan'[w].closed = chan[w].closed
      /\ UNCHANGED <<kind, wst, panicked>>
  BY ReceiveKeeps, Zenon DEF OpenInv
<1>2. UNCHANGED <<watchers, watches, late, closing, fsmChans, stage>>
  BY Zenon DEF localVars, redisVars, raftWatchVars
<1>3. Shape'
  BY <1>1, Zenon DEF OpenInv, Shape
<1>4. RedisOpen'
  BY <1>1, <1>2, Zenon DEF OpenInv, RedisOpen, IsClosedChan
<1>5. LocalOpen'
  BY <1>1, <1>2, Zenon DEF OpenInv, LocalOpen, IsClosedChan
<1>6. RaftOpen'
  BY <1>1, <1>2, Zenon DEF OpenInv, RaftOpen, IsClosedChan
<1>7. QED
  BY <1>3, <1>4, <1>5, <1>6, Zenon DEF OpenInv

-----------------------------------------------------------------------------
\* Every step of Redis storage keeps its channels open while it sends to them.
LEMMA RedisKeepsOpen ==
  ASSUME OpenInv, RedisNext, UNCHANGED <<localVars, raftVars, raftWatchVars>>
  PROVE  OpenInv'
<1> USE DEF OpenInv
<1>1. kind = "redis"
  BY Zenon DEF RedisNext
<1>2. SUFFICES kind' = kind /\ Shape' /\ RedisOpen'
  BY <1>1, Zenon DEF LocalOpen, RaftOpen
<1>3. ASSUME UNCHANGED <<kind, chan, wst, panicked, watchers>>
      PROVE  kind' = kind /\ Shape' /\ RedisOpen'
  BY SMTT(30), <1>3 DEF Shape, RedisOpen, IsClosedChan
<1>4. ASSUME NEW c \in Clients,
             RedisSet(c) \/ RedisDelete(c) \/ RedisCallFails(c) \/ RedisPublish(c)
      PROVE  kind' = kind /\ Shape' /\ RedisOpen'
  BY <1>3, <1>4, Zenon DEF RedisSet, RedisDelete, RedisCallFails, RedisPublish
<1>5. ASSUME NEW n \in Subscribed,
             RedisFeedLost(n) \/ RedisMonitor(n) \/ RedisNotifyCheck(n) \/ RedisClose(n)
      PROVE  kind' = kind /\ Shape' /\ RedisOpen'
  BY <1>3, <1>5, Zenon DEF RedisFeedLost, RedisMonitor, RedisNotifyCheck, RedisClose,
     sharedVars
<1>6. ASSUME NEW n \in Subscribed, RedisNotifySend(n)
      PROVE  kind' = kind /\ Shape' /\ RedisOpen'
  <2> DEFINE to == Listeners(watchers \cap On(n), monitor[n].event.key)
  <2>1. Broadcast(to, monitor[n].event) /\ UNCHANGED <<kind, wst, watchers>>
    BY <1>6, Zenon DEF RedisNotifySend
  <2>2. to \subseteq Watchers /\ to \subseteq watchers
    BY <1>1, Zenon DEF Listeners, RedisOpen
  <2> HIDE DEF to
  <2>3. /\ DOMAIN chan' = Watchers
        /\ \A w \in Watchers : "closed" \in DOMAIN chan'[w] /\ chan'[w].closed = chan[w].closed
        /\ (~panicked /\ \A w \in to : ~IsClosedChan(w)) => ~panicked'
    BY <2>1, <2>2, BroadcastKeeps, Zenon
  <2>4. ~panicked'
    BY <1>1, <2>2, <2>3, Zenon DEF RedisOpen
  <2>5. QED
    BY <2>1, <2>3, <2>4, Zenon DEF Shape, RedisOpen, IsClosedChan
<1>7. ASSUME NEW n \in Subscribed, RedisCloseAll(n)
      PROVE  kind' = kind /\ Shape' /\ RedisOpen'
  <2>1. /\ UNCHANGED <<kind, wst, panicked>> /\ watchers' = watchers \ On(n)
        /\ chan' = [w \in Watchers |-> IF w \in watchers \cap On(n) THEN DrainOrClose(chan[w])
                                       ELSE chan[w]]
    BY <1>7, Zenon DEF RedisCloseAll, End
  <2>2. /\ DOMAIN chan' = Watchers
        /\ \A w \in Watchers : "closed" \in DOMAIN chan'[w]
        /\ \A w \in Watchers \ (watchers \cap On(n)) : chan'[w] = chan[w]
    BY <2>1, EndKeeps, Zenon
  <2>3. QED
    BY <1>1, <2>1, <2>2, Zenon DEF Shape, RedisOpen, IsClosedChan
<1>8. ASSUME NEW w \in Watchers, RedisWatchCheck(w) \/ RedisWatch(w)
      PROVE  kind' = kind /\ Shape' /\ RedisOpen'
  <2>1. CASE RedisWatchCheck(w)
    BY <1>1, <2>1, Zenon DEF RedisWatchCheck, redisVars, Shape, RedisOpen, IsClosedChan
  <2>2. CASE RedisWatch(w)
    BY <1>1, <2>2, Zenon DEF RedisWatch, Shape, RedisOpen, IsClosedChan
  <2>3. QED
    BY <1>8, <2>1, <2>2, Zenon
<1>9. ASSUME NEW w \in Watchers, RedisRemove(w)
      PROVE  kind' = kind /\ Shape' /\ RedisOpen'
  <2>1. wst[w] = "on" /\ wst' = [wst EXCEPT ![w] = "off"] /\ UNCHANGED <<kind, panicked>>
    BY <1>9, Zenon DEF RedisRemove
  <2>2. CASE \A x \in watchers \cap On(HostOf[w]) : PrefixOf[x] # PrefixOf[w]
    <3>1. UNCHANGED <<watchers, chan>> /\ w \notin watchers
      BY <1>9, <2>2, Zenon DEF RedisRemove, On
    <3>2. QED
      BY <1>1, <2>1, <3>1, Zenon DEF Shape, RedisOpen, IsClosedChan
  <2>3. CASE ~\A x \in watchers \cap On(HostOf[w]) : PrefixOf[x] # PrefixOf[w]
    <3>1. /\ watchers' = watchers \ {w}
          /\ chan' = [v \in Watchers |-> IF v \in {w} THEN DrainOrClose(chan[v]) ELSE chan[v]]
      BY <1>9, <2>3, Zenon DEF RedisRemove, End
    <3>2. /\ DOMAIN chan' = Watchers
          /\ \A v \in Watchers : "closed" \in DOMAIN chan'[v]
          /\ \A v \in Watchers \ {w} : chan'[v] = chan[v]
      BY <3>1, EndKeeps, Zenon
    <3>3. QED
      BY <1>1, <2>1, <3>1, <3>2, Zenon DEF Shape, RedisOpen, IsClosedChan
  <2>4. QED
    BY <2>2, <2>3, Zenon
<1>10. ASSUME NEW w \in Watchers, Receive(w), UNCHANGED redisVars
       PROVE  kind' = kind /\ Shape' /\ RedisOpen'
  BY <1>10, ReaderKeepsOpen, Zenon DEF Receive
<1>11. CASE RedisExpire
  BY <1>3, <1>11, Zenon DEF RedisExpire, sharedVars
<1>12. QED
  BY <1>4, <1>5, <1>6, <1>7, <1>8, <1>9, <1>10, <1>11, Zenon DEF RedisNext

-----------------------------------------------------------------------------
\* Every step of local storage keeps its channels so until a Watch comes too late.
LEMMA LocalKeepsOpen ==
  ASSUME OpenInv, LocalNext, UNCHANGED <<redisVars, raftVars, raftWatchVars>>
  PROVE  OpenInv'
<1> USE DEF OpenInv
<1>1. kind = "local"
  BY Zenon DEF LocalNext
<1>2. SUFFICES kind' = kind /\ Shape' /\ LocalOpen'
  BY <1>1, Zenon DEF RedisOpen, RaftOpen
<1>3. ASSUME UNCHANGED <<kind, chan, wst, panicked, watches, closing, late>>
      PROVE  kind' = kind /\ Shape' /\ LocalOpen'
  BY SMTT(30), <1>3 DEF Shape, LocalOpen, IsClosedChan
<1>4. ASSUME NEW c \in Clients,
             LocalGet(c) \/ LocalPurge(c) \/ LocalSet(c) \/ LocalDelete(c) \/ LocalNotifyCheck(c)
      PROVE  kind' = kind /\ Shape' /\ LocalOpen'
  BY ZenonT(60), <1>3, <1>4 DEF LocalGet, LocalPurge, LocalSet, LocalDelete,
     LocalWrite, LocalNotifyCheck, sharedVars
<1>5. ASSUME NEW c \in Clients, LocalNotifySend(c)
      PROVE  kind' = kind /\ Shape' /\ LocalOpen'
  <2> DEFINE to == Listeners(watches, op[c].event.key)
  <2>1. Broadcast(to, op[c].event) /\ UNCHANGED <<kind, wst, watches, closing, late>>
    BY <1>5, Zenon DEF LocalNotifySend
  <2>2. CASE late = {}
    <3>1. to \subseteq Watchers /\ to \subseteq watches
      BY <1>1, <2>2, Zenon DEF Listeners, LocalOpen
    <3> HIDE DEF to
    <3>2. /\ DOMAIN chan' = Watchers
          /\ \A w \in Watchers : "closed" \in DOMAIN chan'[w] /\ chan'[w].closed = chan[w].closed
          /\ (~panicked /\ \A w \in to : ~IsClosedChan(w)) => ~panicked'
      BY <2>1, <3>1, BroadcastKeeps, Zenon
    <3>3. ~panicked'
      BY SMTT(30), <1>1, <2>2, <3>1, <3>2 DEF LocalOpen
    <3>4. QED
      BY <2>1, <3>2, <3>3, Zenon DEF Shape, LocalOpen, IsClosedChan
  <2>3. CASE late # {}
    <3>1. chan' = [w \in Watchers |-> IF w \in to THEN TrySend(chan[w], op[c].event) ELSE chan[w]]
      BY <2>1, Zenon DEF Broadcast
    <3>2. \A w \in Watchers : "closed" \in DOMAIN TrySend(chan[w], op[c].event)
      BY Zenon DEF Shape, TrySend
    <3> HIDE DEF to
    <3>3. QED
      BY SMTT(30), <2>1, <2>3, <3>1, <3>2 DEF Shape, LocalOpen
  <2>4. QED
    BY <2>2, <2>3, Zenon
<1>6. ASSUME NEW w \in Watchers, LocalWatch(w)
      PROVE  kind' = kind /\ Shape' /\ LocalOpen'
  <2>1. /\ wst[w] = "none" /\ wst' = [wst EXCEPT ![w] = "on"]
        /\ watches' = watches \cup {w}
        /\ late' = IF closing = "open" THEN late ELSE late \cup {w}
        /\ UNCHANGED <<kind, chan, panicked, closing>>
    BY <1>6, Zenon DEF LocalWatch
  <2>2. late' = {} => late = {} /\ closing = "open"
    BY <2>1, Zenon
  <2>3. QED
    BY <1>1, <2>1, <2>2, Zenon DEF Shape, LocalOpen, IsClosedChan
<1>7. ASSUME NEW w \in Watchers, LocalRemove(w)
      PROVE  kind' = kind /\ Shape' /\ LocalOpen'
  <2>1. /\ wst[w] = "on" /\ wst' = [wst EXCEPT ![w] = "off"]
        /\ UNCHANGED <<kind, closing, late>>
    BY <1>7, Zenon DEF LocalRemove
  <2>2. CASE \A x \in watches : PrefixOf[x] # PrefixOf[w]
    <3>1. UNCHANGED <<watches, chan, panicked>> /\ w \notin watches
      BY <1>7, <2>2, Zenon DEF LocalRemove
    <3>2. QED
      BY <1>1, <2>1, <3>1, Zenon DEF Shape, LocalOpen, IsClosedChan
  <2>3. CASE ~\A x \in watches : PrefixOf[x] # PrefixOf[w]
    <3>1. /\ watches' = watches \ {w}
          /\ panicked' = (w \notin closedChans /\ chan[w].closed)
          /\ chan' = IF w \in closedChans THEN chan ELSE [chan EXCEPT ![w].closed = TRUE]
      BY <1>7, <2>3, Zenon DEF LocalRemove, closeChannelSafely
    <3>2. /\ DOMAIN chan' = Watchers
          /\ \A v \in Watchers : "closed" \in DOMAIN chan'[v]
          /\ \A v \in Watchers \ {w} : chan'[v] = chan[v]
      BY <3>1, Zenon DEF Shape
    <3>3. late = {} => ~IsClosedChan(w)
      BY <1>1, <2>1, <2>3, Zenon DEF LocalOpen
    <3>4. late = {} => ~panicked'
      BY <3>1, <3>3, Zenon DEF IsClosedChan
    <3>5. QED
      BY <1>1, <2>1, <3>1, <3>2, <3>4, Zenon DEF Shape, LocalOpen, IsClosedChan
  <2>4. QED
    BY <2>2, <2>3, Zenon
<1>8. ASSUME NEW w \in Watchers, Receive(w), UNCHANGED localVars
      PROVE  kind' = kind /\ Shape' /\ LocalOpen'
  BY <1>8, ReaderKeepsOpen, Zenon DEF Receive
<1>9. CASE TimeToLiveEnds({data[k] : k \in Keys}) /\ UNCHANGED localVars
  BY <1>3, <1>9, Zenon DEF TimeToLiveEnds, localVars
<1>10. CASE LocalClose
  <2>1. /\ closing' = "clearing" /\ watches' = {} /\ UNCHANGED <<kind, wst, late>>
        /\ panicked' = (\E w \in watches \ closedChans : chan[w].closed)
        /\ chan' = [w \in Watchers |-> IF w \in watches \ closedChans
                      THEN [chan[w] EXCEPT !.closed = TRUE] ELSE chan[w]]
    BY <1>10, Zenon DEF LocalClose
  <2>2. Shape'
    BY <2>1, Zenon DEF Shape
  <2>3. late = {} => ~panicked'
    BY <1>1, <2>1, Zenon DEF LocalOpen, IsClosedChan
  <2>4. late = {} => \A w \in Watchers : wst[w] = "none" => w \notin watches
    BY <1>1, <1>10, Zenon DEF LocalOpen, LocalClose
  <2>5. QED
    BY <1>1, <2>1, <2>2, <2>3, <2>4, Zenon DEF LocalOpen, IsClosedChan
<1>11. CASE LocalClear
  <2>1. /\ UNCHANGED <<kind, chan, wst, panicked, watches, late>>
        /\ closing # "open" /\ closing' # "open"
    BY <1>11, Zenon DEF LocalClear, sharedVars
  <2>2. QED
    BY <1>1, <2>1, Zenon DEF Shape, LocalOpen, IsClosedChan
<1>12. QED
  BY <1>4, <1>5, <1>6, <1>7, <1>8, <1>9, <1>10, <1>11, Zenon DEF LocalNext

-----------------------------------------------------------------------------
\* Every step of Raft storage keeps its channels so until Close.
LEMMA RaftKeepsOpen ==
  ASSUME OpenInv, RaftWatchNext, UNCHANGED <<localVars, redisVars, raftVars>>
  PROVE  OpenInv'
<1> USE DEF OpenInv
<1>1. kind = "raft watchers"
  BY Zenon DEF RaftWatchNext
<1>2. SUFFICES kind' = kind /\ Shape' /\ RaftOpen'
  BY <1>1, Zenon DEF RedisOpen, LocalOpen
<1>3. ASSUME UNCHANGED <<kind, chan, wst, panicked, fsmChans, stage>>
      PROVE  kind' = kind /\ Shape' /\ RaftOpen'
  BY <1>3, Zenon DEF Shape, RaftOpen, IsClosedChan
<1>4. CASE RaftAnnounce \/ RaftRestore
  BY <1>3, <1>4, Zenon DEF RaftAnnounce, RaftRestore, raftWatchVars
<1>5. CASE RaftNotify
  <2>1. PICK e \in notes : Broadcast(Listeners(fsmChans, e.key), e)
    BY <1>5, Zenon DEF RaftNotify
  <2>2. UNCHANGED <<kind, wst, fsmChans, stage>>
    BY SMTT(30), <1>5 DEF RaftNotify
  <2> DEFINE to == Listeners(fsmChans, e.key)
  <2>3. CASE stage = "open"
    <3>1. to \subseteq Watchers /\ \A w \in to : ~IsClosedChan(w)
      BY <1>1, <2>3, Zenon DEF Listeners, RaftOpen
    <3>2. Broadcast(to, e)
      BY <2>1, Zenon
    <3> HIDE DEF to
    <3>3. /\ DOMAIN chan' = Watchers
          /\ \A w \in Watchers : "closed" \in DOMAIN chan'[w] /\ chan'[w].closed = chan[w].closed
          /\ (~panicked /\ \A w \in to : ~IsClosedChan(w)) => ~panicked'
      BY <3>1, <3>2, BroadcastKeeps, Zenon
    <3>4. ~panicked'
      BY <1>1, <2>3, <3>1, <3>3, Zenon DEF RaftOpen
    <3>5. QED
      BY <2>2, <3>3, <3>4, Zenon DEF Shape, RaftOpen, IsClosedChan
  <2>4. CASE stage # "open"
    <3>1. chan' = [w \in Watchers |-> IF w \in to THEN TrySend(chan[w], e) ELSE chan[w]]
      BY <2>1, Zenon DEF Broadcast
    <3>2. \A w \in Watchers : "closed" \in DOMAIN TrySend(chan[w], e)
      BY Zenon DEF Shape, TrySend
    <3> HIDE DEF to
    <3>3. QED
      BY <2>2, <2>4, <3>1, <3>2, Zenon DEF Shape, RaftOpen
  <2>5. QED
    BY <2>3, <2>4, Zenon
<1>6. CASE RaftClose \/ RaftCloseAll \/ RaftCloseFSM \/ RaftShutdown
  <2>1. UNCHANGED <<kind, wst>> /\ stage' # "open"
    BY SMTT(30), <1>6 DEF RaftClose, RaftCloseAll, RaftCloseFSM, RaftShutdown,
       CloseStep, sharedVars
  <2>2. chan' = chan \/ \E ws \in {chans, fsmChans} :
          chan' = [w \in Watchers |-> IF w \in ws THEN DrainOrClose(chan[w]) ELSE chan[w]]
    BY <1>6, Zenon DEF RaftClose, RaftCloseAll, RaftCloseFSM, RaftShutdown,
       EndChannels, sharedVars
  <2>3. Shape'
    BY <2>1, <2>2, EndKeeps, Zenon DEF Shape
  <2>4. QED
    BY <2>1, <2>3, Zenon DEF RaftOpen
<1>7. ASSUME NEW w \in Watchers,
             RaftWatchCheck(w) \/ RaftWatch(w) \/ addWatcher(w) \/ RaftRemove(w) \/ removeWatcher(w)
      PROVE  kind' = kind /\ Shape' /\ RaftOpen'
  <2>1. UNCHANGED <<kind, chan, panicked, stage>>
    BY SMTT(30), <1>7 DEF RaftWatchCheck, RaftWatch, addWatcher, RaftRemove,
       removeWatcher, raftWatchVars
  <2>2. \/ /\ WatchStep(w, "none", "called") \/ WatchStep(w, "called", "half")
           /\ UNCHANGED fsmChans
        \/ WatchStep(w, "half", "on") /\ fsmChans' = fsmChans \cup {w}
        \/ WatchStep(w, "on", "cut") /\ UNCHANGED fsmChans
        \/ WatchStep(w, "cut", "cut2") /\ fsmChans' = fsmChans \ {w}
    BY <1>7, Zenon DEF RaftWatchCheck, RaftWatch, addWatcher, RaftRemove,
       removeWatcher, raftWatchVars
  <2>3. Shape'
    BY SMTT(30), <2>1, <2>2 DEF Shape, WatchStep
  <2>4. RaftOpen'
    <3> SUFFICES ASSUME stage = "open"
                 PROVE  RaftOpen'
      BY <2>1, Zenon DEF RaftOpen
    <3>1. wst[w] # "off" /\ \A v \in Watchers \ {w} : wst'[v] = wst[v]
      BY <2>2, Zenon DEF Shape, WatchStep
    <3>2. fsmChans' \subseteq Watchers /\ \A v \in fsmChans' : wst'[v] \in {"on", "cut"}
      <4>1. fsmChans \subseteq Watchers /\ \A v \in fsmChans : wst[v] \in {"on", "cut"}
        BY <1>1, Zenon DEF RaftOpen
      <4>2. w \in fsmChans' => wst'[w] \in {"on", "cut"}
        BY <2>2, <4>1, Zenon DEF Shape, WatchStep
      <4>3. fsmChans' \subseteq fsmChans \cup {w}
        BY <2>2, Zenon
      <4>4. QED
        BY <3>1, <4>1, <4>2, <4>3, Zenon
    <3>3. ~panicked' /\ \A v \in Watchers : ~IsClosedChan(v)' \/ wst'[v] = "off"
      BY <1>1, <2>1, <3>1, Zenon DEF RaftOpen, IsClosedChan
    <3>4. QED
      BY <3>2, <3>3, Zenon DEF RaftOpen
  <2>5. QED
    BY SMTT(30), <2>1, <2>3, <2>4
<1>8. ASSUME NEW w \in Watchers, RaftEndWatcher(w)
      PROVE  kind' = kind /\ Shape' /\ RaftOpen'
  <2>1. /\ wst[w] = "cut2" /\ wst' = [wst EXCEPT ![w] = "off"]
        /\ UNCHANGED <<kind, panicked, fsmChans, stage>>
        /\ chan' = [v \in Watchers |-> IF v \in {w} THEN DrainOrClose(chan[v]) ELSE chan[v]]
    BY SMTT(30), <1>8 DEF RaftEndWatcher, EndChannels, WatchStep
  <2>2. /\ DOMAIN chan' = Watchers
        /\ \A v \in Watchers : "closed" \in DOMAIN chan'[v]
        /\ \A v \in Watchers \ {w} : chan'[v] = chan[v]
    BY <2>1, EndKeeps, Zenon
  <2>3. QED
    BY <2>1, <2>2, Zenon DEF Shape, RaftOpen, IsClosedChan
<1>9. ASSUME NEW w \in Watchers, Receive(w), UNCHANGED raftWatchVars
      PROVE  kind' = kind /\ Shape' /\ RaftOpen'
  BY <1>9, ReaderKeepsOpen, Zenon DEF Receive
<1>10. QED
  BY <1>4, <1>5, <1>6, <1>7, <1>8, <1>9, Zenon DEF RaftWatchNext

-----------------------------------------------------------------------------
\* A new storage has no channels yet.
LEMMA OpenAtFirst == NewStateStorage => OpenInv
<1> SUFFICES ASSUME NewStateStorage
             PROVE  OpenInv
  BY Zenon
<1>1. /\ watchers = {} /\ watches = {} /\ closing = "open" /\ fsmChans = {}
      /\ wst = [w \in Watchers |-> "none"]
  BY Zenon DEF NewStateStorage, SharedInit, LocalInit, RedisInit, RaftWatchInit
<1>2. ~panicked
  BY Zenon DEF NewStateStorage, SharedInit
<1>3. DOMAIN chan = Watchers /\ \A w \in Watchers : "closed" \in DOMAIN chan[w] /\ ~IsClosedChan(w)
  BY Zenon DEF NewStateStorage, SharedInit, EmptyChannel, IsClosedChan
<1>4. QED
  BY <1>1, <1>2, <1>3, Zenon DEF OpenInv, Shape, RedisOpen, LocalOpen, RaftOpen

\* Every step keeps the invariant.
LEMMA OpenKept == OpenInv /\ [StorageNext]_storageVars => OpenInv'
<1> SUFFICES ASSUME OpenInv, [StorageNext]_storageVars
             PROVE  OpenInv'
  BY SMTT(30)
<1>1. CASE RaftNext /\ UNCHANGED <<localVars, redisVars, raftWatchVars>>
  <2>1. UNCHANGED <<kind, chan, wst, panicked>>
    BY ZenonT(60), <1>1 DEF RaftNext, RaftCommit, RaftApply, RaftGet, RaftPurge,
       RaftSnapshot, RaftInstall,
                RaftStop, RaftRestart, TimeToLiveEnds, sharedVars
  <2>2. UNCHANGED <<watchers, watches, late, closing, fsmChans, stage>>
    BY <1>1, Zenon DEF localVars, redisVars, raftWatchVars
  <2>3. QED
    BY ZenonT(60), <2>1, <2>2 DEF OpenInv, Shape, RedisOpen, LocalOpen, RaftOpen,
       IsClosedChan
<1>2. CASE UNCHANGED storageVars
  <2>1. UNCHANGED <<kind, chan, wst, panicked, watchers, watches, late, closing, fsmChans, stage>>
    BY <1>2, Zenon DEF storageVars, sharedVars, localVars, redisVars, raftWatchVars
  <2>2. QED
    BY <2>1, Zenon DEF OpenInv, Shape, RedisOpen, LocalOpen, RaftOpen, IsClosedChan
<1>3. QED
  BY <1>1, <1>2, LocalKeepsOpen, RedisKeepsOpen, RaftKeepsOpen, Zenon DEF StorageNext

\* No goroutine of Redis storage sends on a closed watch channel or closes one twice
\* (notifyWatchers, removeWatcherAndClose and closeAllWatchers); one of local storage
\* does only if Watch was called after Close (LocalStorage.Watch, which does not look
\* at closed); and one of Raft storage only once Close has begun (RaftStorage.Close,
\* which closes channels that the state machine still sends to).
THEOREM PanicsOnlyAtClose == StorageSpec => []PanicNeedsClose
<1>1. OpenInv => RedisNoPanic
  BY Zenon DEF OpenInv, RedisOpen, RedisNoPanic
<1>2. OpenInv => PanicNeedsLateWatch
  BY Zenon DEF OpenInv, LocalOpen, PanicNeedsLateWatch
<1>3. OpenInv => RaftPanicNeedsClose
  BY Zenon DEF OpenInv, RaftOpen, RaftPanicNeedsClose
<1>4. QED
  BY <1>1, <1>2, <1>3, OpenAtFirst, OpenKept, PTL DEF StorageSpec, PanicNeedsClose

-----------------------------------------------------------------------------
\* No step turns one storage into another, and a time to live that is over stays over.
LEMMA KindKept ==
  ASSUME StorageNext
  PROVE  kind' = kind /\ over \subseteq over'
<1>1. CASE LocalNext
  <2>1. ASSUME NEW c \in Clients, \/ LocalGet(c) \/ LocalPurge(c) \/ LocalSet(c)
               \/ LocalDelete(c) \/ LocalNotifyCheck(c) \/ LocalNotifySend(c)
        PROVE  kind' = kind /\ over \subseteq over'
    BY <2>1, Zenon DEF LocalGet, LocalPurge, LocalSet, LocalDelete, LocalWrite,
       LocalNotifyCheck, LocalNotifySend, sharedVars
  <2>2. ASSUME NEW w \in Watchers, LocalWatch(w) \/ LocalRemove(w) \/ Receive(w)
        PROVE  kind' = kind /\ over \subseteq over'
    BY <2>2, Zenon DEF LocalWatch, LocalRemove, Receive
  <2>3. CASE TimeToLiveEnds({data[k] : k \in Keys})
    BY <2>3, Zenon DEF TimeToLiveEnds
  <2>4. CASE LocalClose \/ LocalClear
    BY <2>4, Zenon DEF LocalClose, LocalClear, sharedVars
  <2>5. QED
    BY <1>1, <2>1, <2>2, <2>3, <2>4, Zenon DEF LocalNext
<1>2. CASE RedisNext
  <2>1. ASSUME NEW c \in Clients, RedisSet(c) \/ RedisDelete(c) \/ RedisCallFails(c) \/ RedisPublish(c)
        PROVE  kind' = kind /\ over \subseteq over'
    BY <2>1, Zenon DEF RedisSet, RedisDelete, Change, RedisCallFails, RedisPublish
  <2>2. ASSUME NEW n \in Subscribed, \/ RedisFeedLost(n) \/ RedisMonitor(n) \/ RedisNotifyCheck(n)
               \/ RedisNotifySend(n) \/ RedisClose(n) \/ RedisCloseAll(n)
        PROVE  kind' = kind /\ over \subseteq over'
    BY <2>2, Zenon DEF RedisFeedLost, RedisMonitor, RedisNotifyCheck, RedisNotifySend,
       RedisClose, RedisCloseAll, sharedVars
  <2>3. ASSUME NEW w \in Watchers, RedisWatchCheck(w) \/ RedisWatch(w) \/ RedisRemove(w) \/ Receive(w)
        PROVE  kind' = kind /\ over \subseteq over'
    BY <2>3, Zenon DEF RedisWatchCheck, RedisWatch, RedisRemove, Receive
  <2>4. CASE RedisExpire
    BY <2>4, Zenon DEF RedisExpire, sharedVars
  <2>5. QED
    BY <1>2, <2>1, <2>2, <2>3, <2>4, Zenon DEF RedisNext
<1>3. CASE RaftNext
  <2>1. ASSUME NEW n \in Nodes, \/ RaftCommit(n) \/ RaftApply(n) \/ RaftGet(n) \/ RaftPurge(n)
               \/ RaftSnapshot(n) \/ RaftInstall(n) \/ RaftStop(n) \/ RaftRestart(n)
        PROVE  kind' = kind /\ over \subseteq over'
    BY <2>1, Zenon DEF RaftCommit, RaftApply, RaftGet, RaftPurge, RaftSnapshot,
       RaftInstall, RaftStop, RaftRestart, sharedVars
  <2>2. CASE TimeToLiveEnds({[stamp |-> i, ttl |-> log[i].ttl] : i \in 1..Len(log)})
    BY <2>2, Zenon DEF TimeToLiveEnds
  <2>3. QED
    BY <1>3, <2>1, <2>2, Zenon DEF RaftNext
<1>4. CASE RaftWatchNext
  <2>1. CASE \/ RaftAnnounce \/ RaftRestore \/ RaftNotify
             \/ RaftClose \/ RaftCloseAll \/ RaftCloseFSM \/ RaftShutdown
    BY <2>1, Zenon DEF RaftAnnounce, RaftRestore, Command, RaftNotify, RaftClose,
       RaftCloseAll,
       RaftCloseFSM, RaftShutdown, sharedVars
  <2>2. ASSUME NEW w \in Watchers, \/ RaftWatchCheck(w) \/ RaftWatch(w) \/ addWatcher(w) \/ RaftRemove(w)
               \/ removeWatcher(w) \/ RaftEndWatcher(w) \/ Receive(w)
        PROVE  kind' = kind /\ over \subseteq over'
    BY <2>2, Zenon DEF RaftWatchCheck, RaftWatch, addWatcher, RaftRemove,
       removeWatcher, RaftEndWatcher, Receive
  <2>3. QED
    BY <1>4, <2>1, <2>2, Zenon DEF RaftWatchNext
<1>5. QED
  BY <1>1, <1>2, <1>3, <1>4, Zenon DEF StorageNext

-----------------------------------------------------------------------------
\* A Get is to find this key's last write.
Promised(k) ==
  closing = "open" /\ k \notin raced /\ last[k].type = "set" /\ last[k].stamp \notin over

Purging(c, k) == op[c].do = "purge" /\ op[c].key = k

\* What a Get is to find is there, and nobody is about to delete it.
ValueInv ==
  kind = "local" =>
    /\ DOMAIN data = Keys /\ DOMAIN last = Keys /\ DOMAIN op = Clients
    /\ \A c \in Clients : "do" \in DOMAIN op[c]
    /\ \A k \in Keys : Promised(k) => /\ data[k].stamp = last[k].stamp
                                      /\ \A c \in Clients : ~Purging(c, k)

\* A step that writes nothing and has no client about to delete more than before.
LEMMA QuietKeepsValues ==
  ASSUME ValueInv, kind = "local", DOMAIN op' = Clients,
         \A c \in Clients : /\ "do" \in DOMAIN op'[c]
                            /\ op'[c] = op[c] \/ op'[c].do # "purge",
         UNCHANGED <<data, last, raced>>, over \subseteq over',
         closing' = "open" => closing = "open"
  PROVE  ValueInv'
<1>1. \A k \in Keys : Promised(k)' => Promised(k)
  BY Zenon DEF Promised
<1>2. \A c \in Clients, k \in Keys : Purging(c, k)' => Purging(c, k)
  BY Zenon DEF Purging
<1>3. QED
  BY <1>1, <1>2, Zenon DEF ValueInv

\* Set and Delete of a key.
LEMMA WriteKeepsValues ==
  ASSUME ValueInv, kind = "local", NEW c \in Clients, op[c].do # "purge", NEW k, NEW type,
         NEW item, NEW todo, LocalWrite(c, k, type, item, todo),
         type = "set" => item.stamp = writes + 1
  PROVE  ValueInv'
<1>1. /\ writes' = writes + 1 /\ data' = [data EXCEPT ![k] = item]
      /\ last' = [last EXCEPT ![k] = [key |-> k, type |-> type, stamp |-> writes']]
      /\ op' = [op EXCEPT ![c] = [do |-> "check", todo |-> todo, ttl |-> item.ttl, event |-> last'[k]]]
      /\ UNCHANGED <<over, closing>>
  BY Zenon DEF LocalWrite, Become
<1>2. raced' = IF \E d \in Clients : Purging(d, k) THEN raced \cup {k} ELSE raced \ {k}
  BY Zenon DEF LocalWrite, Purging
<1>3. DOMAIN data' = Keys /\ DOMAIN last' = Keys /\ DOMAIN op' = Clients
  BY <1>1, Zenon DEF ValueInv
<1>4. \A d \in Clients : "do" \in DOMAIN op'[d] /\ (op'[d] = op[d] \/ op'[d].do # "purge")
  BY <1>1, Zenon DEF ValueInv
<1>5. \A d \in Clients, j \in Keys : Purging(d, j)' => Purging(d, j)
  BY <1>4, Zenon DEF Purging
<1>6. ASSUME NEW j \in Keys, Promised(j)'
      PROVE  data'[j].stamp = last'[j].stamp /\ \A d \in Clients : ~Purging(d, j)'
  <2>1. CASE j = k
    <3>1. \A d \in Clients : ~Purging(d, k)
      BY <1>2, <1>6, <2>1, Zenon DEF Promised
    <3>2. last'[k].stamp = writes + 1 /\ last'[k].type = type /\ data'[k] = item
      BY <1>1, <1>6, <2>1, Zenon DEF ValueInv
    <3>3. type = "set"
      BY <1>6, <2>1, <3>2, Zenon DEF Promised
    <3>4. QED
      BY <1>5, <2>1, <3>1, <3>2, <3>3, Zenon
  <2>2. CASE j # k
    <3>1. last'[j] = last[j] /\ data'[j] = data[j]
      BY <1>1, <2>2, Zenon DEF ValueInv
    <3>2. Promised(j)
      BY <1>1, <1>2, <1>6, <2>2, <3>1 DEF Promised
    <3>3. QED
      BY <1>5, <3>1, <3>2, Zenon DEF ValueInv
  <2>3. QED
    BY <2>1, <2>2, Zenon
<1>7. QED
  BY <1>3, <1>4, <1>6, Zenon DEF ValueInv

\* Get and the deletion of what it has found expired.
LEMMA GetKeepsValues ==
  ASSUME ValueInv, kind = "local", NEW c \in Clients, LocalGet(c) \/ LocalPurge(c)
  PROVE  ValueInv'
<1>1. \A todo : AfterGet(todo).do # "purge" /\ "do" \in DOMAIN AfterGet(todo)
  BY Zenon DEF AfterGet, Idle
<1>2. CASE LocalGet(c)
  <2>1. UNCHANGED <<data, last, raced, over, closing>>
    BY <1>2, Zenon DEF LocalGet, sharedVars, historyVars
  <2>2. PICK todo, k :
          op' = [op EXCEPT ![c] = IF isExpired(data[k])
                   THEN [do |-> "purge", todo |-> todo \ {k}, key |-> k]
                   ELSE AfterGet(todo \ {k})]
    BY <1>2, Zenon DEF LocalGet, Become
  <2>3. CASE ~isExpired(data[k])
    <3>1. op' = [op EXCEPT ![c] = AfterGet(todo \ {k})]
      BY <2>2, <2>3, Zenon
    <3>2. QED
      BY <1>1, <2>1, <3>1, QuietKeepsValues, Zenon DEF ValueInv
  <2>4. CASE isExpired(data[k])
    <3>1. op' = [op EXCEPT ![c] = [do |-> "purge", todo |-> todo \ {k}, key |-> k]]
      BY <2>2, <2>4, Zenon
    <3>2. \A j \in Keys : Promised(j)' => Promised(j)
      BY <2>1, Zenon DEF Promised
    <3>3. k \in Keys => ~Promised(k)
      BY <2>4, Zenon DEF ValueInv, Promised, isExpired
    <3>4. \A d \in Clients, j \in Keys : Purging(d, j)' => Purging(d, j) \/ j = k
      BY <3>1, Zenon DEF Purging, ValueInv
    <3>5. DOMAIN op' = Clients /\ \A d \in Clients : "do" \in DOMAIN op'[d]
      BY <3>1, Zenon DEF ValueInv
    <3>6. QED
      BY <2>1, <3>2, <3>3, <3>4, <3>5, Zenon DEF ValueInv
  <2>5. QED
    BY <2>3, <2>4, Zenon
<1>3. CASE LocalPurge(c)
  <2>1. /\ op[c].do = "purge" /\ data' = [data EXCEPT ![op[c].key] = Absent]
        /\ op' = [op EXCEPT ![c] = AfterGet(op[c].todo)]
        /\ UNCHANGED <<last, raced, over, closing>>
    BY <1>3, Zenon DEF LocalPurge, Become, sharedVars, historyVars
  <2>2. \A j \in Keys : Promised(j)' => Promised(j) /\ j # op[c].key
    BY <2>1, Zenon DEF Promised, ValueInv, Purging
  <2>3. \A d \in Clients, j \in Keys : Purging(d, j)' => Purging(d, j)
    BY <1>1, <2>1, Zenon DEF Purging, ValueInv
  <2>4. DOMAIN op' = Clients /\ \A d \in Clients : "do" \in DOMAIN op'[d]
    BY <1>1, <2>1, Zenon DEF ValueInv
  <2>5. DOMAIN data' = Keys /\ \A j \in Keys : j # op[c].key => data'[j] = data[j]
    BY <2>1, Zenon DEF ValueInv
  <2>6. QED
    BY <2>1, <2>2, <2>3, <2>4, <2>5, Zenon DEF ValueInv
<1>4. QED
  BY <1>2, <1>3, Zenon

\* Every step of local storage keeps the invariant.
LEMMA LocalKeepsValues ==
  ASSUME ValueInv, LocalNext
  PROVE  ValueInv'
<1>1. kind = "local"
  BY Zenon DEF LocalNext
<1>2. ASSUME UNCHANGED <<data, last, raced, op>>, over \subseteq over',
             closing' = "open" => closing = "open"
      PROVE  ValueInv'
  BY <1>1, <1>2, QuietKeepsValues, Zenon DEF ValueInv
<1>3. ASSUME NEW c \in Clients, LocalGet(c) \/ LocalPurge(c)
      PROVE  ValueInv'
  BY <1>1, <1>3, GetKeepsValues, Zenon
<1>4. ASSUME NEW c \in Clients, LocalSet(c)
      PROVE  ValueInv'
  <2>1. op[c].do # "purge"
    BY <1>4, Zenon DEF LocalSet
  <2>2. PICK todo, ttl, k : LocalWrite(c, k, "set", [stamp |-> writes + 1, ttl |-> ttl], todo \ {k})
    BY <1>4, Zenon DEF LocalSet
  <2>3. QED
    BY <1>1, <2>1, <2>2, WriteKeepsValues, Zenon
<1>5. ASSUME NEW c \in Clients, LocalDelete(c)
      PROVE  ValueInv'
  <2>1. op[c].do # "purge"
    BY <1>5 DEF LocalDelete, Idle
  <2>2. PICK k : LocalWrite(c, k, "delete", Absent, {})
    BY <1>5, Zenon DEF LocalDelete
  <2>3. QED
    BY <1>1, <2>1, <2>2, WriteKeepsValues, Zenon
<1>6. ASSUME NEW c \in Clients, LocalNotifyCheck(c) \/ LocalNotifySend(c)
      PROVE  ValueInv'
  <2>1. \A o : AfterSet(o).do # "purge" /\ "do" \in DOMAIN AfterSet(o)
    BY Zenon DEF AfterSet, Idle
  <2>2. UNCHANGED <<data, last, raced, over, closing>>
    BY <1>6, Zenon DEF LocalNotifyCheck, LocalNotifySend, sharedVars, historyVars
  <2>3. \E o : op' = [op EXCEPT ![c] = o] /\ (o = AfterSet(op[c]) \/ o = [op[c] EXCEPT !.do = "send"])
    BY <1>6, Zenon DEF LocalNotifyCheck, LocalNotifySend, Become
  <2>4. PICK o : op' = [op EXCEPT ![c] = o] /\ "do" \in DOMAIN o /\ o.do # "purge"
    BY <1>1, <2>1, <2>3, Zenon DEF ValueInv
  <2>5. QED
    BY <1>1, <2>2, <2>4, QuietKeepsValues, Zenon DEF ValueInv
<1>7. ASSUME NEW w \in Watchers, LocalWatch(w) \/ LocalRemove(w)
      PROVE  ValueInv'
  BY <1>2, <1>7, Zenon DEF LocalWatch, LocalRemove, historyVars
<1>8. ASSUME NEW w \in Watchers, Receive(w), UNCHANGED localVars
      PROVE  ValueInv'
  BY <1>2, <1>8, Zenon DEF Receive, localVars, historyVars
<1>9. CASE TimeToLiveEnds({data[k] : k \in Keys}) /\ UNCHANGED localVars
  <2>1. over \subseteq over' /\ UNCHANGED last
    BY <1>9, Zenon DEF TimeToLiveEnds, historyVars
  <2>2. QED
    BY <1>2, <1>9, <2>1, Zenon DEF localVars
<1>10. CASE LocalClose
  BY <1>2, <1>10, Zenon DEF LocalClose, historyVars
<1>11. CASE LocalClear
  <2>1. closing' # "open" /\ UNCHANGED <<last, op>> /\ DOMAIN data' = DOMAIN data
    BY <1>11, Zenon DEF LocalClear, sharedVars, historyVars
  <2>2. QED
    BY <1>1, <2>1, Zenon DEF ValueInv, Promised
<1>12. QED
  BY <1>3, <1>4, <1>5, <1>6, <1>7, <1>8, <1>9, <1>10, <1>11, Zenon DEF LocalNext

\* A value that was stored in local storage, has not expired and was neither
\* overwritten, deleted nor cleared by Close is there to be read (LocalStorage.Get, Set,
\* Delete and Close), whatever the clients' interleaving, unless it was stored while a
\* Get that had found an expired item under the key was about to delete that one.
THEOREM StoredIsFound == StorageSpec => []StoredValueFound
<1>1. NewStateStorage => ValueInv
  <2> SUFFICES ASSUME NewStateStorage PROVE ValueInv
    BY Zenon
  <2>1. /\ data = [k \in Keys |-> Absent] /\ op = [c \in Clients |-> Idle]
        /\ last = [k \in Keys |-> NoEvent]
    BY Zenon DEF NewStateStorage, SharedInit, LocalInit
  <2>2. \A k \in Keys : ~Promised(k)
    BY <2>1, Zenon DEF Promised, NoEvent
  <2>3. QED
    BY <2>1, <2>2, Zenon DEF ValueInv, Idle
<1>2. ValueInv /\ [StorageNext]_storageVars => ValueInv'
  <2> SUFFICES ASSUME ValueInv, [StorageNext]_storageVars PROVE ValueInv'
    BY Zenon
  <2>1. CASE UNCHANGED storageVars
    <3>1. UNCHANGED <<kind, data, last, raced, op, over, closing>>
      BY <2>1, Zenon DEF storageVars, sharedVars, localVars, historyVars
    <3>2. QED
      BY <3>1, Zenon DEF ValueInv, Promised, Purging
  <2>2. CASE StorageNext /\ ~LocalNext
    <3>1. kind' = kind /\ kind # "local"
      BY <2>2, KindKept, Zenon DEF StorageNext, RedisNext, RaftNext, RaftWatchNext
    <3>2. QED
      BY <3>1, Zenon DEF ValueInv
  <2>3. QED
    BY <2>1, <2>2, LocalKeepsValues, Zenon
<1>3. ValueInv => StoredValueFound
  BY Zenon DEF ValueInv, Promised, StoredValueFound
<1>4. QED
  BY <1>1, <1>2, <1>3, PTL DEF StorageSpec

\* No step opens a channel that was closed.
StaysClosed == \A w \in Watchers : IsClosedChan(w) => IsClosedChan(w)'

\* Local storage: what closedChans holds is closed, and until Close every watcher that
\* waits is registered, so that its end closes its channel.
LocalEnded ==
  kind = "local" =>
    /\ \A w \in Watchers : w \in closedChans => IsClosedChan(w)
    /\ closing = "open" => \A w \in Watchers : wst[w] = "on" => w \in watches
    /\ \A w \in Watchers \ late :
         (wst[w] = "off" \/ (wst[w] = "on" /\ closing # "open")) => IsClosedChan(w)

\* Redis storage: a watcher that waits is registered until its node has closed all.
RedisEnded ==
  kind = "redis" =>
    /\ DOMAIN phase = Subscribed
    /\ \A w \in Watchers : wst[w] = "on" /\ w \notin watchers => phase[HostOf[w]] = "closed"
    /\ \A w \in Watchers \ drained :
         (wst[w] = "off" \/ (wst[w] = "on" /\ w \notin watchers)) => IsClosedChan(w)

\* Raft storage: a watcher that waits is known to the state machine until Close has
\* ended all that are.
RaftEnded ==
  kind = "raft watchers" =>
    /\ stage \notin {"ended", "shut"} => \A w \in Watchers : wst[w] = "on" => w \in fsmChans
    /\ \A w \in Watchers \ (taken \cup chans \cup fsmChans) :
         (wst[w] = "off" \/ (wst[w] = "on" /\ stage \in {"ended", "shut"})) => IsClosedChan(w)

\* DrainOrClose opens no channel, and closes one in which no event waits.
LEMMA EndCloses ==
  ASSUME Shape, NEW ws,
         chan' = [w \in Watchers |-> IF w \in ws THEN DrainOrClose(chan[w]) ELSE chan[w]]
  PROVE  /\ StaysClosed
         /\ \A w \in Watchers : w \in ws /\ chan[w].buf = <<>> => IsClosedChan(w)'
<1>1. \A w \in Watchers : chan[w].buf = <<>> => DrainOrClose(chan[w]).closed = TRUE
  BY Zenon DEF Shape, DrainOrClose
<1>2. \A w \in Watchers : chan[w].buf # <<>> => DrainOrClose(chan[w]).closed = chan[w].closed
  BY Zenon DEF Shape, DrainOrClose
<1>3. \A w \in Watchers : chan'[w] = IF w \in ws THEN DrainOrClose(chan[w]) ELSE chan[w]
  BY Zenon
<1>4. QED
  BY <1>1, <1>2, <1>3, Zenon DEF StaysClosed, IsClosedChan

\* A broadcast and a reader leave the channels open or closed as they are.
LEMMA SendStaysClosed ==
  ASSUME Shape, (\E to, e : Broadcast(to, e)) \/ \E w \in Watchers : Receive(w)
  PROVE  StaysClosed
<1>1. CASE \E w \in Watchers : Receive(w)
  <2>1. PICK v \in Watchers : Receive(v)
    BY <1>1, Zenon
  <2>2. \A w \in Watchers : chan'[w].closed = chan[w].closed
    BY <2>1, ReceiveKeeps, Zenon
  <2>3. QED
    BY <2>2, Zenon DEF StaysClosed, IsClosedChan
<1>2. CASE \E to, e : Broadcast(to, e)
  <2>1. PICK to, e : Broadcast(to, e)
    BY <1>2, Zenon
  <2>2. chan' = [w \in Watchers |-> IF w \in to THEN TrySend(chan[w], e) ELSE chan[w]]
    BY <2>1, Zenon DEF Broadcast
  <2>3. \A w \in Watchers : TrySend(chan[w], e).closed = chan[w].closed
    BY Zenon DEF Shape, TrySend
  <2>4. \A w \in Watchers : chan'[w].closed = chan[w].closed
    BY <2>2, <2>3, Zenon
  <2>5. QED
    BY <2>4, Zenon DEF StaysClosed, IsClosedChan
<1>3. QED
  BY <1>1, <1>2, Zenon

\* Every step of local storage keeps its part.
LEMMA LocalKeepsEnded ==
  ASSUME Shape, LocalEnded, LocalNext
  PROVE  LocalEnded'
<1>1. kind = "local"
  BY Zenon DEF LocalNext
<1>2. ASSUME UNCHANGED <<wst, watches, closedChans, closing, late>>, StaysClosed
      PROVE  LocalEnded'
  BY <1>1, <1>2, Zenon DEF LocalEnded, StaysClosed
<1>3. chan' = chan => StaysClosed
  BY Zenon DEF StaysClosed, IsClosedChan
<1>4. ASSUME NEW c \in Clients,
             LocalGet(c) \/ LocalPurge(c) \/ LocalSet(c) \/ LocalDelete(c) \/ LocalNotifyCheck(c)
      PROVE  LocalEnded'
  BY ZenonT(60), <1>2, <1>3, <1>4 DEF LocalGet, LocalPurge, LocalSet, LocalDelete,
     LocalWrite,
                                      LocalNotifyCheck, sharedVars
<1>5. ASSUME NEW c \in Clients, LocalNotifySend(c)
      PROVE  LocalEnded'
  <2>1. StaysClosed
    BY <1>5, SendStaysClosed, Zenon DEF LocalNotifySend
  <2>2. QED
    BY <1>2, <1>5, <2>1, Zenon DEF LocalNotifySend
<1>6. ASSUME NEW w \in Watchers, LocalWatch(w)
      PROVE  LocalEnded'
  <2>1. /\ wst[w] = "none" /\ wst' = [wst EXCEPT ![w] = "on"]
        /\ watches' = watches \cup {w}
        /\ late' = IF closing = "open" THEN late ELSE late \cup {w}
        /\ UNCHANGED <<chan, closing, closedChans>>
    BY <1>6, Zenon DEF LocalWatch
  <2>2. \A v \in Watchers : wst'[v] = IF v = w THEN "on" ELSE wst[v]
    BY <2>1, Zenon DEF Shape
  <2>3. QED
    BY <1>1, <2>1, <2>2 DEF LocalEnded, IsClosedChan
<1>7. ASSUME NEW w \in Watchers, LocalRemove(w)
      PROVE  LocalEnded'
  <2>1. /\ wst[w] = "on" /\ wst' = [wst EXCEPT ![w] = "off"] /\ UNCHANGED <<closing, late>>
    BY <1>7, Zenon DEF LocalRemove
  <2>2. \A v \in Watchers : wst'[v] = IF v = w THEN "off" ELSE wst[v]
    BY <2>1, Zenon DEF Shape
  <2>3. CASE \A x \in watches : PrefixOf[x] # PrefixOf[w]
    <3>1. UNCHANGED <<watches, closedChans, chan>> /\ w \notin watches
      BY <1>7, <2>3, Zenon DEF LocalRemove
    <3>2. closing # "open"
      BY <1>1, <2>1, <3>1, Zenon DEF LocalEnded
    <3>3. QED
      BY <1>1, <2>1, <2>2, <3>1, <3>2, Zenon DEF LocalEnded, IsClosedChan
  <2>4. CASE ~\A x \in watches : PrefixOf[x] # PrefixOf[w]
    <3>1. /\ watches' = watches \ {w} /\ closedChans' = closedChans \cup {w}
          /\ chan' = IF w \in closedChans THEN chan ELSE [chan EXCEPT ![w].closed = TRUE]
      BY <1>7, <2>4, Zenon DEF LocalRemove, closeChannelSafely
    <3>2. w \notin closedChans => /\ chan'[w].closed = TRUE
                                  /\ \A v \in Watchers : v # w => chan'[v] = chan[v]
      BY <3>1, Zenon DEF Shape
    <3>3. StaysClosed /\ IsClosedChan(w)'
      BY <1>1, <3>1, <3>2, Zenon DEF StaysClosed, IsClosedChan, LocalEnded
    <3>4. QED
      BY <1>1, <2>1, <2>2, <3>1, <3>3 DEF LocalEnded, StaysClosed
  <2>5. QED
    BY <2>3, <2>4, Zenon
<1>8. ASSUME NEW w \in Watchers, Receive(w), UNCHANGED localVars
      PROVE  LocalEnded'
  BY <1>2, <1>8, SendStaysClosed, Zenon DEF Receive, localVars
<1>9. CASE TimeToLiveEnds({data[k] : k \in Keys}) /\ UNCHANGED localVars
  BY <1>2, <1>3, <1>9, Zenon DEF TimeToLiveEnds, localVars
<1>10. CASE LocalClose
  <2>1. /\ closing = "open" /\ closing' = "clearing" /\ watches' = {} /\ closedChans' = {}
        /\ UNCHANGED <<wst, late>>
        /\ chan' = [w \in Watchers |-> IF w \in watches \ closedChans
                      THEN [chan[w] EXCEPT !.closed = TRUE] ELSE chan[w]]
    BY <1>10, Zenon DEF LocalClose
  <2>2. \A w \in Watchers : IF w \in watches \ closedChans THEN chan'[w].closed = TRUE
                            ELSE chan'[w] = chan[w]
    BY <2>1, Zenon DEF Shape
  <2>3. \A w \in Watchers : w \in watches \/ IsClosedChan(w) => IsClosedChan(w)'
    BY <1>1, <2>2, Zenon DEF LocalEnded, IsClosedChan
  <2>4. QED
    BY <1>1, <2>1, <2>3, Zenon DEF LocalEnded
<1>11. CASE LocalClear
  <2>1. /\ UNCHANGED <<chan, wst, watches, closedChans, late>>
        /\ closing # "open" /\ closing' # "open"
    BY <1>11, Zenon DEF LocalClear, sharedVars
  <2>2. QED
    BY <1>1, <2>1, Zenon DEF LocalEnded, IsClosedChan
<1>12. QED
  BY <1>4, <1>5, <1>6, <1>7, <1>8, <1>9, <1>10, <1>11, Zenon DEF LocalNext

\* Every step of Redis storage keeps its part.
LEMMA RedisKeepsEnded ==
  ASSUME Shape, RedisEnded, RedisNext
  PROVE  RedisEnded'
<1>1. kind = "redis"
  BY Zenon DEF RedisNext
<1>2. ASSUME UNCHANGED <<wst, watchers, drained>>, StaysClosed,
             phase' = phase \/ \E n \in Subscribed : phase[n] = "open" /\ phase' = [phase EXCEPT ![n] = "flagged"]
      PROVE  RedisEnded'
  <2>1. DOMAIN phase' = Subscribed /\ \A n \in Subscribed : phase[n] = "closed" => phase'[n] = "closed"
    BY <1>1, <1>2, Zenon DEF RedisEnded
  <2>2. \A w \in Watchers : HostOf[w] \in Subscribed
    BY Zenon DEF Subscribed
  <2>3. QED
    BY <1>1, <1>2, <2>1, <2>2, Zenon DEF RedisEnded, StaysClosed
<1>3. chan' = chan => StaysClosed
  BY Zenon DEF StaysClosed, IsClosedChan
<1>4. ASSUME NEW c \in Clients,
             RedisSet(c) \/ RedisDelete(c) \/ RedisCallFails(c) \/ RedisPublish(c)
      PROVE  RedisEnded'
  BY <1>2, <1>3, <1>4, Zenon DEF RedisSet, RedisDelete, RedisCallFails, RedisPublish
<1>5. ASSUME NEW n \in Subscribed,
             RedisFeedLost(n) \/ RedisMonitor(n) \/ RedisNotifyCheck(n) \/ RedisClose(n)
      PROVE  RedisEnded'
  BY <1>2, <1>3, <1>5, Zenon DEF RedisFeedLost, RedisMonitor, RedisNotifyCheck,
     RedisClose, sharedVars
<1>6. ASSUME NEW n \in Subscribed, RedisNotifySend(n)
      PROVE  RedisEnded'
  <2>1. StaysClosed
    BY <1>6, SendStaysClosed, Zenon DEF RedisNotifySend
  <2>2. QED
    BY <1>2, <1>6, <2>1, Zenon DEF RedisNotifySend
<1>7. ASSUME NEW n \in Subscribed, RedisCloseAll(n)
      PROVE  RedisEnded'
  <2> DEFINE ws == watchers \cap On(n)
  <2>1. /\ UNCHANGED wst /\ watchers' = watchers \ On(n)
        /\ phase' = [phase EXCEPT ![n] = "closed"]
        /\ chan' = [w \in Watchers |-> IF w \in ws THEN DrainOrClose(chan[w]) ELSE chan[w]]
        /\ drained' = drained \cup {w \in ws : chan[w].buf # <<>>}
    BY <1>7, Zenon DEF RedisCloseAll, End
  <2>2. /\ StaysClosed
        /\ \A w \in Watchers : w \in ws /\ chan[w].buf = <<>> => IsClosedChan(w)'
    BY <2>1, EndCloses, Zenon
  <2>3. DOMAIN phase' = Subscribed /\ phase'[n] = "closed"
        /\ \A m \in Subscribed : phase[m] = "closed" => phase'[m] = "closed"
    BY <1>1, <2>1, Zenon DEF RedisEnded
  <2>4. \A w \in Watchers : HostOf[w] \in Subscribed /\ (w \in On(n) <=> HostOf[w] = n)
    BY Zenon DEF Subscribed, On
  <2>5. ASSUME NEW w \in Watchers, wst'[w] = "on", w \notin watchers'
        PROVE  phase'[HostOf[w]] = "closed"
    BY <1>1, <2>1, <2>3, <2>4, <2>5, Zenon DEF RedisEnded
  <2>6. ASSUME NEW w \in Watchers \ drained',
               wst'[w] = "off" \/ (wst'[w] = "on" /\ w \notin watchers')
        PROVE  IsClosedChan(w)'
    <3>1. CASE w \in ws
      BY <2>1, <2>2, <2>6, <3>1, Zenon
    <3>2. CASE w \notin ws
      BY <1>1, <2>1, <2>2, <2>6, <3>2, Zenon DEF RedisEnded, StaysClosed
    <3>3. QED
      BY <3>1, <3>2, Zenon
  <2>7. QED
    BY <2>3, <2>5, <2>6, Zenon DEF RedisEnded
<1>8. ASSUME NEW w \in Watchers, RedisWatchCheck(w) \/ RedisWatch(w)
      PROVE  RedisEnded'
  <2>1. /\ UNCHANGED <<chan, phase, drained>>
        /\ \/ wst' = [wst EXCEPT ![w] = "called"] /\ watchers' = watchers
           \/ wst' = [wst EXCEPT ![w] = "on"] /\ watchers' = watchers \cup {w}
    BY <1>8, Zenon DEF RedisWatchCheck, RedisWatch, redisVars
  <2>2. /\ \A v \in Watchers : v # w => wst'[v] = wst[v]
        /\ wst'[w] \in {"called", "on"} /\ (wst'[w] = "on" => w \in watchers')
    BY <2>1, Zenon DEF Shape
  <2>3. \A v \in Watchers : v # w => (v \in watchers' <=> v \in watchers)
    BY <2>1, Zenon
  <2>4. QED
    BY <1>1, <2>1, <2>2, <2>3, Zenon DEF RedisEnded, IsClosedChan
<1>9. ASSUME NEW w \in Watchers, RedisRemove(w)
      PROVE  RedisEnded'
  <2>1. wst[w] = "on" /\ wst' = [wst EXCEPT ![w] = "off"] /\ UNCHANGED phase
    BY <1>9, Zenon DEF RedisRemove
  <2>2. \A v \in Watchers : wst'[v] = IF v = w THEN "off" ELSE wst[v]
    BY <2>1, Zenon DEF Shape
  <2>3. CASE \A x \in watchers \cap On(HostOf[w]) : PrefixOf[x] # PrefixOf[w]
    <3>1. UNCHANGED <<watchers, chan, drained>> /\ w \notin watchers
      BY <1>9, <2>3, Zenon DEF RedisRemove, On
    <3>2. QED
      BY <1>1, <2>1, <2>2, <3>1 DEF RedisEnded, IsClosedChan
  <2>4. CASE ~\A x \in watchers \cap On(HostOf[w]) : PrefixOf[x] # PrefixOf[w]
    <3>1. /\ watchers' = watchers \ {w}
          /\ chan' = [v \in Watchers |-> IF v \in {w} THEN DrainOrClose(chan[v]) ELSE chan[v]]
          /\ drained' = drained \cup {v \in {w} : chan[v].buf # <<>>}
      BY <1>9, <2>4, Zenon DEF RedisRemove, End
    <3>2. StaysClosed /\ (chan[w].buf = <<>> => IsClosedChan(w)')
      BY <3>1, EndCloses, Zenon
    <3>3. QED
      BY <1>1, <2>1, <2>2, <3>1, <3>2 DEF RedisEnded, StaysClosed
  <2>5. QED
    BY <2>3, <2>4, Zenon
<1>10. ASSUME NEW w \in Watchers, Receive(w), UNCHANGED redisVars
       PROVE  RedisEnded'
  BY <1>2, <1>10, SendStaysClosed, Zenon DEF Receive, redisVars
<1>11. CASE RedisExpire
  BY <1>2, <1>3, <1>11, Zenon DEF RedisExpire, sharedVars
<1>12. QED
  BY <1>4, <1>5, <1>6, <1>7, <1>8, <1>9, <1>10, <1>11, Zenon DEF RedisNext

\* Every step of Raft storage keeps its part.
LEMMA RaftKeepsEnded ==
  ASSUME Shape, RaftEnded, RaftWatchNext
  PROVE  RaftEnded'
<1>1. kind = "raft watchers"
  BY Zenon DEF RaftWatchNext
<1>2. ASSUME UNCHANGED <<wst, chans, fsmChans, taken>>, StaysClosed,
             stage' \in {"ended", "shut"} <=> stage \in {"ended", "shut"}
      PROVE  RaftEnded'
  BY <1>1, <1>2, Zenon DEF RaftEnded, StaysClosed
<1>3. chan' = chan => StaysClosed
  BY Zenon DEF StaysClosed, IsClosedChan
<1>4. CASE RaftAnnounce \/ RaftRestore
  BY <1>2, <1>3, <1>4, Zenon DEF RaftAnnounce, RaftRestore, raftWatchVars
<1>5. CASE RaftNotify
  <2>1. StaysClosed
    BY <1>5, SendStaysClosed, Zenon DEF RaftNotify
  <2>2. QED
    BY <1>2, <1>5, <2>1, Zenon DEF RaftNotify
<1>6. CASE RaftClose \/ RaftShutdown
  BY <1>2, <1>3, <1>6, Zenon DEF RaftClose, RaftShutdown, CloseStep, sharedVars
<1>7. CASE RaftCloseAll
  <2>1. /\ stage = "flagged" /\ stage' = "half" /\ chans' = {} /\ UNCHANGED <<wst, fsmChans>>
        /\ chan' = [w \in Watchers |-> IF w \in chans THEN DrainOrClose(chan[w]) ELSE chan[w]]
        /\ taken' = (taken \ chans) \cup {w \in chans : chan[w].buf # <<>>}
    BY <1>7, Zenon DEF RaftCloseAll, CloseStep, EndChannels
  <2>2. /\ StaysClosed
        /\ \A w \in Watchers : w \in chans /\ chan[w].buf = <<>> => IsClosedChan(w)'
    BY <2>1, EndCloses, Zenon
  <2>3. QED
    BY <1>1, <2>1, <2>2, Zenon DEF RaftEnded, StaysClosed
<1>8. CASE RaftCloseFSM
  <2>1. /\ stage = "half" /\ stage' = "ended" /\ fsmChans' = {} /\ UNCHANGED <<wst, chans>>
        /\ chan' = [w \in Watchers |-> IF w \in fsmChans THEN DrainOrClose(chan[w]) ELSE chan[w]]
        /\ taken' = (taken \ fsmChans) \cup {w \in fsmChans : chan[w].buf # <<>>}
    BY <1>8, Zenon DEF RaftCloseFSM, CloseStep, EndChannels
  <2>2. /\ StaysClosed
        /\ \A w \in Watchers : w \in fsmChans /\ chan[w].buf = <<>> => IsClosedChan(w)'
    BY <2>1, EndCloses, Zenon
  <2>3. QED
    BY <1>1, <2>1, <2>2, Zenon DEF RaftEnded, StaysClosed
<1>9. ASSUME NEW w \in Watchers,
             \/ RaftWatchCheck(w) \/ RaftWatch(w) \/ addWatcher(w)
             \/ RaftRemove(w) \/ removeWatcher(w)
      PROVE  RaftEnded'
  <2>1. UNCHANGED <<chan, stage, taken>>
    BY <1>9, Zenon DEF RaftWatchCheck, RaftWatch, addWatcher, RaftRemove,
       removeWatcher, raftWatchVars
  <2>2. \/ WatchStep(w, "none", "called") /\ UNCHANGED <<chans, fsmChans>>
        \/ WatchStep(w, "called", "half") /\ chans' = chans \cup {w} /\ UNCHANGED fsmChans
        \/ WatchStep(w, "half", "on") /\ UNCHANGED chans /\ fsmChans' = fsmChans \cup {w}
        \/ WatchStep(w, "on", "cut") /\ chans' = chans \ {w} /\ UNCHANGED fsmChans
        \/ WatchStep(w, "cut", "cut2") /\ UNCHANGED chans /\ fsmChans' = fsmChans \ {w}
    BY <1>9, Zenon DEF RaftWatchCheck, RaftWatch, addWatcher, RaftRemove,
       removeWatcher, raftWatchVars
  <2>3. \A v \in Watchers : v # w =>
          /\ wst'[v] = wst[v] /\ (v \in chans' <=> v \in chans)
          /\ (v \in fsmChans' <=> v \in fsmChans)
    BY <2>2, Zenon DEF Shape, WatchStep
  <2>4. wst'[w] # "off" /\ (wst'[w] = "on" => w \in fsmChans')
    BY <2>2, Zenon DEF Shape, WatchStep
  <2>5. QED
    BY <1>1, <2>1, <2>3, <2>4, Zenon DEF RaftEnded, IsClosedChan
<1>10. ASSUME NEW w \in Watchers, RaftEndWatcher(w)
       PROVE  RaftEnded'
  <2>1. /\ wst' = [wst EXCEPT ![w] = "off"] /\ UNCHANGED <<chans, fsmChans, stage>>
        /\ chan' = [v \in Watchers |-> IF v \in {w} THEN DrainOrClose(chan[v]) ELSE chan[v]]
        /\ taken' = (taken \ {w}) \cup {v \in {w} : chan[v].buf # <<>>}
    BY <1>10, Zenon DEF RaftEndWatcher, EndChannels, WatchStep
  <2>2. StaysClosed /\ (chan[w].buf = <<>> => IsClosedChan(w)')
    BY <2>1, EndCloses, Zenon
  <2>3. \A v \in Watchers : wst'[v] = IF v = w THEN "off" ELSE wst[v]
    BY <2>1, Zenon DEF Shape
  <2>4. UNCHANGED <<chans, fsmChans, stage>> /\ (w \notin taken' => IsClosedChan(w)')
    BY <2>1, <2>2, Zenon
  <2>5. \A v \in Watchers : v # w => (v \in taken' <=> v \in taken)
    BY <2>1, Zenon
  <2>6. QED
    BY <1>1, <2>2, <2>3, <2>4, <2>5, Zenon DEF RaftEnded, StaysClosed
<1>11. ASSUME NEW w \in Watchers, Receive(w), UNCHANGED raftWatchVars
       PROVE  RaftEnded'
  BY <1>2, <1>11, SendStaysClosed, Zenon DEF Receive, raftWatchVars
<1>12. QED
  BY <1>4, <1>5, <1>6, <1>7, <1>8, <1>9, <1>10, <1>11, Zenon DEF RaftWatchNext

\* Whichever storage is used, the channel of a watcher that has ended is closed, so that
\* its reader ends (removeWatcherAndClose and Close of the three storages): in local
\* storage unless Watch was called after Close, in Redis and Raft storage unless an event
\* was waiting in the channel when it was to be closed.
THEOREM EndedAreClosed == StorageSpec => []EndedWatchersClosed
<1> DEFINE EndInv == LocalEnded /\ RedisEnded /\ RaftEnded
<1>1. NewStateStorage => EndInv
  <2> SUFFICES ASSUME NewStateStorage PROVE EndInv
    BY Zenon
  <2>1. /\ closedChans = {} /\ wst = [w \in Watchers |-> "none"]
        /\ phase = [n \in Subscribed |-> "open"]
    BY Zenon DEF NewStateStorage, SharedInit, LocalInit, RedisInit
  <2>2. \A w \in Watchers : wst[w] = "none"
    BY <2>1, Zenon
  <2>3. QED
    BY <2>1, <2>2, Zenon DEF LocalEnded, RedisEnded, RaftEnded
<1>2. OpenInv /\ EndInv /\ [StorageNext]_storageVars => EndInv'
  <2> SUFFICES ASSUME OpenInv, EndInv, [StorageNext]_storageVars PROVE EndInv'
    BY Zenon
  <2>1. CASE UNCHANGED storageVars
    <3>1. UNCHANGED <<kind, chan, wst, watches, closedChans, closing, late, phase, watchers,
                      drained, stage, taken, chans, fsmChans>>
      BY <2>1, Zenon DEF storageVars, sharedVars, localVars, redisVars, raftWatchVars
    <3>2. QED
      BY <3>1, Zenon DEF LocalEnded, RedisEnded, RaftEnded, IsClosedChan
  <2>2. CASE StorageNext
    <3>1. kind' = kind
      BY <2>2, KindKept, Zenon
    <3>2. kind = "local" => LocalNext
      BY <2>2, Zenon DEF StorageNext, RedisNext, RaftNext, RaftWatchNext
    <3>3. kind = "redis" => RedisNext
      BY <2>2, Zenon DEF StorageNext, LocalNext, RaftNext, RaftWatchNext
    <3>4. kind = "raft watchers" => RaftWatchNext
      BY <2>2, Zenon DEF StorageNext, LocalNext, RedisNext, RaftNext
    <3>5. LocalEnded'
      BY <3>1, <3>2, LocalKeepsEnded, Zenon DEF OpenInv, LocalEnded
    <3>6. RedisEnded'
      BY <3>1, <3>3, RedisKeepsEnded, Zenon DEF OpenInv, RedisEnded
    <3>7. RaftEnded'
      BY <3>1, <3>4, RaftKeepsEnded, Zenon DEF OpenInv, RaftEnded
    <3>8. QED
      BY <3>5, <3>6, <3>7, Zenon
  <2>3. QED
    BY <2>1, <2>2, Zenon
<1>3. EndInv => EndedWatchersClosed
  <2>1. EndInv => LocalEndedWatchersClosed
    BY Zenon DEF LocalEnded, LocalEndedWatchersClosed, IsClosedChan
  <2>2. EndInv => RedisEndedWatchersClosed
    BY Zenon DEF RedisEnded, RedisEndedWatchersClosed, IsClosedChan
  <2>3. EndInv => RaftEndedWatchersClosed
    BY Zenon DEF RaftEnded, RaftEndedWatchersClosed, IsClosedChan
  <2>4. QED
    BY <2>1, <2>2, <2>3, Zenon DEF EndedWatchersClosed
<1> HIDE DEF EndInv
<1>4. QED
  BY <1>1, <1>2, <1>3, OpenAtFirst, OpenKept, PTL DEF StorageSpec

-----------------------------------------------------------------------------
\* Expected, as an operator on the log and the writes whose time to live is over: the
\* commands among the first i that are about the key, the latest of them, and what a
\* Get returns after it.
About(lg, i, k) == {j \in 1..i : k \in lg[j].keys}
Latest(lg, i, k) == CHOOSE j \in About(lg, i, k) : \A l \in About(lg, i, k) : l <= j
Left(lg, ov, j) == IF lg[j].type = "delete" \/ (lg[j].ttl /\ j \in ov) THEN 0 ELSE j
Result(lg, ov, i, k) == IF About(lg, i, k) = {} THEN 0 ELSE Left(lg, ov, Latest(lg, i, k))

\* isExpired, likewise.
Spent(item, ov) == item.ttl /\ item.stamp \in ov

\* What a map holds for a key is what the first i commands say; only a key set by one of
\* the first b may have lost its value.
Holds(lg, ov, m, i, b, k) ==
  IF k \in DOMAIN m /\ ~Spent(m[k], ov)
    THEN IF m[k] = Blank THEN Result(lg, {}, i, k) \in 1..b
         ELSE m[k].stamp = Result(lg, ov, i, k)
    ELSE Result(lg, ov, i, k) = 0

\* A map holds that, but for the keys that are hurt.
Follows(lg, ov, m, i, b, h) == \A k \in Keys \ h : Holds(lg, ov, m, i, b, k)

\* Each item of a map comes out of a snapshot or was written by one of the first i
\* commands.
Written(lg, m, i) ==
  \A k \in DOMAIN m : m[k] = Blank \/ \E j \in 1..i : m[k] = [stamp |-> j, ttl |-> lg[j].ttl]

\* If any command is about a key, one of them is the latest.
LEMMA LatestIs ==
  ASSUME NEW lg, NEW i \in Nat, NEW k, About(lg, i, k) # {}
  PROVE  /\ Latest(lg, i, k) \in About(lg, i, k)
         /\ \A l \in About(lg, i, k) : l <= Latest(lg, i, k)
<1> DEFINE back == {n \in Nat : i - n \in About(lg, i, k)}
<1>1. \A j \in About(lg, i, k) : j \in 1..i
  BY Zenon DEF About
<1>2. back # {}
  <2>1. PICK j : j \in About(lg, i, k)
    BY Zenon
  <2>2. i - j \in Nat /\ i - (i - j) = j
    BY <1>1, <2>1
  <2>3. QED
    BY <2>1, <2>2, Zenon
<1>3. PICK n \in back : \A a \in back : ~(<<a, n>> \in OpToRel(<, Nat))
  <2>1. back \subseteq Nat
    BY Zenon
  <2> HIDE DEF back
  <2>2. QED
    BY <1>2, <2>1, NatLessThanWellFounded, WFMin, Zenon
<1>4. ASSUME NEW l \in About(lg, i, k)
      PROVE  l <= i - n
  <2>1. i - l \in Nat /\ i - (i - l) = l
    BY <1>1
  <2>2. i - l \in back
    BY <2>1, Zenon
  <2>3. ~(i - l < n)
    BY <1>3, <2>1, <2>2, Zenon DEF OpToRel
  <2>4. QED
    BY <1>1, <2>3
<1>5. i - n \in About(lg, i, k)
  BY Zenon
<1>6. QED
  BY <1>4, <1>5, Zenon DEF Latest

\* What a Get is to return after one command more.
LEMMA ResultNext ==
  ASSUME NEW lg, NEW ov, NEW i \in Nat, NEW k
  PROVE  Result(lg, ov, i + 1, k) = IF k \in lg[i + 1].keys THEN Left(lg, ov, i + 1)
                                    ELSE Result(lg, ov, i, k)
<1>1. CASE k \in lg[i + 1].keys
  <2>1. i + 1 \in About(lg, i + 1, k)
    BY <1>1 DEF About
  <2>2. /\ Latest(lg, i + 1, k) \in About(lg, i + 1, k)
        /\ i + 1 <= Latest(lg, i + 1, k)
    BY <2>1, LatestIs
  <2>3. Latest(lg, i + 1, k) \in 1..(i + 1)
    BY <2>2, Zenon DEF About
  <2>4. Latest(lg, i + 1, k) = i + 1
    BY <2>2, <2>3
  <2>5. QED
    BY <1>1, <2>1, <2>4, Zenon DEF Result
<1>2. CASE k \notin lg[i + 1].keys
  <2>1. About(lg, i + 1, k) = About(lg, i, k)
    BY <1>2 DEF About
  <2>2. Latest(lg, i + 1, k) = Latest(lg, i, k)
    BY <2>1, Zenon DEF Latest
  <2>3. QED
    BY <1>2, <2>1, <2>2, Zenon DEF Result
<1>3. QED
  BY <1>1, <1>2, Zenon

\* A command about other keys leaves what a Get of this one is to return.
LEMMA ResultKept ==
  ASSUME NEW lg, NEW i \in Nat, NEW k, k \notin lg[i + 1].keys
  PROVE  \A o : Result(lg, o, i + 1, k) = Result(lg, o, i, k)
<1> TAKE o
<1>1. Result(lg, o, i + 1, k) = IF k \in lg[i + 1].keys THEN Left(lg, o, i + 1)
                                ELSE Result(lg, o, i, k)
  BY ONLY i \in Nat, ResultNext, Zenon
<1>2. QED
  BY <1>1, Zenon

\* A command that is committed does not change what those before it say.
LEMMA ResultAppend ==
  ASSUME NEW S, NEW lg \in Seq(S), NEW cmd \in S, NEW ov, NEW i \in 0..Len(lg), NEW k
  PROVE  Result(Append(lg, cmd), ov, i, k) = Result(lg, ov, i, k)
<1> DEFINE new == Append(lg, cmd)
<1>1. \A j \in 1..i : new[j] = lg[j]
  OBVIOUS
<1> HIDE DEF new
<1>2. About(new, i, k) = About(lg, i, k)
  BY <1>1, Zenon DEF About
<1>3. About(lg, i, k) # {} => Latest(lg, i, k) \in 1..i
  <2>1. i \in Nat
    OBVIOUS
  <2>2. QED
    BY <2>1, LatestIs, Zenon DEF About
<1>4. Latest(new, i, k) = Latest(lg, i, k)
  BY <1>2, Zenon DEF Latest
<1>5. About(lg, i, k) # {} => new[Latest(lg, i, k)] = lg[Latest(lg, i, k)]
  BY <1>1, <1>3, Zenon
<1>6. QED
  BY <1>2, <1>4, <1>5, Zenon DEF Result, Left, new

\* As time passes, what is to be returned is returned until its time to live is over.
LEMMA ResultLater ==
  ASSUME NEW lg, NEW ov, NEW ov2, ov \subseteq ov2, NEW i \in Nat, NEW k
  PROVE  LET r == Result(lg, ov, i, k)
         IN Result(lg, ov2, i, k) = IF r # 0 /\ lg[r].ttl /\ r \in ov2 THEN 0 ELSE r
<1>1. CASE About(lg, i, k) = {}
  BY <1>1, Zenon DEF Result
<1>2. CASE About(lg, i, k) # {}
  <2>1. Latest(lg, i, k) \in 1..i
    BY <1>2, LatestIs, Zenon DEF About
  <2>2. QED
    BY <1>2, <2>1, Zenon DEF Result, Left
<1>3. QED
  BY <1>1, <1>2, Zenon

\* What a Get is to return was set by one of the commands.
LEMMA ResultSet ==
  ASSUME NEW lg, NEW ov, NEW i \in Nat, NEW k
  PROVE  /\ Result(lg, ov, i, k) \in 0..i
         /\ Result(lg, ov, i, k) # 0 => Result(lg, {}, i, k) = Result(lg, ov, i, k)
<1>1. CASE About(lg, i, k) = {}
  BY <1>1 DEF Result
<1>2. CASE About(lg, i, k) # {}
  <2>1. Latest(lg, i, k) \in 1..i
    BY <1>2, LatestIs, Zenon DEF About
  <2>2. 0 \in 0..i /\ Latest(lg, i, k) \in 0..i
    BY <2>1
  <2>3. QED
    BY <1>2, <2>2, Zenon DEF Result, Left
<1>3. QED
  BY <1>1, <1>2, Zenon

\* A map goes on holding what it should as time passes: an item and the command that
\* wrote it expire together.
LEMMA FollowsLater ==
  ASSUME NEW lg, NEW ov, NEW ov2, ov \subseteq ov2, NEW m, NEW i \in Nat, NEW b, NEW h,
         Follows(lg, ov, m, i, b, h), Written(lg, m, i)
  PROVE  Follows(lg, ov2, m, i, b, h)
<1> SUFFICES ASSUME NEW k \in Keys \ h
             PROVE  Holds(lg, ov2, m, i, b, k)
  BY Zenon DEF Follows
<1> DEFINE r == Result(lg, ov, i, k)
           s == Result(lg, ov2, i, k)
<1>1. s = IF r # 0 /\ lg[r].ttl /\ r \in ov2 THEN 0 ELSE r
  BY ResultLater
<1>2. IF k \in DOMAIN m /\ ~Spent(m[k], ov)
        THEN IF m[k] = Blank THEN Result(lg, {}, i, k) \in 1..b ELSE m[k].stamp = r
        ELSE r = 0
  BY Zenon DEF Follows, Holds
<1> HIDE DEF r, s
<1>3. Blank.ttl = FALSE
  BY Zenon DEF Blank
<1>4. CASE ~(k \in DOMAIN m /\ ~Spent(m[k], ov))
  BY <1>1, <1>2, <1>4, Zenon DEF Spent, Holds, s
<1>5. CASE k \in DOMAIN m /\ ~Spent(m[k], ov)
  <2>1. CASE m[k] = Blank
    BY <1>2, <1>3, <1>5, <2>1, Zenon DEF Spent, Holds
  <2>2. CASE m[k] # Blank
    <3>1. PICK j \in 1..i : m[k] = [stamp |-> j, ttl |-> lg[j].ttl]
      BY <1>5, <2>2, Zenon DEF Written
    <3>2. r = j /\ j # 0 /\ m[k].ttl = lg[j].ttl /\ m[k].stamp = j
      BY <1>2, <1>5, <2>2, <3>1
    <3>3. Spent(m[k], ov2) <=> lg[j].ttl /\ j \in ov2
      BY <3>2, Zenon DEF Spent
    <3>4. QED
      BY <1>1, <1>5, <2>2, <3>2, <3>3, Zenon DEF Holds, s
  <2>3. QED
    BY <2>1, <2>2, Zenon
<1>6. QED
  BY <1>4, <1>5, Zenon

\* A command that is committed disturbs no map of those before it.
LEMMA FollowsAppend ==
  ASSUME NEW S, NEW lg \in Seq(S), NEW cmd \in S, NEW ov, NEW m, NEW i \in 0..Len(lg), NEW b,
         NEW h
  PROVE  /\ Follows(lg, ov, m, i, b, h) => Follows(Append(lg, cmd), ov, m, i, b, h)
         /\ Written(lg, m, i) => Written(Append(lg, cmd), m, i)
<1>1. \A k : /\ Result(Append(lg, cmd), ov, i, k) = Result(lg, ov, i, k)
             /\ Result(Append(lg, cmd), {}, i, k) = Result(lg, {}, i, k)
  BY ResultAppend
<1>2. \A j \in 1..i : Append(lg, cmd)[j] = lg[j]
  OBVIOUS
<1>3. QED
  BY <1>1, <1>2, Zenon DEF Follows, Holds, Written

\* The map after Apply of the next command.
Applied(m, cmd, i) ==
  IF cmd.type = "delete" THEN [k \in DOMAIN m \ cmd.keys |-> m[k]]
  ELSE [k \in DOMAIN m \cup cmd.keys |->
          IF k \in cmd.keys THEN [stamp |-> i, ttl |-> cmd.ttl] ELSE m[k]]

\* Apply makes of what the first i commands say what the first i + 1 say; the keys that
\* are to be deleted meanwhile are hurt.
LEMMA FollowsApply ==
  ASSUME NEW lg, NEW ov, NEW m, NEW i \in Nat, NEW b, NEW h, NEW p,
         Follows(lg, ov, m, i, b, h), Written(lg, m, i)
  PROVE  LET cmd == lg[i + 1]
         IN /\ Follows(lg, ov, Applied(m, cmd, i + 1), i + 1, b,
                       (h \ cmd.keys) \cup (cmd.keys \cap p))
            /\ Written(lg, Applied(m, cmd, i + 1), i + 1)
<1> DEFINE cmd == lg[i + 1]
           new == Applied(m, cmd, i + 1)
<1>1. ASSUME NEW k \in Keys, k \notin cmd.keys, k \notin h
      PROVE  Holds(lg, ov, new, i + 1, b, k)
  <2>1. /\ Result(lg, ov, i + 1, k) = Result(lg, ov, i, k)
        /\ Result(lg, {}, i + 1, k) = Result(lg, {}, i, k)
    <3> HIDE DEF new
    <3>1. k \notin lg[i + 1].keys
      BY <1>1, Zenon
    <3> HIDE DEF cmd
    <3>2. \A o : Result(lg, o, i + 1, k) = Result(lg, o, i, k)
      BY <3>1, ResultKept, Zenon
    <3>3. QED
      BY ONLY <3>2, Zenon
  <2>2. (k \in DOMAIN new <=> k \in DOMAIN m) /\ (k \in DOMAIN m => new[k] = m[k])
    BY <1>1, Zenon DEF Applied
  <2>3. Holds(lg, ov, m, i, b, k)
    BY <1>1, Zenon DEF Follows
  <2> HIDE DEF new
  <2>4. QED
    BY <2>1, <2>2, <2>3, Zenon DEF Holds
<1>2. ASSUME NEW k \in Keys, k \in cmd.keys
      PROVE  Holds(lg, ov, new, i + 1, b, k)
  <2>1. Result(lg, ov, i + 1, k) = Left(lg, ov, i + 1)
    BY <1>2, ResultNext, Zenon
  <2>2. CASE cmd.type = "delete"
    <3>1. k \notin DOMAIN new
      BY <1>2, <2>2, Zenon DEF Applied
    <3>2. Result(lg, ov, i + 1, k) = 0
      BY <2>1, <2>2, Zenon DEF Left
    <3> HIDE DEF new
    <3>3. QED
      BY <3>1, <3>2, Zenon DEF Holds
  <2>3. CASE cmd.type # "delete"
    <3>1. k \in DOMAIN new /\ new[k] = [stamp |-> i + 1, ttl |-> cmd.ttl]
      BY <1>2, <2>3, Zenon DEF Applied
    <3>2. (Spent(new[k], ov) <=> cmd.ttl /\ i + 1 \in ov) /\ new[k].stamp = i + 1
      BY <3>1 DEF Spent
    <3>3. new[k] # Blank
      <4>1. Blank.stamp = 0 /\ i + 1 # 0
        BY DEF Blank
      <4> HIDE DEF new
      <4>2. QED
        BY <3>2, <4>1, Zenon
    <3>4. Result(lg, ov, i + 1, k) = IF Spent(new[k], ov) THEN 0 ELSE i + 1
      BY <2>1, <2>3, <3>2, Zenon DEF Left
    <3> HIDE DEF new
    <3>5. QED
      BY <3>1, <3>2, <3>3, <3>4, Zenon DEF Holds
  <2>4. QED
    BY <2>2, <2>3, Zenon
<1>3. ASSUME NEW k \in DOMAIN new
      PROVE  new[k] = Blank \/ \E j \in 1..(i + 1) : new[k] = [stamp |-> j, ttl |-> lg[j].ttl]
  <2>1. CASE k \in cmd.keys
    <3>1. new[k] = [stamp |-> i + 1, ttl |-> cmd.ttl]
      BY <1>3, <2>1, Zenon DEF Applied
    <3>2. QED
      BY <3>1
  <2>2. CASE k \notin cmd.keys
    <3>1. k \in DOMAIN m /\ new[k] = m[k]
      BY <1>3, <2>2, Zenon DEF Applied
    <3>2. QED
      BY <3>1 DEF Written
  <2>3. QED
    BY <2>1, <2>2, Zenon
<1> HIDE DEF new
<1>4. Follows(lg, ov, new, i + 1, b, (h \ cmd.keys) \cup (cmd.keys \cap p))
  BY <1>1, <1>2, Zenon DEF Follows
<1>5. Written(lg, new, i + 1)
  BY <1>3, Zenon DEF Written
<1>6. QED
  BY <1>4, <1>5, Zenon DEF new

-----------------------------------------------------------------------------
\* A map that follows the log, with keys that are hurt and keys that are to be deleted:
\* the latter hold nothing that a Get is to return.
Kept(lg, ov, m, i, b, h, p) ==
  /\ Follows(lg, ov, m, i, b, h) /\ Written(lg, m, i)
  /\ \A k \in Keys : k \in p \ h => Result(lg, ov, i, k) = 0

\* Time passes.
LEMMA KeptLater ==
  ASSUME NEW lg, NEW ov, NEW ov2, ov \subseteq ov2, NEW m, NEW i \in Nat, NEW b, NEW h, NEW p,
         Kept(lg, ov, m, i, b, h, p)
  PROVE  Kept(lg, ov2, m, i, b, h, p)
<1>1. Follows(lg, ov2, m, i, b, h)
  BY FollowsLater, Zenon DEF Kept
<1>2. ASSUME NEW k \in Keys, Result(lg, ov, i, k) = 0
      PROVE  Result(lg, ov2, i, k) = 0
  <2> DEFINE r == Result(lg, ov, i, k)
  <2>1. Result(lg, ov2, i, k) = IF r # 0 /\ lg[r].ttl /\ r \in ov2 THEN 0 ELSE r
    BY ResultLater
  <2>2. QED
    BY <1>2, <2>1, Zenon
<1>3. QED
  BY <1>1, <1>2, Zenon DEF Kept

\* A command is committed.
LEMMA KeptAppend ==
  ASSUME NEW S, NEW lg \in Seq(S), NEW cmd \in S, NEW ov, NEW m, NEW i \in 0..Len(lg),
         NEW b, NEW h, NEW p, Kept(lg, ov, m, i, b, h, p)
  PROVE  Kept(Append(lg, cmd), ov, m, i, b, h, p)
<1>1. Follows(Append(lg, cmd), ov, m, i, b, h) /\ Written(Append(lg, cmd), m, i)
  BY FollowsAppend, Zenon DEF Kept
<1>2. \A k \in Keys : Result(Append(lg, cmd), ov, i, k) = Result(lg, ov, i, k)
  BY ResultAppend
<1>3. QED
  BY <1>1, <1>2, Zenon DEF Kept

\* Apply.
LEMMA KeptApply ==
  ASSUME NEW lg, NEW ov, NEW m, NEW i \in Nat, NEW b, NEW h, NEW p, Kept(lg, ov, m, i, b, h, p)
  PROVE  LET cmd == lg[i + 1]
         IN Kept(lg, ov, Applied(m, cmd, i + 1), i + 1, b, (h \ cmd.keys) \cup (cmd.keys \cap p), p)
<1> DEFINE cmd == lg[i + 1]
<1>1. /\ Follows(lg, ov, Applied(m, cmd, i + 1), i + 1, b, (h \ cmd.keys) \cup (cmd.keys \cap p))
      /\ Written(lg, Applied(m, cmd, i + 1), i + 1)
  BY FollowsApply, Zenon DEF Kept
<1>2. ASSUME NEW k \in Keys, k \in p \ ((h \ cmd.keys) \cup (cmd.keys \cap p))
      PROVE  Result(lg, ov, i + 1, k) = 0
  <2>1. k \notin cmd.keys /\ k \in p \ h
    BY <1>2, Zenon
  <2>2. QED
    BY <2>1, ResultNext, Zenon DEF Kept
<1>3. QED
  BY <1>1, <1>2, Zenon DEF Kept

\* get: a key whose item has expired is to be deleted.
LEMMA KeptGet ==
  ASSUME NEW lg, NEW ov, NEW m, NEW i \in Nat, NEW b, NEW h, NEW p, Kept(lg, ov, m, i, b, h, p),
         NEW k \in DOMAIN m, Spent(m[k], ov)
  PROVE  Kept(lg, ov, m, i, b, h, p \cup {k})
<1>1. k \in Keys \ h => Result(lg, ov, i, k) = 0
  BY Zenon DEF Kept, Follows, Holds
<1>2. QED
  BY <1>1, Zenon DEF Kept

\* get: a key that is to be deleted is, whatever it holds; others may still be to delete it.
LEMMA KeptPurge ==
  ASSUME NEW lg, NEW ov, NEW m, NEW i \in Nat, NEW b, NEW h, NEW p, Kept(lg, ov, m, i, b, h, p),
         NEW k \in p, NEW q, q \subseteq p
  PROVE  Kept(lg, ov, [j \in DOMAIN m \ {k} |-> m[j]], i, b, h, q)
<1>1. Follows(lg, ov, [j \in DOMAIN m \ {k} |-> m[j]], i, b, h)
  BY Zenon DEF Kept, Follows, Holds
<1>2. Written(lg, [j \in DOMAIN m \ {k} |-> m[j]], i)
  BY Zenon DEF Kept, Written
<1>3. QED
  BY <1>1, <1>2, Zenon DEF Kept

\* Snapshot and Persist: a snapshot is a map that follows the log, too, though all its
\* items have lost their values.
LEMMA KeptSnapshot ==
  ASSUME NEW lg, NEW ov, NEW m, NEW i \in Nat, NEW b \in 0..i, NEW h, NEW p,
         Kept(lg, ov, m, i, b, h, p)
  PROVE  Kept(lg, ov, [k \in {j \in DOMAIN m : ~Spent(m[j], ov)} |-> Blank], i, i, h, {})
<1> DEFINE q == [k \in {j \in DOMAIN m : ~Spent(m[j], ov)} |-> Blank]
<1>1. ASSUME NEW k \in Keys \ h
      PROVE  Holds(lg, ov, q, i, i, k)
  <2>1. ~Spent(Blank, ov)
    BY Zenon DEF Spent, Blank
  <2>2. Holds(lg, ov, m, i, b, k)
    BY <1>1, Zenon DEF Kept, Follows
  <2>3. CASE k \in DOMAIN m /\ ~Spent(m[k], ov)
    <3>1. k \in DOMAIN q /\ q[k] = Blank
      BY <2>3, Zenon
    <3>2. CASE m[k] = Blank
      <4>1. Result(lg, {}, i, k) \in 1..b
        BY <2>2, <2>3, <3>2, Zenon DEF Holds
      <4>2. Result(lg, {}, i, k) \in 1..i
        BY <4>1
      <4> HIDE DEF q
      <4>3. QED
        BY <2>1, <3>1, <4>2, Zenon DEF Holds
    <3>3. CASE m[k] # Blank
      <4>1. PICK j \in 1..i : m[k] = [stamp |-> j, ttl |-> lg[j].ttl]
        BY <2>3, <3>3, Zenon DEF Kept, Written
      <4>2. Result(lg, ov, i, k) = j
        BY <2>2, <2>3, <3>3, <4>1 DEF Holds
      <4>3. j # 0
        BY <4>1
      <4>4. Result(lg, {}, i, k) = j
        BY <4>2, <4>3, ResultSet, Zenon
      <4> HIDE DEF q
      <4>5. QED
        BY <2>1, <3>1, <4>1, <4>4, Zenon DEF Holds
    <3>4. QED
      BY <3>2, <3>3, Zenon
  <2>4. CASE ~(k \in DOMAIN m /\ ~Spent(m[k], ov))
    <3>1. k \notin DOMAIN q /\ Result(lg, ov, i, k) = 0
      BY <2>2, <2>4, Zenon DEF Holds
    <3> HIDE DEF q
    <3>2. QED
      BY <3>1, Zenon DEF Holds
  <2>5. QED
    BY <2>3, <2>4, Zenon
<1>2. Written(lg, q, i)
  BY Zenon DEF Written
<1> HIDE DEF q
<1>3. QED
  BY <1>1, <1>2, Zenon DEF Kept, Follows, q

\* Restore on a node where keys are to be deleted: they are hurt.
LEMMA KeptRestore ==
  ASSUME NEW lg, NEW ov, NEW m, NEW i \in Nat, NEW b, NEW h, NEW p, Kept(lg, ov, m, i, b, h, {})
  PROVE  Kept(lg, ov, m, i, b, h \cup p, p)
BY Zenon DEF Kept, Follows, Holds

\* A map without items, before any command.
LEMMA KeptAtFirst ==
  ASSUME NEW lg, NEW ov, NEW m, DOMAIN m = {}
  PROVE  Kept(lg, ov, m, 0, 0, {}, {})
<1>1. \A k : About(lg, 0, k) = {}
  BY DEF About
<1>2. \A k : Result(lg, ov, 0, k) = 0
  BY <1>1, Zenon DEF Result
<1>3. QED
  BY <1>2, Zenon DEF Kept, Follows, Holds, Written

-----------------------------------------------------------------------------
\* The map of every node that runs, and every snapshot on a disk, follows the log as far
\* as it goes; a node that does not run has nothing to delete.
ReplicaInv ==
  /\ log \in Seq(raftCommand) /\ up \subseteq Nodes
  /\ DOMAIN fsm = Nodes /\ DOMAIN snap = Nodes /\ DOMAIN purging = Nodes /\ DOMAIN hurt = Nodes
  /\ applied \in [Nodes -> Nat] /\ DOMAIN base = Nodes
  /\ \A n \in up : base[n] \in 0..applied[n]
  /\ \A n \in Nodes : applied[n] <= Len(log) /\ snap[n].index \in 0..Len(log)
  /\ \A n \in up : Kept(log, over, fsm[n], applied[n], base[n], hurt[n], purging[n])
  /\ \A n \in Nodes : Kept(log, over, snap[n].items, snap[n].index, snap[n].index, snap[n].hurt, {})
  /\ \A n \in Nodes \ up : purging[n] = {}

\* Only node n changes.
OnlyNode(n) ==
  \A m \in Nodes \ {n} : /\ fsm'[m] = fsm[m] /\ applied'[m] = applied[m] /\ hurt'[m] = hurt[m]
                         /\ purging'[m] = purging[m] /\ snap'[m] = snap[m]
                         /\ base'[m] = base[m]

\* A step of one node keeps the invariant if it keeps what concerns the node.
LEMMA NodeStepKeeps ==
  ASSUME ReplicaInv, NEW n \in Nodes, OnlyNode(n), UNCHANGED <<log, over>>,
         up' \subseteq up \cup {n}, up \subseteq up' \cup {n},
         /\ DOMAIN fsm' = Nodes /\ DOMAIN snap' = Nodes /\ DOMAIN purging' = Nodes
         /\ DOMAIN hurt' = Nodes /\ applied' \in [Nodes -> Nat] /\ DOMAIN base' = Nodes,
         n \in up' => base'[n] \in 0..applied'[n],
         applied'[n] <= Len(log), snap'[n].index \in 0..Len(log),
         n \in up' => Kept(log, over, fsm'[n], applied'[n], base'[n], hurt'[n], purging'[n]),
         Kept(log, over, snap'[n].items, snap'[n].index, snap'[n].index, snap'[n].hurt, {}),
         n \notin up' => purging'[n] = {}
  PROVE  ReplicaInv'
<1>1. \A m \in Nodes : applied'[m] <= Len(log) /\ snap'[m].index \in 0..Len(log)
  BY Zenon DEF ReplicaInv, OnlyNode
<1>2. ASSUME NEW m \in up'
      PROVE  Kept(log, over, fsm'[m], applied'[m], base'[m], hurt'[m], purging'[m])
  <2>1. CASE m = n
    BY <1>2, <2>1, Zenon
  <2>2. CASE m # n
    <3>1. m \in up /\ m \in Nodes \ {n}
      BY <1>2, <2>2, Zenon DEF ReplicaInv
    <3>2. QED
      BY <3>1, Zenon DEF ReplicaInv, OnlyNode
  <2>3. QED
    BY <2>1, <2>2, Zenon
<1>3. ASSUME NEW m \in Nodes
      PROVE  Kept(log, over, snap'[m].items, snap'[m].index, snap'[m].index, snap'[m].hurt, {})
  BY Zenon DEF ReplicaInv, OnlyNode
<1>4. \A m \in Nodes \ up' : purging'[m] = {}
  BY Zenon DEF ReplicaInv, OnlyNode
<1>5. up' \subseteq Nodes
  BY Zenon DEF ReplicaInv
<1>6. \A m \in up' : base'[m] \in 0..applied'[m]
  BY <1>5, Zenon DEF ReplicaInv, OnlyNode
<1>7. QED
  BY <1>1, <1>2, <1>3, <1>4, <1>5, <1>6, Zenon DEF ReplicaInv

\* RaftCommit, on whatever node, disturbs no map.
LEMMA CommitKeeps ==
  ASSUME ReplicaInv, NEW n \in Nodes, RaftCommit(n)
  PROVE  ReplicaInv'
<1>1. PICK cmd \in raftCommand : log' = Append(log, cmd)
  BY Zenon DEF RaftCommit
<1>2. UNCHANGED <<over, up, fsm, applied, snap, base, purging, hurt>>
  BY Zenon DEF RaftCommit
<1>3. log' \in Seq(raftCommand) /\ Len(log') = Len(log) + 1 /\ Len(log) \in Nat
  BY <1>1 DEF ReplicaInv
<1>4. \A m \in Nodes : applied[m] \in 0..Len(log) /\ snap[m].index \in 0..Len(log)
  BY DEF ReplicaInv
<1>5. \A m \in up : Kept(log', over, fsm[m], applied[m], base[m], hurt[m], purging[m])
  BY <1>1, <1>4, KeptAppend, Zenon DEF ReplicaInv
<1>6. \A m \in Nodes : Kept(log', over, snap[m].items, snap[m].index, snap[m].index, snap[m].hurt, {})
  BY <1>1, <1>4, KeptAppend, Zenon DEF ReplicaInv
<1>7. \A m \in Nodes : applied[m] <= Len(log') /\ snap[m].index \in 0..Len(log')
  BY <1>3, <1>4
<1>8. QED
  BY <1>2, <1>3, <1>5, <1>6, <1>7, Zenon DEF ReplicaInv

\* Time passes, and nothing else happens to the maps.
LEMMA TimeKeeps ==
  ASSUME ReplicaInv, UNCHANGED raftVars, over \subseteq over'
  PROVE  ReplicaInv'
<1>1. UNCHANGED <<log, up, fsm, applied, snap, base, purging, hurt>>
  BY Zenon DEF raftVars
<1>2. \A m \in Nodes : applied[m] \in Nat /\ snap[m].index \in Nat
  BY DEF ReplicaInv
<1>3. \A m \in up : Kept(log, over', fsm[m], applied[m], base[m], hurt[m], purging[m])
  BY <1>2, KeptLater, Zenon DEF ReplicaInv
<1>4. \A m \in Nodes : Kept(log, over', snap[m].items, snap[m].index, snap[m].index, snap[m].hurt, {})
  BY <1>2, KeptLater, Zenon DEF ReplicaInv
<1>5. QED
  BY <1>1, <1>3, <1>4, Zenon DEF ReplicaInv

\* Apply of the next command.
LEMMA ApplyKeeps ==
  ASSUME ReplicaInv, NEW n \in Nodes, RaftApply(n)
  PROVE  ReplicaInv'
<1> DEFINE i == applied[n]
           cmd == log[i + 1]
<1>1. /\ n \in up /\ i + 1 <= Len(log)
      /\ applied' = [applied EXCEPT ![n] = i + 1]
      /\ UNCHANGED <<over, log, up, snap, base, purging>>
  BY Zenon DEF RaftApply, sharedVars
<1>2. fsm' = [fsm EXCEPT ![n] = Applied(fsm[n], cmd, i + 1)]
  BY Zenon DEF RaftApply, Applied
<1>3. hurt' = [hurt EXCEPT ![n] = (hurt[n] \ cmd.keys) \cup (cmd.keys \cap purging[n])]
  BY Zenon DEF RaftApply
<1>4. i \in Nat
  BY Zenon DEF ReplicaInv
<1>5. Kept(log, over, fsm[n], i, base[n], hurt[n], purging[n])
  BY <1>1, Zenon DEF ReplicaInv
<1>6. Kept(log, over, Applied(fsm[n], cmd, i + 1), i + 1,
           base[n], (hurt[n] \ cmd.keys) \cup (cmd.keys \cap purging[n]), purging[n])
  BY <1>4, <1>5, KeptApply, Zenon
<1> HIDE DEF cmd, i
<1>7. Kept(log, over, fsm'[n], applied'[n], base'[n], hurt'[n], purging'[n]) /\ applied'[n] = i + 1
  BY <1>1, <1>2, <1>3, <1>6, Zenon DEF ReplicaInv
<1>8. OnlyNode(n)
  BY <1>1, <1>2, <1>3, Zenon DEF ReplicaInv, OnlyNode
<1>9. /\ DOMAIN fsm' = Nodes /\ DOMAIN snap' = Nodes /\ DOMAIN purging' = Nodes
      /\ DOMAIN hurt' = Nodes /\ applied' \in [Nodes -> Nat]
  BY <1>1, <1>2, <1>3, <1>4 DEF ReplicaInv
<1>10. /\ snap'[n].index \in 0..Len(log)
       /\ Kept(log, over, snap'[n].items, snap'[n].index, snap'[n].index, snap'[n].hurt, {})
  BY <1>1, Zenon DEF ReplicaInv
<1>11. DOMAIN base' = Nodes /\ base'[n] \in 0..applied'[n]
  <2>1. DOMAIN base = Nodes /\ base[n] \in 0..i
    BY <1>1, Zenon DEF ReplicaInv, i
  <2>2. base[n] \in 0..(i + 1)
    BY <1>4, <2>1
  <2>3. QED
    BY <1>1, <1>7, <2>1, <2>2, Zenon
<1>12. QED
  BY <1>1, <1>7, <1>8, <1>9, <1>10, <1>11, NodeStepKeeps, Zenon

\* get, and the goroutine that it starts.
LEMMA PurgeKeeps ==
  ASSUME ReplicaInv, NEW n \in Nodes, RaftGet(n) \/ RaftPurge(n)
  PROVE  ReplicaInv'
<1>1. n \in up /\ UNCHANGED <<over, log, up, applied, snap, base, hurt>>
  BY Zenon DEF RaftGet, RaftPurge, sharedVars
<1>2. applied[n] \in Nat /\ Kept(log, over, fsm[n], applied[n], base[n], hurt[n], purging[n])
  BY <1>1, Zenon DEF ReplicaInv
<1>3. ASSUME OnlyNode(n), DOMAIN fsm' = Nodes, DOMAIN purging' = Nodes,
             Kept(log, over, fsm'[n], applied[n], base[n], hurt[n], purging'[n])
      PROVE  ReplicaInv'
  <2>1. /\ DOMAIN snap' = Nodes /\ DOMAIN hurt' = Nodes /\ applied' \in [Nodes -> Nat]
        /\ applied'[n] <= Len(log) /\ snap'[n].index \in 0..Len(log)
        /\ Kept(log, over, snap'[n].items, snap'[n].index, snap'[n].index, snap'[n].hurt, {})
        /\ DOMAIN base' = Nodes /\ base'[n] \in 0..applied'[n]
    BY <1>1, Zenon DEF ReplicaInv
  <2>2. Kept(log, over, fsm'[n], applied'[n], base'[n], hurt'[n], purging'[n])
    BY <1>1, <1>3, Zenon
  <2>3. QED
    BY <1>1, <1>3, <2>1, <2>2, NodeStepKeeps, Zenon
<1>4. CASE RaftGet(n)
  <2>1. PICK k \in DOMAIN fsm[n] : /\ isExpired(fsm[n][k])
                                   /\ purging' = [purging EXCEPT ![n] = @ \cup {k}]
    BY <1>4, Zenon DEF RaftGet
  <2>2. UNCHANGED fsm
    BY <1>4, Zenon DEF RaftGet
  <2>3. Kept(log, over, fsm[n], applied[n], base[n], hurt[n], purging[n] \cup {k})
    BY <1>2, <2>1, KeptGet, Zenon DEF isExpired, Spent
  <2>4. QED
    BY <1>1, <1>3, <2>1, <2>2, <2>3, Zenon DEF ReplicaInv, OnlyNode
<1>5. CASE RaftPurge(n)
  <2>1. PICK k \in purging[n] :
          /\ fsm' = [fsm EXCEPT ![n] = [j \in DOMAIN @ \ {k} |-> @[j]]]
          /\ purging' \in {purging, [purging EXCEPT ![n] = @ \ {k}]}
    BY <1>5, Zenon DEF RaftPurge
  <2>2. DOMAIN purging' = Nodes /\ purging'[n] \subseteq purging[n]
    BY <2>1, Zenon DEF ReplicaInv
  <2>3. \A m \in Nodes \ {n} : purging'[m] = purging[m] /\ fsm'[m] = fsm[m]
    BY <2>1, Zenon DEF ReplicaInv
  <2>4. Kept(log, over, [j \in DOMAIN fsm[n] \ {k} |-> fsm[n][j]], applied[n], base[n], hurt[n], purging'[n])
    BY <1>2, <2>2, KeptPurge, Zenon
  <2>5. DOMAIN fsm' = Nodes /\ fsm'[n] = [j \in DOMAIN fsm[n] \ {k} |-> fsm[n][j]]
    BY <2>1, Zenon DEF ReplicaInv
  <2>6. OnlyNode(n)
    BY <1>1, <2>3, Zenon DEF OnlyNode
  <2>7. QED
    BY <1>3, <2>2, <2>4, <2>5, <2>6, Zenon
<1>6. QED
  BY <1>4, <1>5, Zenon

\* Snapshot and Persist.
LEMMA SnapshotKeeps ==
  ASSUME ReplicaInv, NEW n \in Nodes, RaftSnapshot(n)
  PROVE  ReplicaInv'
<1> DEFINE items == [k \in {j \in DOMAIN fsm[n] : ~Spent(fsm[n][j], over)} |-> Blank]
<1>1. n \in up /\ UNCHANGED <<over, log, up, fsm, applied, base, purging, hurt>>
  BY Zenon DEF RaftSnapshot, sharedVars
<1>2. snap' = [snap EXCEPT ![n] = [index |-> applied[n], hurt |-> hurt[n], items |-> items]]
  BY Zenon DEF RaftSnapshot, Persist, isExpired, Spent
<1>3. /\ applied[n] \in 0..Len(log) /\ base[n] \in 0..applied[n]
      /\ Kept(log, over, fsm[n], applied[n], base[n], hurt[n], purging[n])
  BY <1>1 DEF ReplicaInv
<1>4. Kept(log, over, items, applied[n], applied[n], hurt[n], {})
  BY <1>3, KeptSnapshot
<1> HIDE DEF items
<1>5. /\ DOMAIN snap' = Nodes /\ snap'[n].items = items /\ snap'[n].index = applied[n]
      /\ snap'[n].hurt = hurt[n]
  BY <1>2, Zenon DEF ReplicaInv
<1>6. OnlyNode(n)
  BY <1>1, <1>2, Zenon DEF ReplicaInv, OnlyNode
<1>7. /\ DOMAIN fsm' = Nodes /\ DOMAIN purging' = Nodes /\ DOMAIN hurt' = Nodes
      /\ applied' \in [Nodes -> Nat] /\ applied'[n] <= Len(log)
      /\ DOMAIN base' = Nodes /\ base'[n] \in 0..applied'[n]
      /\ Kept(log, over, fsm'[n], applied'[n], base'[n], hurt'[n], purging'[n])
  BY <1>1, <1>3, Zenon DEF ReplicaInv
<1>8. snap'[n].index \in 0..Len(log) /\ Kept(log, over, snap'[n].items, snap'[n].index, snap'[n].index, snap'[n].hurt, {})
  BY <1>3, <1>4, <1>5, Zenon
<1>9. QED
  BY <1>1, <1>5, <1>6, <1>7, <1>8, NodeStepKeeps, Zenon

\* A node that is behind is sent a snapshot, stops, or starts again.
LEMMA RestoreKeeps ==
  ASSUME ReplicaInv, NEW n \in Nodes, RaftInstall(n) \/ RaftStop(n) \/ RaftRestart(n)
  PROVE  ReplicaInv'
<1>1. UNCHANGED <<over, log>> /\ Len(log) \in Nat
  BY DEF RaftInstall, RaftStop, RaftRestart, sharedVars, ReplicaInv
<1>2. CASE RaftInstall(n)
  <2>1. PICK l \in up : /\ Restore(n, snap[l]) /\ snap' = [snap EXCEPT ![n] = snap[l]]
                        /\ hurt' = [hurt EXCEPT ![n] = snap[l].hurt \cup purging[n]]
    BY <1>2, Zenon DEF RaftInstall
  <2>2. n \in up /\ UNCHANGED <<up, purging>>
    BY <1>2, Zenon DEF RaftInstall
  <2>3. /\ fsm' = [fsm EXCEPT ![n] = snap[l].items]
        /\ applied' = [applied EXCEPT ![n] = snap[l].index]
        /\ base' = [base EXCEPT ![n] = snap[l].index]
    BY <2>1, Zenon DEF Restore
  <2>4. /\ snap[l].index \in 0..Len(log)
        /\ Kept(log, over, snap[l].items, snap[l].index, snap[l].index, snap[l].hurt, {})
    BY Zenon DEF ReplicaInv
  <2>5. Kept(log, over, snap[l].items, snap[l].index, snap[l].index,
             snap[l].hurt \cup purging[n], purging[n])
    BY <2>4, KeptRestore
  <2>6. /\ fsm'[n] = snap[l].items /\ applied'[n] = snap[l].index /\ snap'[n] = snap[l]
        /\ base'[n] = snap[l].index /\ DOMAIN base' = Nodes
        /\ hurt'[n] = snap[l].hurt \cup purging[n] /\ purging'[n] = purging[n]
    BY <2>1, <2>2, <2>3, Zenon DEF ReplicaInv
  <2>7. OnlyNode(n)
    BY <2>1, <2>2, <2>3, Zenon DEF ReplicaInv, OnlyNode
  <2>8. /\ DOMAIN fsm' = Nodes /\ DOMAIN snap' = Nodes /\ DOMAIN purging' = Nodes
        /\ DOMAIN hurt' = Nodes /\ applied' \in [Nodes -> Nat]
    BY <2>1, <2>2, <2>3, <2>4 DEF ReplicaInv
  <2>9. /\ applied'[n] <= Len(log) /\ snap'[n].index \in 0..Len(log)
        /\ Kept(log, over, fsm'[n], applied'[n], base'[n], hurt'[n], purging'[n])
        /\ Kept(log, over, snap'[n].items, snap'[n].index, snap'[n].index, snap'[n].hurt, {})
        /\ base'[n] \in 0..applied'[n] /\ DOMAIN base' = Nodes
    BY <1>1, <2>4, <2>5, <2>6
  <2>10. QED
    BY <1>1, <2>2, <2>7, <2>8, <2>9, NodeStepKeeps, Zenon
<1>3. CASE RaftStop(n)
  <2>1. /\ up' = up \ {n} /\ UNCHANGED snap
        /\ fsm' = [fsm EXCEPT ![n] = NoSnapshot.items] /\ applied' = [applied EXCEPT ![n] = 0]
        /\ purging' = [purging EXCEPT ![n] = {}] /\ hurt' = [hurt EXCEPT ![n] = {}]
        /\ base' = [base EXCEPT ![n] = 0]
    BY <1>3, Zenon DEF RaftStop, Restore, NoSnapshot
  <2>2. applied'[n] = 0 /\ purging'[n] = {} /\ snap'[n] = snap[n]
    BY <2>1, Zenon DEF ReplicaInv
  <2>3. OnlyNode(n)
    BY <2>1, Zenon DEF ReplicaInv, OnlyNode
  <2>4. /\ DOMAIN fsm' = Nodes /\ DOMAIN snap' = Nodes /\ DOMAIN purging' = Nodes
        /\ DOMAIN hurt' = Nodes /\ applied' \in [Nodes -> Nat] /\ DOMAIN base' = Nodes
        /\ n \notin up'
    BY <2>1, Zenon DEF ReplicaInv
  <2>5. /\ applied'[n] <= Len(log) /\ snap'[n].index \in 0..Len(log)
        /\ Kept(log, over, snap'[n].items, snap'[n].index, snap'[n].index, snap'[n].hurt, {})
    BY <1>1, <2>2 DEF ReplicaInv
  <2>6. QED
    BY <1>1, <2>1, <2>2, <2>3, <2>4, <2>5, NodeStepKeeps, Zenon
<1>4. CASE RaftRestart(n)
  <2>1. /\ n \notin up /\ up' = up \cup {n} /\ UNCHANGED <<snap, purging>>
        /\ fsm' = [fsm EXCEPT ![n] = snap[n].items]
        /\ applied' = [applied EXCEPT ![n] = snap[n].index]
        /\ base' = [base EXCEPT ![n] = snap[n].index]
        /\ hurt' = [hurt EXCEPT ![n] = snap[n].hurt]
    BY <1>4, Zenon DEF RaftRestart, Restore
  <2>2. /\ snap[n].index \in 0..Len(log) /\ purging[n] = {}
        /\ Kept(log, over, snap[n].items, snap[n].index, snap[n].index, snap[n].hurt, {})
    BY <2>1, Zenon DEF ReplicaInv
  <2>3. /\ fsm'[n] = snap[n].items /\ applied'[n] = snap[n].index /\ hurt'[n] = snap[n].hurt
        /\ purging'[n] = {} /\ snap'[n] = snap[n] /\ base'[n] = snap[n].index
        /\ DOMAIN base' = Nodes
    BY <2>1, <2>2, Zenon DEF ReplicaInv
  <2>4. OnlyNode(n)
    BY <2>1, Zenon DEF ReplicaInv, OnlyNode
  <2>5. /\ DOMAIN fsm' = Nodes /\ DOMAIN snap' = Nodes /\ DOMAIN purging' = Nodes
        /\ DOMAIN hurt' = Nodes /\ applied' \in [Nodes -> Nat]
    BY <2>1, <2>2 DEF ReplicaInv
  <2>6. /\ applied'[n] <= Len(log) /\ snap'[n].index \in 0..Len(log)
        /\ Kept(log, over, fsm'[n], applied'[n], base'[n], hurt'[n], purging'[n])
        /\ Kept(log, over, snap'[n].items, snap'[n].index, snap'[n].index, snap'[n].hurt, {})
        /\ base'[n] \in 0..applied'[n] /\ DOMAIN base' = Nodes
    BY <1>1, <2>2, <2>3
  <2>7. QED
    BY <1>1, <2>1, <2>3, <2>4, <2>5, <2>6, NodeStepKeeps, Zenon
<1>5. QED
  BY <1>2, <1>3, <1>4, Zenon

\* The map of a Raft node that runs holds for each key what the commands that it has
\* applied say (raftFSM.Apply, Snapshot, Restore and Get), whatever the log, however
\* often nodes stop, start again and are sent snapshots, but for a key that was set
\* while its expired predecessor was to be deleted.  A value may be missing only from a key
\* that was last set before the snapshot that the node was restored from.
THEOREM ReplicasFollow == StorageSpec => []StateFollowsLog
<1>1. NewStateStorage => ReplicaInv
  <2> SUFFICES ASSUME NewStateStorage PROVE ReplicaInv
    BY Zenon
  <2>1. DOMAIN NoSnapshot.items = {} /\ NoSnapshot.index = 0 /\ NoSnapshot.hurt = {}
    BY Zenon DEF NoSnapshot
  <2>2. Kept(log, over, NoSnapshot.items, 0, 0, {}, {})
    BY <2>1, KeptAtFirst, Zenon
  <2>3. /\ log = <<>> /\ up = Nodes
        /\ fsm = [n \in Nodes |-> NoSnapshot.items] /\ applied = [n \in Nodes |-> 0]
        /\ snap = [n \in Nodes |-> NoSnapshot] /\ base = [n \in Nodes |-> 0]
        /\ purging = [n \in Nodes |-> {}] /\ hurt = [n \in Nodes |-> {}]
    BY Zenon DEF NewStateStorage, RaftInit
  <2>4. log \in Seq(raftCommand) /\ Len(log) = 0
    BY <2>3
  <2>5. \A n \in Nodes : /\ fsm[n] = NoSnapshot.items /\ applied[n] = 0 /\ snap[n] = NoSnapshot
                         /\ purging[n] = {} /\ hurt[n] = {} /\ base[n] = 0
    BY <2>3, Zenon
  <2>6. /\ up = Nodes /\ DOMAIN fsm = Nodes /\ DOMAIN snap = Nodes /\ DOMAIN purging = Nodes
        /\ DOMAIN hurt = Nodes /\ applied \in [Nodes -> Nat] /\ DOMAIN base = Nodes
    BY <2>3, Zenon
  <2>7. \A n \in Nodes : Kept(log, over, fsm[n], applied[n], base[n], hurt[n], purging[n])
    BY <2>2, <2>5, Zenon
  <2>8. \A n \in Nodes : Kept(log, over, snap[n].items, snap[n].index, snap[n].index, snap[n].hurt, {})
    BY <2>1, <2>2, <2>5, Zenon
  <2>9. \A n \in Nodes : /\ applied[n] <= Len(log) /\ snap[n].index \in 0..Len(log)
                         /\ base[n] \in 0..applied[n]
    <3>1. 0 <= 0 /\ 0 \in 0..0
      OBVIOUS
    <3>2. QED
      BY <2>1, <2>4, <2>5, <3>1, Zenon
  <2>10. QED
    BY <2>4, <2>5, <2>6, <2>7, <2>8, <2>9, Zenon DEF ReplicaInv
<1>2. ReplicaInv /\ [StorageNext]_storageVars => ReplicaInv'
  <2> SUFFICES ASSUME ReplicaInv, [StorageNext]_storageVars PROVE ReplicaInv'
    BY Zenon
  <2>1. CASE RaftNext
    <3>1. CASE \E n \in Nodes : \/ RaftCommit(n) \/ RaftApply(n) \/ RaftGet(n) \/ RaftPurge(n)
                                \/ RaftSnapshot(n) \/ RaftInstall(n) \/ RaftStop(n)
                                \/ RaftRestart(n)
      BY <3>1, CommitKeeps, ApplyKeeps, PurgeKeeps, SnapshotKeeps, RestoreKeeps, Zenon
    <3>2. CASE /\ TimeToLiveEnds({[stamp |-> i, ttl |-> log[i].ttl] : i \in 1..Len(log)})
               /\ UNCHANGED raftVars
      <4>1. over \subseteq over'
        BY <3>2, Zenon DEF TimeToLiveEnds
      <4>2. QED
        BY <3>2, <4>1, TimeKeeps, Zenon
    <3>3. QED
      BY <2>1, <3>1, <3>2, Zenon DEF RaftNext
  <2>2. CASE UNCHANGED storageVars
    BY <2>2, TimeKeeps, Zenon DEF storageVars, sharedVars
  <2>3. CASE StorageNext /\ ~RaftNext
    <3>1. UNCHANGED raftVars
      BY <2>3, Zenon DEF StorageNext
    <3>2. over \subseteq over'
      BY <2>3, KindKept, Zenon
    <3>3. QED
      BY <3>1, <3>2, TimeKeeps, Zenon
  <2>4. QED
    BY <2>1, <2>2, <2>3, Zenon
<1>3. ReplicaInv => StateFollowsLog
  <2>1. \A i, k : SetBy(i, k) = Result(log, {}, i, k)
    BY DEF SetBy, Result, About, Latest, Left
  <2> SUFFICES ASSUME ReplicaInv, NEW n \in up, NEW k \in Keys \ hurt[n]
               PROVE  IF k \in DOMAIN fsm[n] /\ ~isExpired(fsm[n][k])
                        THEN IF fsm[n][k] = Blank THEN SetBy(applied[n], k) \in 1..base[n]
                             ELSE fsm[n][k].stamp = Expected(applied[n], k)
                        ELSE Expected(applied[n], k) = 0
    BY Zenon DEF StateFollowsLog
  <2>2. isExpired(fsm[n][k]) <=> Spent(fsm[n][k], over)
    BY Zenon DEF isExpired, Spent
  <2>3. applied[n] \in Nat /\ Holds(log, over, fsm[n], applied[n], base[n], k)
    BY Zenon DEF ReplicaInv, Kept, Follows
  <2>4. Expected(applied[n], k) = Result(log, over, applied[n], k)
    <3> DEFINE Later(r) == IF r # 0 /\ log[r].ttl /\ r \in over THEN 0 ELSE r
    <3>1. ASSUME NEW ov, ov \subseteq over
          PROVE  Result(log, over, applied[n], k) = Later(Result(log, ov, applied[n], k))
      BY <2>3, <3>1, ResultLater
    <3>2. {} \subseteq over
      BY Zenon
    <3> HIDE DEF Later
    <3>3. Result(log, over, applied[n], k) = Later(Result(log, {}, applied[n], k))
      BY <3>1, <3>2, Zenon
    <3>4. QED
      BY <2>1, <3>3, Zenon DEF Expected, Later
  <2>5. QED
    BY <2>1, <2>2, <2>3, <2>4, Zenon DEF Holds
<1>4. QED
  BY <1>1, <1>2, <1>3, PTL DEF StorageSpec
=============================================================================
