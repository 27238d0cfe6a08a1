---------------------------- MODULE WatchProofs -----------------------------
(***************************************************************************)
(* What the watchers of the three storages were last told, for any         *)
(* clients, keys, watchers, prefixes, nodes and buffers and any number of  *)
(* writes: the value that is stored, unless a broadcast, a message or a    *)
(* notification is still on its way to them or was dropped.  First, what   *)
(* the argument rests on: the variables of the storages keep their types.  *)
(***************************************************************************)
EXTENDS StateStorage, TLAPS

\* The messages of a queue stay messages when one is added and when the first is taken.
LEMMA QueueTypes ==
  ASSUME NEW S, NEW s \in Seq(S)
  PROVE  /\ \A e \in S : Append(s, e) \in Seq(S)
         /\ s # <<>> => Tail(s) \in Seq(S) /\ Head(s) \in S
<1>1. \A e \in S : Append(s, e) \in Seq(S)
  BY SMT
<1>2. s # <<>> => Tail(s) \in Seq(S) /\ Head(s) \in S
  BY SMT
<1>3. QED
  BY <1>1, <1>2, Zenon

\* A channel that is closed, or has other events in its buffer, is a channel.
LEMMA ChannelTypes ==
  ASSUME NEW ch \in Channel
  PROVE  /\ ch.buf \in Seq(StateEvent)
         /\ \A b \in Seq(StateEvent) : [ch EXCEPT !.buf = b] \in Channel
         /\ \A b \in BOOLEAN : [ch EXCEPT !.closed = b] \in Channel
<1>1. ch.buf \in Seq(StateEvent)
  BY Zenon DEF Channel
<1>2. ASSUME NEW S, NEW c \in [buf : S, closed : BOOLEAN]
      PROVE  /\ \A b \in S : [c EXCEPT !.buf = b] \in [buf : S, closed : BOOLEAN]
             /\ \A b \in BOOLEAN : [c EXCEPT !.closed = b] \in [buf : S, closed : BOOLEAN]
  BY SMT
<1>3. QED
  BY <1>1, <1>2, Zenon DEF Channel

\* An event offered to channels leaves the channels and their histories well typed.
LEMMA BroadcastTypes ==
  ASSUME SharedTypeOK, NEW to, NEW e \in StateEvent, Broadcast(to, e),
         UNCHANGED <<kind, writes, over, wst, last, mixed>>
  PROVE  SharedTypeOK'
<1>1. e.key \in Keys /\ e.stamp \in Stamps
  BY SMT DEF StateEvent
<1>2. \A ch \in Channel : TrySend(ch, e) \in Channel
  <2>1. ASSUME NEW ch \in Channel PROVE [ch EXCEPT !.buf = Append(ch.buf, e)] \in Channel
    BY ChannelTypes, QueueTypes, Zenon
  <2>2. QED
    BY <2>1, Zenon DEF TrySend
<1>3. chan' \in [Watchers -> Channel]
  BY <1>2, Zenon DEF SharedTypeOK, Broadcast
<1>4. told' \in [Watchers -> [Keys -> 0..MaxWrites]]
  <2>1. \A f \in [Keys -> 0..MaxWrites] : [f EXCEPT ![e.key] = e.stamp] \in [Keys -> 0..MaxWrites]
    BY <1>1, WritesAssumption, SMT DEF Stamps
  <2>2. QED
    BY <2>1, Zenon DEF SharedTypeOK, Broadcast
<1>5. missed' \in [Watchers -> SUBSET Stamps]
  BY <1>1, Zenon DEF SharedTypeOK, Broadcast
<1>6. panicked' \in BOOLEAN
  BY Zenon DEF Broadcast
<1>7. QED
  BY <1>3, <1>4, <1>5, <1>6, Zenon DEF SharedTypeOK

\* A reader takes an event.
LEMMA ReceiveTypes ==
  ASSUME SharedTypeOK, NEW v \in Watchers, Receive(v)
  PROVE  SharedTypeOK'
<1>1. /\ chan[v].buf # <<>> /\ chan' = [chan EXCEPT ![v] = [chan[v] EXCEPT !.buf = Tail(chan[v].buf)]]
      /\ UNCHANGED <<kind, writes, over, wst, panicked, last, mixed, told, missed>>
  BY Zenon DEF Receive, historyVars
<1>2. chan[v] \in Channel
  BY Zenon DEF SharedTypeOK
<1>3. [chan[v] EXCEPT !.buf = Tail(chan[v].buf)] \in Channel
  BY <1>1, <1>2, ChannelTypes, QueueTypes, Zenon
<1>4. chan' \in [Watchers -> Channel]
  BY <1>1, <1>3, Zenon DEF SharedTypeOK
<1>5. QED
  BY <1>1, <1>4, Zenon DEF SharedTypeOK

\* A channel that is ended is a channel.
LEMMA DrainTypes ==
  ASSUME NEW ch \in Channel
  PROVE  DrainOrClose(ch) \in Channel
BY ChannelTypes, QueueTypes, Zenon DEF DrainOrClose

\* Channels that are ended are channels.
LEMMA EndTypes ==
  ASSUME chan \in [Watchers -> Channel], NEW ws,
         chan' = [w \in Watchers |-> IF w \in ws THEN DrainOrClose(chan[w]) ELSE chan[w]]
  PROVE  chan' \in [Watchers -> Channel]
BY DrainTypes, Zenon

\* A write is numbered, and its event is one.
LEMMA WriteTypes ==
  ASSUME SharedTypeOK, writes < MaxWrites, writes' = writes + 1
  PROVE  /\ writes' \in 0..MaxWrites /\ writes' \in Stamps
         /\ \A k \in Keys, type \in {"set", "delete"} :
              [key |-> k, type |-> type, stamp |-> writes'] \in StateEvent
<1>1. writes' \in 0..MaxWrites /\ writes' \in Stamps
  <2>1. writes \in 0..MaxWrites
    BY Zenon DEF SharedTypeOK
  <2>2. QED
    BY <2>1, WritesAssumption, SMT DEF Stamps
<1>2. QED
  BY <1>1, SMT DEF StateEvent

\* The records of LocalStorage: what a client that does this is doing.
LEMMA OpsFields ==
  ASSUME NEW o \in Ops
  PROVE  /\ o.do = "load" => o.todo \in SUBSET Keys
         /\ o.do = "purge" => o.todo \in SUBSET Keys /\ o.key \in Keys
         /\ o.do = "set" => o.todo \in SUBSET Keys /\ o.ttl \in BOOLEAN
         /\ o.do \in {"check", "send"} =>
              o.todo \in SUBSET Keys /\ o.ttl \in BOOLEAN /\ o.event \in StateEvent
         /\ o.do = "check" => /\ [o EXCEPT !.do = "send"] \in Ops
                              /\ [o EXCEPT !.do = "send"].do = "send"
                              /\ [o EXCEPT !.do = "send"].event = o.event
<1>1. CASE o = Idle
  BY <1>1, SMT DEF Idle
<1>2. CASE o \in [do : {"load"}, todo : SUBSET Keys]
  BY <1>2, SMT
<1>3. CASE o \in [do : {"purge"}, todo : SUBSET Keys, key : Keys]
  BY <1>3, SMT
<1>4. CASE o \in [do : {"set"}, todo : SUBSET Keys, ttl : BOOLEAN]
  BY <1>4, SMT
<1>5. CASE o \in [do : {"check", "send"}, todo : SUBSET Keys, ttl : BOOLEAN, event : StateEvent]
  <2>1. [o EXCEPT !.do = "send"]
          \in [do : {"check", "send"}, todo : SUBSET Keys, ttl : BOOLEAN, event : StateEvent]
    BY <1>5, SMT
  <2>2. /\ [o EXCEPT !.do = "send"] \in Ops
        /\ [o EXCEPT !.do = "send"].do = "send" /\ [o EXCEPT !.do = "send"].event = o.event
    <3>1. [o EXCEPT !.do = "send"] \in Ops
      BY <2>1, Zenon DEF Ops
    <3>2. [o EXCEPT !.do = "send"].do = "send" /\ [o EXCEPT !.do = "send"].event = o.event
      BY <1>5, SMT
    <3>3. QED
      BY <3>1, <3>2, Zenon
  <2>3. o.do \in {"check", "send"} /\ o.todo \in SUBSET Keys /\ o.ttl \in BOOLEAN /\ o.event \in StateEvent
    BY <1>5, SMT
  <2>4. QED
    BY <2>2, <2>3, SMT
<1>6. QED
  BY <1>1, <1>2, <1>3, <1>4, <1>5, Zenon DEF Ops

\* What a client goes on to do.
LEMMA OpsMade ==
  ASSUME NEW todo \in SUBSET Keys
  PROVE  /\ AfterGet(todo) \in Ops
         /\ \A k \in Keys : [do |-> "purge", todo |-> todo, key |-> k] \in Ops
         /\ \A ttl \in BOOLEAN : [do |-> "set", todo |-> todo, ttl |-> ttl] \in Ops
         /\ \A ttl \in BOOLEAN, e \in StateEvent :
              [do |-> "check", todo |-> todo, ttl |-> ttl, event |-> e] \in Ops
<1>1. [do |-> "load", todo |-> todo] \in [do : {"load"}, todo : SUBSET Keys]
  BY Zenon
<1>2. AfterGet(todo) \in Ops
  BY <1>1, Zenon DEF AfterGet, Ops
<1>3. \A k \in Keys : [do |-> "purge", todo |-> todo, key |-> k]
                        \in [do : {"purge"}, todo : SUBSET Keys, key : Keys]
  BY Zenon
<1>4. \A ttl \in BOOLEAN : [do |-> "set", todo |-> todo, ttl |-> ttl]
                             \in [do : {"set"}, todo : SUBSET Keys, ttl : BOOLEAN]
  BY Zenon
<1>5. \A ttl \in BOOLEAN, e \in StateEvent :
        [do |-> "check", todo |-> todo, ttl |-> ttl, event |-> e]
          \in [do : {"check", "send"}, todo : SUBSET Keys, ttl : BOOLEAN, event : StateEvent]
  BY Zenon
<1>6. QED
  BY <1>2, <1>3, <1>4, <1>5, Zenon DEF Ops

\* After an event has been sent, or dropped because the storage is closed.
LEMMA AfterSetTypes ==
  ASSUME NEW o \in Ops, o.do \in {"check", "send"}
  PROVE  AfterSet(o) \in Ops
<1>1. o.todo \in SUBSET Keys /\ o.ttl \in BOOLEAN
  BY OpsFields, Zenon
<1>2. [do |-> "set", todo |-> o.todo, ttl |-> o.ttl] \in Ops
  BY <1>1, OpsMade, Zenon
<1>3. QED
  BY <1>2, Zenon DEF AfterSet, Ops

\* An item and no item are items.
LEMMA ItemTypes ==
  /\ Absent \in storageItem
  /\ \A s \in Stamps, ttl \in BOOLEAN : [stamp |-> s, ttl |-> ttl] \in storageItem
<1>1. 0 \in 0..MaxWrites /\ Stamps \subseteq 0..MaxWrites
  BY WritesAssumption, SMT DEF Stamps
<1>2. QED
  BY <1>1, Zenon DEF Absent, storageItem

\* A write of a key.
LEMMA LocalWriteTypes ==
  ASSUME LocalTypeOK, NEW c \in Clients, NEW k \in Keys, NEW type \in {"set", "delete"},
         NEW item \in storageItem, NEW todo \in SUBSET Keys, LocalWrite(c, k, type, item, todo)
  PROVE  LocalTypeOK'
<1>1. SharedTypeOK
  BY Zenon DEF LocalTypeOK
<1>2. /\ writes < MaxWrites /\ writes' = writes + 1
      /\ data' = [data EXCEPT ![k] = item]
      /\ last' = [last EXCEPT ![k] = [key |-> k, type |-> type, stamp |-> writes']]
      /\ op' = [op EXCEPT ![c] =
           [do |-> "check", todo |-> todo, ttl |-> item.ttl, event |-> last'[k]]]
      /\ raced' \subseteq raced \cup {k} /\ mixed' \subseteq mixed \cup {writes'}
      /\ UNCHANGED <<kind, over, chan, wst, panicked, told, missed, watches, closedChans, closing,
                     toClear, late>>
  BY Zenon DEF LocalWrite, Become
<1>3. /\ writes' \in 0..MaxWrites /\ writes' \in Stamps
      /\ [key |-> k, type |-> type, stamp |-> writes'] \in StateEvent
  BY <1>1, <1>2, WriteTypes, Zenon
<1>4. last' \in [Keys -> StateEvent \cup {NoEvent}] /\ last'[k] \in StateEvent
  BY <1>1, <1>2, <1>3, Zenon DEF SharedTypeOK
<1>5. item.ttl \in BOOLEAN
  BY SMT DEF storageItem
<1>6. op' \in [Clients -> Ops]
  BY <1>2, <1>4, <1>5, OpsMade, Zenon DEF LocalTypeOK
<1>7. SharedTypeOK'
  BY <1>1, <1>2, <1>3, <1>4, Zenon DEF SharedTypeOK
<1>8. data' \in [Keys -> storageItem] /\ raced' \subseteq Keys
  BY <1>2, Zenon DEF LocalTypeOK
<1>9. QED
  BY <1>2, <1>6, <1>7, <1>8, Zenon DEF LocalTypeOK

\* Every step of local storage, one case per operation.
LEMMA LocalTypes ==
  ASSUME LocalTypeOK, LocalNext
  PROVE  LocalTypeOK'
<1>1. SharedTypeOK /\ op \in [Clients -> Ops] /\ data \in [Keys -> storageItem]
  BY Zenon DEF LocalTypeOK
<1>2. ASSUME UNCHANGED sharedVars PROVE SharedTypeOK'
  BY <1>1, <1>2, Zenon DEF sharedVars, historyVars, SharedTypeOK
<1>3. ASSUME NEW c \in Clients, LocalGet(c) PROVE LocalTypeOK'
  <2>1. PICK todo, k : /\ todo \in SUBSET Keys /\ k \in todo
                       /\ Become(c, IF isExpired(data[k])
                                      THEN [do |-> "purge", todo |-> todo \ {k}, key |-> k]
                                      ELSE AfterGet(todo \ {k}))
    <3>1. op[c].do = "load" => op[c].todo \in SUBSET Keys
      BY <1>1, OpsFields, Zenon
    <3>2. (op[c].do = "load" \/ op[c] = Idle)
      BY <1>3, Zenon DEF LocalGet
    <3>3. QED
      BY <1>3, <3>1, <3>2, Zenon DEF LocalGet
  <2>2. op' \in [Clients -> Ops]
    <3>1. todo \ {k} \in SUBSET Keys /\ k \in Keys
      BY <2>1, Zenon
    <3>2. QED
      BY <1>1, <2>1, <3>1, OpsMade, Zenon DEF Become
  <2>3. QED
    BY <1>2, <1>3, <2>2, Zenon DEF LocalGet, LocalTypeOK
<1>4. ASSUME NEW c \in Clients, LocalPurge(c) PROVE LocalTypeOK'
  <2>1. op[c].todo \in SUBSET Keys /\ op[c].key \in Keys
    BY <1>1, <1>4, OpsFields, Zenon DEF LocalPurge
  <2>2. op' \in [Clients -> Ops]
    BY <1>1, <1>4, <2>1, OpsMade, Zenon DEF LocalPurge, Become
  <2>3. data' \in [Keys -> storageItem]
    BY <1>1, <1>4, ItemTypes, Zenon DEF LocalPurge
  <2>4. QED
    BY <1>2, <1>4, <2>2, <2>3, Zenon DEF LocalPurge, LocalTypeOK
<1>5. ASSUME NEW c \in Clients, LocalSet(c) PROVE LocalTypeOK'
  <2>1. PICK todo, ttl, k :
          /\ todo \in SUBSET Keys /\ ttl \in BOOLEAN /\ k \in todo
          /\ LocalWrite(c, k, "set", [stamp |-> writes + 1, ttl |-> ttl], todo \ {k})
    <3>1. op[c].do = "set" => op[c].todo \in SUBSET Keys /\ op[c].ttl \in BOOLEAN
      BY <1>1, OpsFields, Zenon
    <3>2. op[c].do = "idle" => op[c] = Idle
      BY <1>1, SMT DEF Ops, Idle
    <3>3. QED
      BY <1>5, <3>1, <3>2, Zenon DEF LocalSet
  <2>2. writes + 1 \in Stamps
    <3>1. writes < MaxWrites /\ writes \in 0..MaxWrites
      BY <1>1, <2>1, Zenon DEF LocalWrite, SharedTypeOK
    <3>2. QED
      BY <3>1, WritesAssumption, SMT DEF Stamps
  <2>3. [stamp |-> writes + 1, ttl |-> ttl] \in storageItem
    BY <2>1, <2>2, ItemTypes, Zenon
  <2>4. k \in Keys /\ todo \ {k} \in SUBSET Keys
    BY <2>1, Zenon
  <2>5. QED
    BY <2>1, <2>3, <2>4, LocalWriteTypes, Zenon
<1>6. ASSUME NEW c \in Clients, LocalDelete(c) PROVE LocalTypeOK'
  <2>1. PICK k \in Keys : LocalWrite(c, k, "delete", Absent, {})
    BY <1>6, Zenon DEF LocalDelete
  <2>2. {} \in SUBSET Keys /\ "delete" \in {"set", "delete"}
    BY Zenon
  <2>3. QED
    BY <2>1, <2>2, LocalWriteTypes, ItemTypes, Zenon
<1>7. ASSUME NEW c \in Clients, LocalNotifyCheck(c) PROVE LocalTypeOK'
  <2>1. AfterSet(op[c]) \in Ops /\ [op[c] EXCEPT !.do = "send"] \in Ops
    BY <1>1, <1>7, OpsFields, AfterSetTypes, Zenon DEF LocalNotifyCheck
  <2>2. op' \in [Clients -> Ops]
    BY <1>1, <1>7, <2>1, Zenon DEF LocalNotifyCheck, Become
  <2>3. QED
    BY <1>2, <1>7, <2>2, Zenon DEF LocalNotifyCheck, LocalTypeOK
<1>8. ASSUME NEW c \in Clients, LocalNotifySend(c) PROVE LocalTypeOK'
  <2>1. op[c].event \in StateEvent /\ AfterSet(op[c]) \in Ops
    BY <1>1, <1>8, OpsFields, AfterSetTypes, Zenon DEF LocalNotifySend
  <2>2. SharedTypeOK'
    BY <1>1, <1>8, <2>1, BroadcastTypes, Zenon DEF LocalNotifySend
  <2>3. op' \in [Clients -> Ops]
    BY <1>1, <1>8, <2>1, Zenon DEF LocalNotifySend, Become
  <2>4. QED
    BY <1>8, <2>2, <2>3, Zenon DEF LocalNotifySend, LocalTypeOK
<1>9. ASSUME NEW w \in Watchers, LocalWatch(w) \/ LocalRemove(w) PROVE LocalTypeOK'
  <2>1. wst' \in [Watchers -> WatchStates]
    BY <1>1, <1>9, Zenon DEF LocalWatch, LocalRemove, SharedTypeOK, WatchStates
  <2>2. chan' \in [Watchers -> Channel] /\ panicked' \in BOOLEAN
    <3>1. CASE UNCHANGED <<chan, panicked>>
      BY <1>1, <3>1, Zenon DEF SharedTypeOK
    <3>2. CASE closeChannelSafely(w)
      <4>1. [chan[w] EXCEPT !.closed = TRUE] \in Channel
        BY <1>1, ChannelTypes, Zenon DEF SharedTypeOK
      <4>2. QED
        BY <1>1, <3>2, <4>1, Zenon DEF closeChannelSafely, SharedTypeOK
    <3>3. QED
      BY <1>9, <3>1, <3>2, Zenon DEF LocalWatch, LocalRemove
  <2>3. /\ UNCHANGED <<kind, writes, over, last, mixed, told, missed, data, op, closing, toClear, raced>>
        /\ watches' \subseteq watches \cup {w} /\ closedChans' \subseteq closedChans \cup {w}
        /\ late' \subseteq late \cup {w}
    BY <1>9, Zenon DEF LocalWatch, LocalRemove, closeChannelSafely, historyVars
  <2>4. SharedTypeOK'
    BY <1>1, <2>1, <2>2, <2>3, Zenon DEF SharedTypeOK
  <2>5. QED
    BY <2>3, <2>4, Zenon DEF LocalTypeOK
<1>10. ASSUME NEW w \in Watchers, Receive(w), UNCHANGED localVars PROVE LocalTypeOK'
  BY <1>1, <1>10, ReceiveTypes, Zenon DEF localVars, LocalTypeOK
<1>11. CASE TimeToLiveEnds({data[k] : k \in Keys}) /\ UNCHANGED localVars
  <2>1. PICK k \in Keys : data[k].ttl /\ over' = over \cup {data[k].stamp}
    BY <1>11, Zenon DEF TimeToLiveEnds
  <2>2. data[k].stamp \in Stamps
    BY <1>1, <2>1, Zenon DEF storageItem
  <2>3. SharedTypeOK'
    BY <1>1, <1>11, <2>1, <2>2, Zenon DEF TimeToLiveEnds, historyVars, SharedTypeOK
  <2>4. QED
    BY <1>11, <2>3, Zenon DEF localVars, LocalTypeOK
<1>12. CASE LocalClose
  <2>1. chan' \in [Watchers -> Channel]
    BY <1>1, <1>12, ChannelTypes, Zenon DEF LocalClose, SharedTypeOK
  <2>2. panicked' \in BOOLEAN
    BY <1>12, Zenon DEF LocalClose
  <2>3. SharedTypeOK'
    BY <1>1, <1>12, <2>1, <2>2, Zenon DEF LocalClose, historyVars, SharedTypeOK
  <2>4. QED
    BY <1>12, <2>3, Zenon DEF LocalClose, LocalTypeOK
<1>13. CASE LocalClear
  <2>1. data' \in [Keys -> storageItem] /\ toClear' \subseteq Keys /\ closing' \in {"clearing", "closed"}
    BY <1>1, <1>13, ItemTypes, Zenon DEF LocalClear, LocalTypeOK
  <2>2. QED
    BY <1>2, <1>13, <2>1, Zenon DEF LocalClear, LocalTypeOK
<1>14. QED
  BY <1>3, <1>4, <1>5, <1>6, <1>7, <1>8, <1>9, <1>10, <1>11, <1>12, <1>13, Zenon
     DEF LocalNext

-----------------------------------------------------------------------------
Writing == [do : {"write"}, node : Nodes, keys : SUBSET Keys, events : SUBSET StateEvent]
Publishing == [do : {"publish"}, node : Nodes, events : SUBSET StateEvent]
Message == [event : StateEvent, from : Nodes]

\* The server changes a key.
LEMMA ChangeTypes ==
  ASSUME SharedTypeOK, NEW k \in Keys, NEW type \in {"set", "delete"}, Change(k, type),
         UNCHANGED <<kind, over, chan, wst, panicked, told, missed>>
  PROVE  SharedTypeOK' /\ last'[k] \in StateEvent /\ store' \subseteq store \cup {k}
<1>1. /\ writes < MaxWrites /\ writes' = writes + 1
      /\ last' = [last EXCEPT ![k] = [key |-> k, type |-> type, stamp |-> writes']]
      /\ mixed' \subseteq mixed \cup {writes'} /\ store' \subseteq store \cup {k}
  BY Zenon DEF Change
<1>2. /\ writes' \in 0..MaxWrites /\ writes' \in Stamps
      /\ [key |-> k, type |-> type, stamp |-> writes'] \in StateEvent
  BY <1>1, WriteTypes, Zenon
<1>3. last' \in [Keys -> StateEvent \cup {NoEvent}] /\ last'[k] \in StateEvent
  BY <1>1, <1>2, Zenon DEF SharedTypeOK
<1>4. QED
  BY <1>1, <1>2, <1>3, Zenon DEF SharedTypeOK

\* Events that are lost are counted.
LEMMA LoseTypes ==
  ASSUME SharedTypeOK, NEW events \in SUBSET StateEvent, NEW ws, Lose(events, ws),
         UNCHANGED <<kind, writes, over, chan, wst, panicked, last, mixed, told>>
  PROVE  SharedTypeOK'
<1>1. \A e \in StateEvent : e.stamp \in Stamps
  BY SMT DEF StateEvent
<1>2. missed' \in [Watchers -> SUBSET Stamps]
  BY <1>1, Zenon DEF Lose, SharedTypeOK
<1>3. QED
  BY <1>2, Zenon DEF SharedTypeOK

\* The records of RedisStorage.
LEMMA CallFields ==
  ASSUME NEW o \in Calls
  PROVE  /\ o.do = "write" => o \in Writing /\ o.events \in SUBSET StateEvent
         /\ o.do = "publish" =>
              /\ o \in Publishing /\ o.events \in SUBSET StateEvent /\ o.node \in Nodes
              /\ \A es \in SUBSET StateEvent : /\ [o EXCEPT !.events = es] \in Calls
                                               /\ [o EXCEPT !.events = es].do = "publish"
                                               /\ [o EXCEPT !.events = es].events = es
<1>1. CASE o = Quiet
  BY <1>1, SMT DEF Quiet
<1>2. CASE o \in Writing
  BY <1>2, SMT DEF Writing
<1>3. CASE o \in Publishing
  <2>1. \A es \in SUBSET StateEvent : /\ [o EXCEPT !.events = es] \in Publishing
                                      /\ [o EXCEPT !.events = es].do = "publish"
                                      /\ [o EXCEPT !.events = es].events = es
    BY <1>3, SMT DEF Publishing
  <2>2. o.do = "publish" /\ o.events \in SUBSET StateEvent /\ o.node \in Nodes
    BY <1>3, SMT DEF Publishing
  <2>3. QED
    BY <1>3, <2>1, <2>2, Zenon DEF Calls, Publishing
<1>4. QED
  BY <1>1, <1>2, <1>3, Zenon DEF Calls, Writing, Publishing

\* A call that has other keys to write and other events to publish is a call.
Wrote(o, ks, es) == [o EXCEPT !.keys = ks, !.events = es]
LEMMA WritingTypes ==
  ASSUME NEW o \in Writing, NEW ks \in SUBSET Keys, NEW es \in SUBSET StateEvent
  PROVE  /\ Wrote(o, ks, es) \in Writing
         /\ Wrote(o, ks, es).do = "write" /\ Wrote(o, ks, es).events = es
<1>1. \A p \in Writing : [p EXCEPT !.keys = ks] \in Writing
  BY SMT DEF Writing
<1>2. \A p \in Writing : /\ [p EXCEPT !.events = es] \in Writing
                         /\ [p EXCEPT !.events = es].do = "write"
                         /\ [p EXCEPT !.events = es].events = es
  BY SMT DEF Writing
<1>3. QED
  BY <1>1, <1>2, Zenon DEF Wrote

\* What the steps of a client of Redis storage make of the calls.
LEMMA CallsTypes ==
  ASSUME RedisTypeOK, NEW c \in Clients,
         RedisSet(c) \/ RedisDelete(c) \/ RedisCallFails(c) \/ RedisPublish(c)
  PROVE  RedisTypeOK'
<1>1. SharedTypeOK /\ call \in [Clients -> Calls]
  BY Zenon DEF RedisTypeOK
<1>2. Quiet \in Calls
  BY Zenon DEF Calls
<1>3. CASE RedisSet(c)
  <2>1. PICK set : set \in Writing /\ \E k \in set.keys :
          /\ Change(k, "set")
          /\ LET rest == set.keys \ {k}
                 events == set.events \cup {last'[k]}
             IN call' = [call EXCEPT ![c] =
                  IF rest = {} THEN [do |-> "publish", node |-> set.node, events |-> events]
                  ELSE [set EXCEPT !.keys = rest, !.events = events]]
    <3>1. PICK set : /\ IF call[c] = Quiet
                           THEN set \in [do : {"write"}, node : Nodes, keys : SUBSET Keys, events : {{}}]
                           ELSE set = call[c]
                     /\ set.do = "write"
                     /\ \E k \in set.keys :
                          /\ Change(k, "set")
                          /\ LET rest == set.keys \ {k}
                                 events == set.events \cup {last'[k]}
                             IN call' = [call EXCEPT ![c] =
                                  IF rest = {} THEN [do |-> "publish", node |-> set.node, events |-> events]
                                  ELSE [set EXCEPT !.keys = rest, !.events = events]]
      BY <1>3, Zenon DEF RedisSet
    <3>2. CASE call[c] = Quiet
      <4>1. set \in Writing
        BY <3>1, <3>2, SMT DEF Writing
      <4>2. QED
        BY <3>1, <4>1, Zenon
    <3>3. CASE call[c] # Quiet
      <4>1. set \in Writing
        BY <1>1, <3>1, <3>3, CallFields, Zenon
      <4>2. QED
        BY <3>1, <4>1, Zenon
    <3>4. QED
      BY <3>2, <3>3, Zenon
  <2>2. set.node \in Nodes /\ set.keys \in SUBSET Keys /\ set.events \in SUBSET StateEvent
    BY <2>1, SMT DEF Writing
  <2> DEFINE events(k) == set.events \cup {last'[k]}
  <2>3. PICK k \in set.keys :
          /\ Change(k, "set")
          /\ call' = [call EXCEPT ![c] =
                  IF set.keys \ {k} = {} THEN [do |-> "publish", node |-> set.node, events |-> events(k)]
                  ELSE Wrote(set, set.keys \ {k}, events(k))]
    BY <2>1, Zenon DEF Wrote
  <2>4. SharedTypeOK' /\ last'[k] \in StateEvent /\ store' \subseteq store \cup {k}
    BY <1>1, <1>3, <2>2, <2>3, ChangeTypes, Zenon DEF RedisSet
  <2>5. events(k) \in SUBSET StateEvent
    BY <2>2, <2>4, Zenon
  <2>6. [do |-> "publish", node |-> set.node, events |-> events(k)] \in Calls
    BY <2>2, <2>5, Zenon DEF Calls
  <2>7. Wrote(set, set.keys \ {k}, events(k)) \in Calls
    <3>1. set.keys \ {k} \in SUBSET Keys
      BY <2>2, Zenon
    <3>2. Wrote(set, set.keys \ {k}, events(k)) \in Writing
      BY <2>1, <2>5, <3>1, WritingTypes, Zenon
    <3>3. QED
      BY <3>2, Zenon DEF Calls, Writing
  <2>8. call' \in [Clients -> Calls]
    BY <1>1, <2>3, <2>6, <2>7, Zenon
  <2>9. store' \subseteq Keys
    BY <2>2, <2>4, Zenon DEF RedisTypeOK
  <2>10. QED
    BY <1>3, <2>4, <2>8, <2>9, Zenon DEF RedisSet, RedisTypeOK
<1>4. CASE RedisDelete(c)
  <2>1. PICK n \in Nodes, k \in store :
          /\ Change(k, "delete")
          /\ call' = [call EXCEPT ![c] = [do |-> "publish", node |-> n, events |-> {last'[k]}]]
    BY <1>4, Zenon DEF RedisDelete
  <2>2. k \in Keys
    BY Zenon DEF RedisTypeOK
  <2>3. SharedTypeOK' /\ last'[k] \in StateEvent /\ store' \subseteq store \cup {k}
    BY <1>1, <1>4, <2>1, <2>2, ChangeTypes, Zenon DEF RedisDelete
  <2>4. [do |-> "publish", node |-> n, events |-> {last'[k]}] \in Calls
    BY <2>3, Zenon DEF Calls
  <2>5. call' \in [Clients -> Calls]
    BY <1>1, <2>1, <2>4, Zenon
  <2>6. QED
    BY <1>4, <2>3, <2>5, Zenon DEF RedisDelete, RedisTypeOK
<1>5. CASE RedisCallFails(c)
  <2>1. call[c].events \in SUBSET StateEvent
    BY <1>1, <1>5, CallFields, Zenon DEF RedisCallFails
  <2>2. SharedTypeOK'
    BY <1>1, <1>5, <2>1, LoseTypes, Zenon DEF RedisCallFails
  <2>3. QED
    BY <1>1, <1>2, <1>5, <2>2, Zenon DEF RedisCallFails, RedisTypeOK
<1>6. CASE RedisPublish(c)
  <2>1. PICK e \in call[c].events :
          /\ call' = [call EXCEPT ![c] = IF call[c].events = {e} THEN Quiet
                                         ELSE [call[c] EXCEPT !.events = call[c].events \ {e}]]
          /\ \/ /\ feed' = [n \in Subscribed |-> IF isClosed(n) THEN feed[n]
                              ELSE Append(feed[n], [event |-> e, from |-> call[c].node])]
                /\ UNCHANGED missed
             \/ Lose({e}, Watchers) /\ UNCHANGED feed
    BY <1>6, Zenon DEF RedisPublish
  <2>2. /\ call[c].events \in SUBSET StateEvent /\ call[c].node \in Nodes
        /\ \A es \in SUBSET StateEvent : [call[c] EXCEPT !.events = es] \in Calls
    BY <1>1, <1>6, CallFields, Zenon DEF RedisPublish
  <2>3. call' \in [Clients -> Calls]
    BY <1>1, <1>2, <2>1, <2>2, Zenon
  <2>4. feed' \in [Subscribed -> Seq(Message)]
    <3>1. [event |-> e, from |-> call[c].node] \in Message
      BY <2>2, Zenon DEF Message
    <3>2. feed \in [Subscribed -> Seq(Message)]
      BY Zenon DEF RedisTypeOK, Message
    <3>3. \A n \in Subscribed : Append(feed[n], [event |-> e, from |-> call[c].node]) \in Seq(Message)
      BY <3>1, <3>2, QueueTypes, Zenon
    <3>4. QED
      BY <2>1, <3>2, <3>3, Zenon
  <2>5. SharedTypeOK'
    <3>1. CASE UNCHANGED missed
      BY <1>1, <1>6, <3>1, Zenon DEF RedisPublish, SharedTypeOK
    <3>2. CASE Lose({e}, Watchers)
      BY <1>1, <1>6, <2>2, <3>2, LoseTypes, Zenon DEF RedisPublish
    <3>3. QED
      BY <2>1, <3>1, <3>2, Zenon
  <2>6. QED
    BY <1>6, <2>3, <2>4, <2>5, Zenon DEF RedisPublish, RedisTypeOK, Message
<1>7. QED
  BY <1>3, <1>4, <1>5, <1>6, Zenon

\* The records of a monitor.
LEMMA MonitorTypes ==
  /\ [do |-> "wait"] \in Monitors /\ [do |-> "ended"] \in Monitors
  /\ \A e \in StateEvent : [do |-> "check", event |-> e] \in Monitors
  /\ \A m \in Monitors : m.do \in {"check", "send"} =>
       /\ m.event \in StateEvent /\ [m EXCEPT !.do = "send"] \in Monitors
       /\ [m EXCEPT !.do = "send"].do = "send" /\ [m EXCEPT !.do = "send"].event = m.event
<1>1. /\ [do |-> "wait"] \in Monitors /\ [do |-> "ended"] \in Monitors
      /\ \A e \in StateEvent : [do |-> "check", event |-> e] \in Monitors
  BY Zenon DEF Monitors
<1>2. ASSUME NEW m \in Monitors, m.do \in {"check", "send"}
      PROVE  m \in [do : {"check", "send"}, event : StateEvent]
  BY <1>2, SMT DEF Monitors
<1>3. ASSUME NEW m \in [do : {"check", "send"}, event : StateEvent]
      PROVE  /\ m.event \in StateEvent
             /\ [m EXCEPT !.do = "send"] \in [do : {"check", "send"}, event : StateEvent]
             /\ [m EXCEPT !.do = "send"].do = "send" /\ [m EXCEPT !.do = "send"].event = m.event
  BY SMT
<1>4. QED
  BY <1>1, <1>2, <1>3, Zenon DEF Monitors

\* What a subscription has received and what the monitor of a node does with it.
LEMMA MonitorsTypes ==
  ASSUME RedisTypeOK, NEW n \in Subscribed,
         RedisFeedLost(n) \/ RedisMonitor(n) \/ RedisNotifyCheck(n) \/ RedisNotifySend(n)
  PROVE  RedisTypeOK'
<1>1. /\ SharedTypeOK /\ monitor \in [Subscribed -> Monitors]
      /\ feed \in [Subscribed -> Seq(Message)]
  BY Zenon DEF RedisTypeOK, Message
<1>2. \A m \in Message : m.event \in StateEvent
  BY SMT DEF Message
<1>3. CASE RedisFeedLost(n)
  <2>1. {feed[n][i].event : i \in 1..Len(feed[n])} \in SUBSET StateEvent
    <3>1. \A i \in 1..Len(feed[n]) : feed[n][i] \in Message
      BY <1>1, SMT
    <3>2. QED
      BY <1>2, <3>1, Zenon
  <2>2. SharedTypeOK'
    BY <1>1, <1>3, <2>1, LoseTypes, Zenon DEF RedisFeedLost
  <2>3. feed' \in [Subscribed -> Seq(Message)]
    BY <1>1, <1>3, SMT DEF RedisFeedLost
  <2>4. QED
    BY <1>3, <2>2, <2>3, Zenon DEF RedisFeedLost, RedisTypeOK, Message
<1>4. CASE RedisMonitor(n)
  <2>1. UNCHANGED <<kind, writes, over, chan, wst, panicked, last, mixed, told, store, call, watchers,
                    phase, drained>>
    BY <1>4, Zenon DEF RedisMonitor
  <2>2. CASE isClosed(n)
    <3>1. monitor' = [monitor EXCEPT ![n] = [do |-> "ended"]] /\ UNCHANGED <<feed, missed>>
      BY <1>4, <2>2, Zenon DEF RedisMonitor
    <3>2. monitor' \in [Subscribed -> Monitors]
      BY <1>1, <3>1, MonitorTypes, Zenon
    <3>3. QED
      BY <1>1, <2>1, <3>1, <3>2, Zenon DEF RedisTypeOK, SharedTypeOK
  <2>3. CASE ~isClosed(n)
    <3>1. /\ feed[n] # <<>> /\ feed' = [feed EXCEPT ![n] = Tail(feed[n])]
          /\ \/ Lose({Head(feed[n]).event}, On(n)) /\ UNCHANGED monitor
             \/ /\ monitor' = [monitor EXCEPT ![n] = [do |-> "check", event |-> Head(feed[n]).event]]
                /\ UNCHANGED missed
      BY <1>4, <2>3, Zenon DEF RedisMonitor
    <3>2. Head(feed[n]) \in Message /\ Tail(feed[n]) \in Seq(Message)
      BY <1>1, <3>1, QueueTypes, Zenon
    <3>3. feed' \in [Subscribed -> Seq(Message)] /\ Head(feed[n]).event \in StateEvent
      BY <1>1, <1>2, <3>1, <3>2, Zenon
    <3>4. monitor' \in [Subscribed -> Monitors]
      BY <1>1, <3>1, <3>3, MonitorTypes, Zenon
    <3>5. SharedTypeOK'
      <4>1. CASE UNCHANGED missed
        BY <1>1, <2>1, <4>1, Zenon DEF SharedTypeOK
      <4>2. CASE Lose({Head(feed[n]).event}, On(n))
        BY <1>1, <2>1, <3>3, <4>2, LoseTypes, Zenon
      <4>3. QED
        BY <3>1, <4>1, <4>2, Zenon
    <3>6. QED
      BY <2>1, <3>3, <3>4, <3>5, Zenon DEF RedisTypeOK, Message
  <2>4. QED
    BY <2>2, <2>3, Zenon
<1>5. CASE RedisNotifyCheck(n)
  <2>1. [monitor[n] EXCEPT !.do = "send"] \in Monitors
    BY <1>1, <1>5, MonitorTypes, Zenon DEF RedisNotifyCheck
  <2>2. monitor' \in [Subscribed -> Monitors]
    BY <1>1, <1>5, <2>1, MonitorTypes, Zenon DEF RedisNotifyCheck
  <2>3. QED
    BY <1>1, <1>5, <2>2, Zenon DEF RedisNotifyCheck, RedisTypeOK, sharedVars,
       historyVars, SharedTypeOK
<1>6. CASE RedisNotifySend(n)
  <2>1. monitor[n].event \in StateEvent
    BY <1>1, <1>6, MonitorTypes, Zenon DEF RedisNotifySend
  <2>2. SharedTypeOK'
    BY <1>1, <1>6, <2>1, BroadcastTypes, Zenon DEF RedisNotifySend
  <2>3. monitor' \in [Subscribed -> Monitors]
    BY <1>1, <1>6, MonitorTypes, Zenon DEF RedisNotifySend
  <2>4. QED
    BY <1>6, <2>2, <2>3, Zenon DEF RedisNotifySend, RedisTypeOK
<1>7. QED
  BY <1>3, <1>4, <1>5, <1>6, Zenon

\* Every step of Redis storage.
LEMMA RedisTypes ==
  ASSUME RedisTypeOK, RedisNext
  PROVE  RedisTypeOK'
<1>1. /\ SharedTypeOK /\ feed \in [Subscribed -> Seq(Message)]
      /\ phase \in [Subscribed -> {"open", "flagged", "closed"}]
  BY Zenon DEF RedisTypeOK, Message
<1>2. ASSUME UNCHANGED sharedVars PROVE SharedTypeOK'
  BY <1>1, <1>2, Zenon DEF sharedVars, historyVars, SharedTypeOK
<1>3. ASSUME NEW n \in Subscribed, RedisClose(n) PROVE RedisTypeOK'
  <2>1. feed' \in [Subscribed -> Seq(Message)]
    BY <1>1, <1>3, SMT DEF RedisClose
  <2>2. phase' \in [Subscribed -> {"open", "flagged", "closed"}]
    BY <1>1, <1>3, Zenon DEF RedisClose
  <2>3. QED
    BY <1>2, <1>3, <2>1, <2>2, Zenon DEF RedisClose, RedisTypeOK, Message
<1>4. ASSUME NEW n \in Subscribed, RedisCloseAll(n) PROVE RedisTypeOK'
  <2>1. phase' \in [Subscribed -> {"open", "flagged", "closed"}]
    BY <1>1, <1>4, Zenon DEF RedisCloseAll
  <2>2. chan' \in [Watchers -> Channel]
    BY <1>1, <1>4, EndTypes, Zenon DEF RedisCloseAll, End, SharedTypeOK
  <2>3. watchers' \subseteq Watchers /\ drained' \subseteq Watchers
    BY <1>4, Zenon DEF RedisCloseAll, End, RedisTypeOK
  <2>4. SharedTypeOK'
    BY <1>1, <1>4, <2>2, Zenon DEF RedisCloseAll, historyVars, SharedTypeOK
  <2>5. QED
    BY <1>4, <2>1, <2>3, <2>4, Zenon DEF RedisCloseAll, RedisTypeOK
<1>5. ASSUME NEW w \in Watchers, RedisWatchCheck(w) \/ RedisWatch(w) \/ RedisRemove(w)
      PROVE  RedisTypeOK'
  <2>1. /\ UNCHANGED <<kind, writes, over, panicked, last, mixed, told, missed, store, feed, call,
                       monitor, phase>>
        /\ watchers' \subseteq watchers \cup {w} /\ drained' \subseteq drained \cup {w}
    BY <1>5, Zenon DEF RedisWatchCheck, RedisWatch, RedisRemove, End, redisVars,
       historyVars
  <2>2. wst' \in [Watchers -> WatchStates]
    BY <1>1, <1>5, Zenon DEF RedisWatchCheck, RedisWatch, RedisRemove, SharedTypeOK,
       WatchStates
  <2>3. chan' \in [Watchers -> Channel]
    <3>1. CASE UNCHANGED chan
      BY <1>1, <3>1, Zenon DEF SharedTypeOK
    <3>2. CASE End({w})
      BY <1>1, <3>2, EndTypes, Zenon DEF End, SharedTypeOK
    <3>3. QED
      BY <1>5, <3>1, <3>2, Zenon DEF RedisWatchCheck, RedisWatch, RedisRemove
  <2>4. SharedTypeOK'
    BY <1>1, <2>1, <2>2, <2>3, Zenon DEF SharedTypeOK
  <2>5. QED
    BY <2>1, <2>4, Zenon DEF RedisTypeOK
<1>6. ASSUME NEW w \in Watchers, Receive(w), UNCHANGED redisVars PROVE RedisTypeOK'
  BY <1>1, <1>6, ReceiveTypes, Zenon DEF redisVars, RedisTypeOK
<1>7. CASE RedisExpire
  <2>1. store' \subseteq Keys
    BY <1>7, Zenon DEF RedisExpire, RedisTypeOK
  <2>2. QED
    BY <1>2, <1>7, <2>1, Zenon DEF RedisExpire, RedisTypeOK
<1>8. ASSUME NEW c \in Clients,
             RedisSet(c) \/ RedisDelete(c) \/ RedisCallFails(c) \/ RedisPublish(c)
      PROVE  RedisTypeOK'
  BY <1>8, CallsTypes, Zenon
<1>9. ASSUME NEW n \in Subscribed,
             RedisFeedLost(n) \/ RedisMonitor(n) \/ RedisNotifyCheck(n) \/ RedisNotifySend(n)
      PROVE  RedisTypeOK'
  BY <1>9, MonitorsTypes, Zenon
<1>10. QED
  BY <1>3, <1>4, <1>5, <1>6, <1>7, <1>8, <1>9, Zenon DEF RedisNext

-----------------------------------------------------------------------------
\* A function from some keys to items is a map.
LEMMA MapTypes ==
  /\ \A m : m \in Maps <=> DOMAIN m \in SUBSET Keys /\ m \in [DOMAIN m -> storageItem]
  /\ NoSnapshot.items \in Maps /\ NoSnapshot.index = 0 /\ NoSnapshot.hurt = {}
<1>1. ASSUME NEW m, m \in Maps PROVE DOMAIN m \in SUBSET Keys /\ m \in [DOMAIN m -> storageItem]
  <2>1. PICK ks \in SUBSET Keys : m \in [ks -> storageItem]
    BY <1>1, Zenon DEF Maps
  <2>2. DOMAIN m = ks
    BY <2>1, Zenon
  <2>3. QED
    BY <2>1, <2>2, Zenon
<1>2. ASSUME NEW m, DOMAIN m \in SUBSET Keys, m \in [DOMAIN m -> storageItem] PROVE m \in Maps
  BY <1>2, Zenon DEF Maps
<1>3. NoSnapshot.items = [k \in {} |-> Blank] /\ NoSnapshot.index = 0 /\ NoSnapshot.hurt = {}
  BY Zenon DEF NoSnapshot
<1>4. [k \in {} |-> Blank] \in [{} -> storageItem] /\ {} \in SUBSET Keys
  BY Zenon
<1>5. NoSnapshot.items \in Maps
  BY <1>3, <1>4, Zenon DEF Maps
<1>6. QED
  BY <1>1, <1>2, <1>3, <1>5, Zenon

\* What Apply, get and Snapshot make of a map is a map.
LEMMA MapsMade ==
  ASSUME NEW m \in Maps
  PROVE  /\ \A ks : [k \in DOMAIN m \ ks |-> m[k]] \in Maps
         /\ \A ks \in SUBSET Keys, s \in Stamps, ttl \in BOOLEAN :
              [k \in DOMAIN m \cup ks |-> IF k \in ks THEN [stamp |-> s, ttl |-> ttl] ELSE m[k]]
                \in Maps
         /\ \A ks \in SUBSET DOMAIN m : Persist([k \in ks |-> m[k]]) \in Maps
<1>1. DOMAIN m \in SUBSET Keys /\ m \in [DOMAIN m -> storageItem]
  BY MapTypes, Zenon
<1>2. \A ks : [k \in DOMAIN m \ ks |-> m[k]] \in [DOMAIN m \ ks -> storageItem]
  BY <1>1, Zenon
<1>3. \A ks \in SUBSET DOMAIN m : Persist([k \in ks |-> m[k]]) \in [ks -> storageItem]
  <2>1. Blank \in storageItem
    BY ItemTypes, Zenon DEF Blank, Absent
  <2>2. QED
    BY <2>1, Zenon DEF Persist
<1>4. \A ks, f : ks \in SUBSET Keys /\ f \in [ks -> storageItem] => f \in Maps
  BY Zenon DEF Maps
<1>5. \A ks : DOMAIN m \ ks \in SUBSET Keys
  BY <1>1, Zenon
<1>6. \A ks \in SUBSET Keys : DOMAIN m \cup ks \in SUBSET Keys
  BY <1>1, Zenon
<1>7. \A ks \in SUBSET DOMAIN m : ks \in SUBSET Keys
  BY <1>1, Zenon
<1>8. \A ks : [k \in DOMAIN m \ ks |-> m[k]] \in Maps
  BY <1>2, <1>4, <1>5, Zenon
<1>9. \A ks \in SUBSET Keys, s \in Stamps, ttl \in BOOLEAN :
         [k \in DOMAIN m \cup ks |-> IF k \in ks THEN [stamp |-> s, ttl |-> ttl] ELSE m[k]] \in Maps
  <2>1. SUFFICES ASSUME NEW ks \in SUBSET Keys, NEW s \in Stamps, NEW ttl \in BOOLEAN
                 PROVE  [k \in DOMAIN m \cup ks |->
                           IF k \in ks THEN [stamp |-> s, ttl |-> ttl] ELSE m[k]] \in Maps
    BY Zenon
  <2>2. DOMAIN m \cup ks \in SUBSET Keys
    BY <1>6, Zenon
  <2>3. [k \in DOMAIN m \cup ks |-> IF k \in ks THEN [stamp |-> s, ttl |-> ttl] ELSE m[k]]
          \in [DOMAIN m \cup ks -> storageItem]
    BY <1>1, ItemTypes, Zenon
  <2>4. QED
    BY <2>2, <2>3, Zenon DEF Maps
<1>10. \A ks \in SUBSET DOMAIN m : Persist([k \in ks |-> m[k]]) \in Maps
  BY <1>3, <1>4, <1>7, Zenon
<1>11. QED
  BY <1>8, <1>9, <1>10, Zenon

\* More writes leave what was well typed well typed.
LEMMA LaterTypes ==
  ASSUME writes \in Nat, writes' \in Nat, writes <= writes'
  PROVE  0..writes \subseteq 0..writes' /\ Snapshots \subseteq Snapshots'
<1>1. 0..writes \subseteq 0..writes'
  BY SMT
<1>2. QED
  BY <1>1, Zenon DEF Snapshots

\* The steps of other storages.
LEMMA OthersLeaveRaftTypes ==
  ASSUME RaftTypeOK, SharedTypeOK', UNCHANGED raftVars, writes' \in {writes, writes + 1},
         kind # "raft", kind' = kind
  PROVE  RaftTypeOK'
<1>1. writes \in 0..MaxWrites /\ writes' \in 0..MaxWrites
  BY Zenon DEF RaftTypeOK, SharedTypeOK
<1>2. writes \in Nat /\ writes' \in Nat /\ writes <= writes'
  BY <1>1, WritesAssumption, SMT
<1>3. 0..writes \subseteq 0..writes' /\ Snapshots \subseteq Snapshots'
  BY <1>2, LaterTypes, Zenon
<1>4. QED
  BY <1>3, Zenon DEF RaftTypeOK, raftVars

\* Every step of the replicated state machine.
LEMMA RaftTypes ==
  ASSUME RaftTypeOK, RaftNext
  PROVE  RaftTypeOK'
<1>1. /\ SharedTypeOK /\ log \in Seq(raftCommand) /\ writes = Len(log) /\ up \subseteq Nodes
      /\ fsm \in [Nodes -> Maps] /\ applied \in [Nodes -> 0..writes]
      /\ snap \in [Nodes -> Snapshots] /\ base \in [Nodes -> 0..writes]
      /\ purging \in [Nodes -> SUBSET Keys] /\ hurt \in [Nodes -> SUBSET Keys]
      /\ kind = "raft"
  BY Zenon DEF RaftTypeOK, RaftNext
<1>2. ASSUME UNCHANGED sharedVars
      PROVE  SharedTypeOK' /\ writes' = writes /\ kind' = kind /\ Snapshots' = Snapshots
  BY <1>1, <1>2, Zenon DEF sharedVars, historyVars, SharedTypeOK, Snapshots
<1>3. \A s \in Snapshots : s.index \in 0..writes /\ s.items \in Maps /\ s.hurt \in SUBSET Keys
  BY SMT DEF Snapshots
<1>4. writes \in 0..MaxWrites
  BY <1>1, Zenon DEF SharedTypeOK
<1>5. ASSUME NEW n \in Nodes, RaftCommit(n) PROVE RaftTypeOK'
  <2>1. /\ writes < MaxWrites /\ writes' = writes + 1
        /\ UNCHANGED <<kind, over, chan, wst, panicked, last, mixed, told, missed, up, fsm, applied,
                       snap, base, purging, hurt>>
    BY <1>5, Zenon DEF RaftCommit, historyVars
  <2>2. PICK cmd \in raftCommand : log' = Append(log, cmd)
    BY <1>5, Zenon DEF RaftCommit
  <2>3. log' \in Seq(raftCommand) /\ writes' = Len(log')
    BY <1>1, <2>1, <2>2, SMT
  <2>4. writes' \in 0..MaxWrites /\ writes \in Nat /\ writes' \in Nat /\ writes <= writes'
    BY <1>4, <2>1, WritesAssumption, SMT
  <2>5. SharedTypeOK'
    BY <1>1, <2>1, <2>4, Zenon DEF SharedTypeOK
  <2>6. 0..writes \subseteq 0..writes' /\ Snapshots \subseteq Snapshots'
    BY <2>4, LaterTypes, Zenon
  <2>7. QED
    BY <1>1, <2>1, <2>3, <2>5, <2>6, Zenon DEF RaftTypeOK
<1>6. ASSUME NEW n \in Nodes, RaftApply(n) PROVE RaftTypeOK'
  <2> DEFINE i == applied[n] + 1
             cmd == log[i]
  <2>1. /\ i <= Len(log) /\ applied' = [applied EXCEPT ![n] = i]
        /\ fsm' = [fsm EXCEPT ![n] =
             IF cmd.type = "delete" THEN [k \in DOMAIN fsm[n] \ cmd.keys |-> fsm[n][k]]
             ELSE [k \in DOMAIN fsm[n] \cup cmd.keys |->
                     IF k \in cmd.keys THEN [stamp |-> i, ttl |-> cmd.ttl] ELSE fsm[n][k]]]
        /\ hurt' = [hurt EXCEPT ![n] = (hurt[n] \ cmd.keys) \cup (cmd.keys \cap purging[n])]
        /\ UNCHANGED <<sharedVars, log, up, snap, base, purging>>
    BY <1>6, Zenon DEF RaftApply
  <2>2. applied[n] \in 0..writes
    BY <1>1, Zenon
  <2>3. i \in 1..Len(log) /\ i \in 0..writes /\ i \in Stamps
    BY <1>1, <1>4, <2>1, <2>2, WritesAssumption, SMT DEF Stamps
  <2>4. cmd \in raftCommand
    BY <1>1, <2>3, SMT
  <2>5. cmd.keys \in SUBSET Keys /\ cmd.ttl \in BOOLEAN
    <3>1. cmd \in [type : {"set", "delete"}, keys : SUBSET Keys \ {{}}, ttl : BOOLEAN]
      BY <2>4, Zenon DEF raftCommand
    <3>2. QED
      BY <3>1, Zenon
  <2>6. fsm[n] \in Maps
    BY <1>1, Zenon
  <2>7. fsm' \in [Nodes -> Maps]
    <3>1. [k \in DOMAIN fsm[n] \ cmd.keys |-> fsm[n][k]] \in Maps
      BY <2>6, MapsMade, Zenon
    <3>2. [k \in DOMAIN fsm[n] \cup cmd.keys |->
             IF k \in cmd.keys THEN [stamp |-> i, ttl |-> cmd.ttl] ELSE fsm[n][k]] \in Maps
      BY <2>3, <2>5, <2>6, MapsMade, Zenon
    <3>3. QED
      BY <1>1, <2>1, <3>1, <3>2, Zenon
  <2>8. applied' \in [Nodes -> 0..writes] /\ hurt' \in [Nodes -> SUBSET Keys]
    BY <1>1, <2>1, <2>3, <2>5, Zenon
  <2>9. QED
    BY <1>1, <1>2, <2>1, <2>7, <2>8, Zenon DEF RaftTypeOK
<1>7. ASSUME NEW n \in Nodes, RaftGet(n) PROVE RaftTypeOK'
  <2>1. PICK k \in DOMAIN fsm[n] \ purging[n] :
          isExpired(fsm[n][k]) /\ purging' = [purging EXCEPT ![n] = purging[n] \cup {k}]
    BY <1>7, Zenon DEF RaftGet
  <2>2. k \in Keys
    BY <1>1, MapTypes, Zenon
  <2>3. purging' \in [Nodes -> SUBSET Keys]
    BY <1>1, <2>1, <2>2, Zenon
  <2>4. QED
    BY <1>1, <1>2, <1>7, <2>3, Zenon DEF RaftGet, RaftTypeOK
<1>8. ASSUME NEW n \in Nodes, RaftPurge(n) PROVE RaftTypeOK'
  <2>1. PICK k \in purging[n] :
          /\ fsm' = [fsm EXCEPT ![n] = [j \in DOMAIN fsm[n] \ {k} |-> fsm[n][j]]]
          /\ purging' \in {purging, [purging EXCEPT ![n] = purging[n] \ {k}]}
    BY <1>8, Zenon DEF RaftPurge
  <2>2. [j \in DOMAIN fsm[n] \ {k} |-> fsm[n][j]] \in Maps
    BY <1>1, MapsMade, Zenon
  <2>3. fsm' \in [Nodes -> Maps] /\ purging' \in [Nodes -> SUBSET Keys]
    BY <1>1, <2>1, <2>2, Zenon
  <2>4. QED
    BY <1>1, <1>2, <1>8, <2>3, Zenon DEF RaftPurge, RaftTypeOK
<1>9. ASSUME NEW n \in Nodes, RaftSnapshot(n) PROVE RaftTypeOK'
  <2> DEFINE ks == {j \in DOMAIN fsm[n] : ~isExpired(fsm[n][j])}
             s == [index |-> applied[n], hurt |-> hurt[n], items |-> Persist([k \in ks |-> fsm[n][k]])]
  <2>1. snap' = [snap EXCEPT ![n] = s]
    BY <1>9, Zenon DEF RaftSnapshot
  <2>2. Persist([k \in ks |-> fsm[n][k]]) \in Maps
    BY <1>1, MapsMade, Zenon
  <2>3. s \in Snapshots
    BY <1>1, <2>2, Zenon DEF Snapshots
  <2>4. snap' \in [Nodes -> Snapshots]
    BY <1>1, <2>1, <2>3, Zenon
  <2>5. QED
    BY <1>1, <1>2, <1>9, <2>4, Zenon DEF RaftSnapshot, RaftTypeOK
<1>10. ASSUME NEW n \in Nodes, RaftInstall(n) PROVE RaftTypeOK'
  <2>1. PICK l \in up \ {n} : /\ fsm' = [fsm EXCEPT ![n] = snap[l].items]
                              /\ applied' = [applied EXCEPT ![n] = snap[l].index]
                              /\ base' = [base EXCEPT ![n] = snap[l].index]
                              /\ snap' = [snap EXCEPT ![n] = snap[l]]
                              /\ hurt' = [hurt EXCEPT ![n] = snap[l].hurt \cup purging[n]]
    BY <1>10, Zenon DEF RaftInstall, Restore
  <2>2. snap[l] \in Snapshots
    BY <1>1, Zenon
  <2>3. /\ fsm' \in [Nodes -> Maps] /\ applied' \in [Nodes -> 0..writes]
        /\ snap' \in [Nodes -> Snapshots] /\ hurt' \in [Nodes -> SUBSET Keys]
        /\ base' \in [Nodes -> 0..writes]
    BY <1>1, <1>3, <2>1, <2>2, Zenon
  <2>4. QED
    BY <1>1, <1>2, <1>10, <2>3, Zenon DEF RaftInstall, RaftTypeOK
<1>11. ASSUME NEW n \in Nodes, RaftStop(n) PROVE RaftTypeOK'
  <2>1. 0 \in 0..writes
    BY <1>4, SMT
  <2>2. /\ fsm' \in [Nodes -> Maps] /\ applied' \in [Nodes -> 0..writes]
        /\ purging' \in [Nodes -> SUBSET Keys] /\ hurt' \in [Nodes -> SUBSET Keys]
        /\ base' \in [Nodes -> 0..writes]
    BY <1>1, <1>11, <2>1, MapTypes, Zenon DEF RaftStop, Restore
  <2>3. QED
    BY <1>1, <1>2, <1>11, <2>2, Zenon DEF RaftStop, RaftTypeOK
<1>12. ASSUME NEW n \in Nodes, RaftRestart(n) PROVE RaftTypeOK'
  <2>1. snap[n] \in Snapshots
    BY <1>1, Zenon
  <2>2. /\ fsm' \in [Nodes -> Maps] /\ applied' \in [Nodes -> 0..writes]
        /\ base' \in [Nodes -> 0..writes] /\ hurt' \in [Nodes -> SUBSET Keys]
    BY <1>1, <1>3, <1>12, <2>1, Zenon DEF RaftRestart, Restore
  <2>3. QED
    BY <1>1, <1>2, <1>12, <2>2, Zenon DEF RaftRestart, RaftTypeOK
<1>13. CASE /\ TimeToLiveEnds({[stamp |-> i, ttl |-> log[i].ttl] : i \in 1..Len(log)})
            /\ UNCHANGED raftVars
  <2>1. UNCHANGED <<kind, writes, chan, wst, panicked, last, mixed, told, missed>>
    BY <1>13, Zenon DEF TimeToLiveEnds, historyVars
  <2>2. PICK i \in 1..Len(log) : over' = over \cup {[stamp |-> i, ttl |-> log[i].ttl].stamp}
    BY <1>13, Zenon DEF TimeToLiveEnds
  <2>3. i \in 1..writes /\ over' = over \cup {i}
    BY <1>1, <2>2, Zenon
  <2>4. i \in Stamps
    BY <1>4, <2>3, WritesAssumption, SMT DEF Stamps
  <2>5. SharedTypeOK'
    BY <1>1, <2>1, <2>3, <2>4, Zenon DEF SharedTypeOK
  <2>6. QED
    BY <1>1, <1>13, <2>1, <2>5, Zenon DEF raftVars, RaftTypeOK, Snapshots
<1>14. QED
  BY <1>5, <1>6, <1>7, <1>8, <1>9, <1>10, <1>11, <1>12, <1>13, Zenon DEF RaftNext

\* A command changes keys of the state machine.
LEMMA CommandTypes ==
  ASSUME SharedTypeOK, NEW type \in {"set", "delete"}, NEW keys \in SUBSET Keys, Command(type, keys)
  PROVE  /\ writes' \in 0..MaxWrites /\ writes' \in Stamps
         /\ last' \in [Keys -> StateEvent \cup {NoEvent}]
         /\ {last'[k] : k \in keys} \subseteq StateEvent
<1>1. /\ writes < MaxWrites /\ writes' = writes + 1
      /\ last' = [k \in Keys |->
           IF k \in keys THEN [key |-> k, type |-> type, stamp |-> writes'] ELSE last[k]]
  BY Zenon DEF Command
<1>2. /\ writes' \in 0..MaxWrites /\ writes' \in Stamps
      /\ \A k \in Keys : [key |-> k, type |-> type, stamp |-> writes'] \in StateEvent
  BY <1>1, WriteTypes, Zenon
<1>3. QED
  BY <1>1, <1>2, Zenon DEF SharedTypeOK

\* Every step of the watchers of Raft storage.
LEMMA RaftWatchTypes ==
  ASSUME RaftWatchTypeOK, RaftWatchNext
  PROVE  RaftWatchTypeOK'
<1>1. SharedTypeOK
  BY Zenon DEF RaftWatchTypeOK
<1>2. ASSUME UNCHANGED sharedVars PROVE SharedTypeOK'
  BY <1>1, <1>2, Zenon DEF sharedVars, historyVars, SharedTypeOK
<1>3. CASE RaftAnnounce
  <2>1. PICK type \in {"set", "delete"}, keys \in SUBSET Keys \ {{}} :
          /\ Command(type, keys) /\ notes' = notes \cup {last'[k] : k \in keys}
          /\ mixed' = mixed \cup {writes' : e \in {f \in notes : f.key \in keys}}
    BY <1>3, Zenon DEF RaftAnnounce
  <2>2. /\ writes' \in 0..MaxWrites /\ writes' \in Stamps
        /\ last' \in [Keys -> StateEvent \cup {NoEvent}]
        /\ {last'[k] : k \in keys} \subseteq StateEvent
    BY <1>1, <2>1, CommandTypes, Zenon
  <2>3. SharedTypeOK'
    BY <1>1, <1>3, <2>1, <2>2, Zenon DEF RaftAnnounce, SharedTypeOK
  <2>4. QED
    BY <1>3, <2>1, <2>2, <2>3, Zenon DEF RaftAnnounce, RaftWatchTypeOK
<1>4. CASE RaftRestore
  <2>1. PICK keys \in SUBSET Keys \ {{}} : Command("set", keys)
    BY <1>4, Zenon DEF RaftRestore
  <2>2. /\ writes' \in 0..MaxWrites /\ writes' \in Stamps
        /\ last' \in [Keys -> StateEvent \cup {NoEvent}]
    BY <1>1, <2>1, CommandTypes, Zenon
  <2>3. missed' \in [Watchers -> SUBSET Stamps]
    BY <1>1, <1>4, <2>2, Zenon DEF RaftRestore, SharedTypeOK
  <2>4. SharedTypeOK'
    BY <1>1, <1>4, <2>2, <2>3, Zenon DEF RaftRestore, SharedTypeOK
  <2>5. QED
    BY <1>4, <2>4, Zenon DEF RaftRestore, raftWatchVars, RaftWatchTypeOK
<1>5. CASE RaftNotify
  <2>1. PICK e \in notes : Broadcast(Listeners(fsmChans, e.key), e) /\ notes' = notes \ {e}
    BY <1>5, Zenon DEF RaftNotify
  <2>2. e \in StateEvent
    BY Zenon DEF RaftWatchTypeOK
  <2>3. SharedTypeOK'
    BY <1>1, <1>5, <2>1, <2>2, BroadcastTypes, Zenon DEF RaftNotify
  <2>4. QED
    BY <1>5, <2>1, <2>3, Zenon DEF RaftNotify, RaftWatchTypeOK
<1>6. CASE RaftClose \/ RaftShutdown
  BY <1>2, <1>6, Zenon DEF RaftClose, RaftShutdown, CloseStep, RaftWatchTypeOK
<1>7. ASSUME NEW ws, EndChannels(ws), UNCHANGED <<kind, writes, over, panicked, historyVars>>,
             wst' \in [Watchers -> WatchStates], ws \subseteq Watchers
      PROVE  SharedTypeOK' /\ taken' \subseteq Watchers
  <2>1. chan' \in [Watchers -> Channel]
    BY <1>1, <1>7, EndTypes, Zenon DEF EndChannels, SharedTypeOK
  <2>2. SharedTypeOK'
    BY <1>1, <1>7, <2>1, Zenon DEF historyVars, SharedTypeOK
  <2>3. QED
    BY <1>7, <2>2, Zenon DEF EndChannels, RaftWatchTypeOK
<1>8. CASE RaftCloseAll \/ RaftCloseFSM
  <2>1. wst' \in [Watchers -> WatchStates]
    BY <1>1, <1>8, Zenon DEF RaftCloseAll, RaftCloseFSM, SharedTypeOK
  <2>2. SharedTypeOK' /\ taken' \subseteq Watchers
    BY <1>7, <1>8, <2>1, Zenon DEF RaftCloseAll, RaftCloseFSM, RaftWatchTypeOK
  <2>3. QED
    BY <1>8, <2>2, Zenon DEF RaftCloseAll, RaftCloseFSM, CloseStep, RaftWatchTypeOK
<1>9. ASSUME NEW w \in Watchers,
             \/ RaftWatchCheck(w) \/ RaftWatch(w) \/ addWatcher(w)
             \/ RaftRemove(w) \/ removeWatcher(w) \/ RaftEndWatcher(w)
      PROVE  RaftWatchTypeOK'
  <2>1. PICK to \in WatchStates : wst' = [wst EXCEPT ![w] = to]
    BY <1>9, Zenon DEF RaftWatchCheck, RaftWatch, addWatcher, RaftRemove, removeWatcher,
       RaftEndWatcher, WatchStep, WatchStates
  <2>2. wst' \in [Watchers -> WatchStates]
    BY <1>1, <2>1, Zenon DEF SharedTypeOK
  <2>3. /\ UNCHANGED <<kind, writes, over, panicked, historyVars, notes, stage>>
        /\ chans' \subseteq chans \cup {w} /\ fsmChans' \subseteq fsmChans \cup {w}
        /\ UNCHANGED <<chan, taken>> \/ EndChannels({w})
    BY <1>9, Zenon DEF RaftWatchCheck, RaftWatch, addWatcher, RaftRemove, removeWatcher,
       RaftEndWatcher, raftWatchVars
  <2>4. SharedTypeOK' /\ taken' \subseteq Watchers
    <3>1. CASE UNCHANGED <<chan, taken>>
      BY <1>1, <2>2, <2>3, <3>1, Zenon DEF historyVars, SharedTypeOK, RaftWatchTypeOK
    <3>2. CASE EndChannels({w})
      BY <1>7, <2>2, <2>3, <3>2, Zenon
    <3>3. QED
      BY <2>3, <3>1, <3>2, Zenon
  <2>5. QED
    BY <2>3, <2>4, Zenon DEF RaftWatchTypeOK
<1>10. ASSUME NEW w \in Watchers, Receive(w), UNCHANGED raftWatchVars PROVE RaftWatchTypeOK'
  BY <1>1, <1>10, ReceiveTypes, Zenon DEF raftWatchVars, RaftWatchTypeOK
<1>11. QED
  BY <1>3, <1>4, <1>5, <1>6, <1>8, <1>9, <1>10, Zenon DEF RaftWatchNext

-----------------------------------------------------------------------------
\* The storage stays the one it is, writes are counted one by one, and a time to live
\* that is over stays over.
GoesOn == kind' = kind /\ writes' \in {writes, writes + 1} /\ over \subseteq over'

\* No step turns one storage into another.
LEMMA KindKept ==
  ASSUME StorageNext
  PROVE  GoesOn
<1> USE DEF GoesOn
<1>1. CASE LocalNext
  <2>1. ASSUME NEW c \in Clients, \/ LocalGet(c) \/ LocalPurge(c) \/ LocalSet(c)
               \/ LocalDelete(c) \/ LocalNotifyCheck(c) \/ LocalNotifySend(c)
        PROVE  GoesOn
    BY <2>1, Zenon DEF LocalGet, LocalPurge, LocalSet, LocalDelete, LocalWrite,
       LocalNotifyCheck, LocalNotifySend, sharedVars
  <2>2. ASSUME NEW w \in Watchers, LocalWatch(w) \/ LocalRemove(w) \/ Receive(w)
        PROVE  GoesOn
    BY <2>2, Zenon DEF LocalWatch, LocalRemove, Receive
  <2>3. CASE TimeToLiveEnds({data[k] : k \in Keys})
    BY <2>3, Zenon DEF TimeToLiveEnds
  <2>4. CASE LocalClose \/ LocalClear
    BY <2>4, Zenon DEF LocalClose, LocalClear, sharedVars
  <2>5. QED
    BY <1>1, <2>1, <2>2, <2>3, <2>4, Zenon DEF LocalNext
<1>2. CASE RedisNext
  <2>1. ASSUME NEW c \in Clients, RedisSet(c) \/ RedisDelete(c) \/ RedisCallFails(c) \/ RedisPublish(c)
        PROVE  GoesOn
    BY <2>1, Zenon DEF RedisSet, RedisDelete, Change, RedisCallFails, RedisPublish
  <2>2. ASSUME NEW n \in Subscribed, \/ RedisFeedLost(n) \/ RedisMonitor(n) \/ RedisNotifyCheck(n)
               \/ RedisNotifySend(n) \/ RedisClose(n) \/ RedisCloseAll(n)
        PROVE  GoesOn
    BY <2>2, Zenon DEF RedisFeedLost, RedisMonitor, RedisNotifyCheck, RedisNotifySend,
       RedisClose, RedisCloseAll, sharedVars
  <2>3. ASSUME NEW w \in Watchers, RedisWatchCheck(w) \/ RedisWatch(w) \/ RedisRemove(w) \/ Receive(w)
        PROVE  GoesOn
    BY <2>3, Zenon DEF RedisWatchCheck, RedisWatch, RedisRemove, Receive
  <2>4. CASE RedisExpire
    BY <2>4, Zenon DEF RedisExpire, sharedVars
  <2>5. QED
    BY <1>2, <2>1, <2>2, <2>3, <2>4, Zenon DEF RedisNext
<1>3. CASE RaftNext
  <2>1. ASSUME NEW n \in Nodes, \/ RaftCommit(n) \/ RaftApply(n) \/ RaftGet(n) \/ RaftPurge(n)
               \/ RaftSnapshot(n) \/ RaftInstall(n) \/ RaftStop(n) \/ RaftRestart(n)
        PROVE  GoesOn
    BY <2>1, Zenon DEF RaftCommit, RaftApply, RaftGet, RaftPurge, RaftSnapshot,
       RaftInstall, RaftStop, RaftRestart, sharedVars
  <2>2. CASE TimeToLiveEnds({[stamp |-> i, ttl |-> log[i].ttl] : i \in 1..Len(log)})
    BY <2>2, Zenon DEF TimeToLiveEnds
  <2>3. QED
    BY <1>3, <2>1, <2>2, Zenon DEF RaftNext
<1>4. CASE RaftWatchNext
  <2>1. CASE \/ RaftAnnounce \/ RaftRestore \/ RaftNotify
             \/ RaftClose \/ RaftCloseAll \/ RaftCloseFSM \/ RaftShutdown
    BY <2>1, Zenon DEF RaftAnnounce, RaftRestore, Command, RaftNotify, RaftClose,
       RaftCloseAll,
       RaftCloseFSM, RaftShutdown, sharedVars
  <2>2. ASSUME NEW w \in Watchers, \/ RaftWatchCheck(w) \/ RaftWatch(w) \/ addWatcher(w) \/ RaftRemove(w)
               \/ removeWatcher(w) \/ RaftEndWatcher(w) \/ Receive(w)
        PROVE  GoesOn
    BY <2>2, Zenon DEF RaftWatchCheck, RaftWatch, addWatcher, RaftRemove,
       removeWatcher, RaftEndWatcher, Receive
  <2>3. QED
    BY <1>4, <2>1, <2>2, Zenon DEF RaftWatchNext
<1>5. QED
  BY <1>1, <1>2, <1>3, <1>4, Zenon DEF StorageNext

\* Whatever the storage, its variables have their types.
THEOREM StorageTypes == StorageSpec => []StorageTypeOK
<1>1. NewStateStorage => StorageTypeOK
  <2>1. SUFFICES ASSUME NewStateStorage PROVE StorageTypeOK
    BY Zenon
  <2>2. 0 \in 0..MaxWrites /\ <<>> \in Seq(StateEvent) /\ 0 \in 0..0
    BY WritesAssumption, SMT
  <2>3. EmptyChannel \in Channel
    BY <2>2, Zenon DEF EmptyChannel, Channel
  <2>4. SharedTypeOK
    BY <2>1, <2>2, <2>3, Zenon DEF NewStateStorage, SharedInit, SharedTypeOK, WatchStates
  <2>5. LocalTypeOK
    BY <2>1, <2>4, ItemTypes, Zenon DEF NewStateStorage, LocalInit, LocalTypeOK, Ops
  <2>6. RedisTypeOK
    <3>1. <<>> \in Seq([event : StateEvent, from : Nodes])
      BY SMT
    <3>2. QED
      BY <2>1, <2>4, <3>1, MonitorTypes, Zenon DEF NewStateStorage, RedisInit,
         RedisTypeOK, Calls
  <2>7. RaftTypeOK
    <3>1. writes = 0 /\ log = <<>>
      BY <2>1, Zenon DEF NewStateStorage, SharedInit, RaftInit
    <3>2. log \in Seq(raftCommand) /\ writes = Len(log) /\ 0 \in 0..writes
      BY <3>1, SMT
    <3>3. NoSnapshot \in Snapshots
      BY <3>2, MapTypes, Zenon DEF Snapshots, NoSnapshot
    <3>4. QED
      BY <2>1, <2>4, <3>2, <3>3, MapTypes, Zenon DEF NewStateStorage, RaftInit, RaftTypeOK
  <2>8. RaftWatchTypeOK
    BY <2>1, <2>4, Zenon DEF NewStateStorage, RaftWatchInit, RaftWatchTypeOK
  <2>9. QED
    BY <2>5, <2>6, <2>7, <2>8, Zenon DEF StorageTypeOK
<1>2. StorageTypeOK /\ [StorageNext]_storageVars => StorageTypeOK'
  <2>1. SUFFICES ASSUME StorageTypeOK, [StorageNext]_storageVars PROVE StorageTypeOK'
    BY Zenon
  <2>2. ASSUME SharedTypeOK', UNCHANGED localVars PROVE LocalTypeOK'
    BY <2>1, <2>2, Zenon DEF StorageTypeOK, LocalTypeOK, localVars
  <2>3. ASSUME SharedTypeOK', UNCHANGED redisVars PROVE RedisTypeOK'
    BY <2>1, <2>3, Zenon DEF StorageTypeOK, RedisTypeOK, redisVars
  <2>4. ASSUME SharedTypeOK', UNCHANGED raftWatchVars PROVE RaftWatchTypeOK'
    BY <2>1, <2>4, Zenon DEF StorageTypeOK, RaftWatchTypeOK, raftWatchVars
  <2>5. ASSUME SharedTypeOK', UNCHANGED raftVars, StorageNext, kind # "raft" PROVE RaftTypeOK'
    BY <2>1, <2>5, KindKept, OthersLeaveRaftTypes, Zenon DEF StorageTypeOK, GoesOn
  <2>6. CASE LocalNext /\ UNCHANGED <<redisVars, raftVars, raftWatchVars>>
    <3>1. LocalTypeOK' /\ SharedTypeOK' /\ kind # "raft" /\ StorageNext
      BY <2>1, <2>6, LocalTypes, Zenon DEF StorageTypeOK, LocalTypeOK, LocalNext,
         StorageNext
    <3>2. QED
      BY <2>3, <2>4, <2>5, <2>6, <3>1, Zenon DEF StorageTypeOK
  <2>7. CASE RedisNext /\ UNCHANGED <<localVars, raftVars, raftWatchVars>>
    <3>1. RedisTypeOK' /\ SharedTypeOK' /\ kind # "raft" /\ StorageNext
      BY <2>1, <2>7, RedisTypes, Zenon DEF StorageTypeOK, RedisTypeOK, RedisNext,
         StorageNext
    <3>2. QED
      BY <2>2, <2>4, <2>5, <2>7, <3>1, Zenon DEF StorageTypeOK
  <2>8. CASE RaftNext /\ UNCHANGED <<localVars, redisVars, raftWatchVars>>
    <3>1. RaftTypeOK' /\ SharedTypeOK'
      BY <2>1, <2>8, RaftTypes, Zenon DEF StorageTypeOK, RaftTypeOK
    <3>2. QED
      BY <2>2, <2>3, <2>4, <2>8, <3>1, Zenon DEF StorageTypeOK
  <2>9. CASE RaftWatchNext /\ UNCHANGED <<localVars, redisVars, raftVars>>
    <3>1. RaftWatchTypeOK' /\ SharedTypeOK' /\ kind # "raft" /\ StorageNext
      BY <2>1, <2>9, RaftWatchTypes, Zenon DEF StorageTypeOK, RaftWatchTypeOK,
         RaftWatchNext, StorageNext
    <3>2. QED
      BY <2>2, <2>3, <2>5, <2>9, <3>1, Zenon DEF StorageTypeOK
  <2>10. CASE UNCHANGED storageVars
    <3>1. SharedTypeOK'
      BY <2>1, <2>10, Zenon DEF storageVars, sharedVars, historyVars, StorageTypeOK,
         LocalTypeOK, SharedTypeOK
    <3>2. RaftTypeOK'
      BY <2>1, <2>10, <3>1, Zenon DEF storageVars, sharedVars, raftVars, StorageTypeOK,
         RaftTypeOK, Snapshots
    <3>3. QED
      BY <2>2, <2>3, <2>4, <2>10, <3>1, <3>2, Zenon DEF storageVars, StorageTypeOK
  <2>11. QED
    BY <2>1, <2>6, <2>7, <2>8, <2>9, <2>10, Zenon DEF StorageNext
<1>3. QED
  BY <1>1, <1>2, PTL DEF StorageSpec

\* Watch has not yet registered the channel.
Fresh == {"none", "called", "half"}

\* A watcher that has not been registered has been told of nothing, and none is told of
\* a key that it does not watch.
Untold ==
  \A w \in Watchers : /\ wst[w] \in Fresh => \A k \in Keys : told[w][k] = 0
                      /\ \A k \in Keys \ PrefixOf[w] : told[w][k] = 0

\* The event of the last write of a key missed the watcher or may have been overtaken;
\* the watcher was last told of that write.
Excused(w, k) == last[k].stamp \in mixed \cup missed[w]
UpToDate(w, k) == told[w][k] \in {0, last[k].stamp}

\* An event offered to the channels that are registered for its key: each of them is
\* told of it or misses it, and nothing else changes what watchers were told.
LEMMA BroadcastTells ==
  ASSUME SharedTypeOK, Untold, NEW reg, reg \subseteq Watchers, \A w \in reg : wst[w] \notin Fresh,
         NEW e \in StateEvent, Broadcast(Listeners(reg, e.key), e), UNCHANGED wst
  PROVE  /\ Untold'
         /\ \A w \in Watchers : missed[w] \subseteq missed'[w]
         /\ \A w \in Watchers, k \in Keys : k # e.key => told'[w][k] = told[w][k]
         /\ \A w \in reg : told'[w][e.key] \in {0, e.stamp} \/ e.stamp \in missed'[w]
         /\ \A w \in Watchers \ reg : told'[w] = told[w]
<1> DEFINE to == Listeners(reg, e.key)
<1>1. e.key \in Keys
  BY SMT DEF StateEvent
<1>2. /\ \A w \in Watchers : told[w] \in [Keys -> 0..MaxWrites]
      /\ to \subseteq reg /\ \A w \in reg : w \in to <=> e.key \in PrefixOf[w]
  BY Zenon DEF SharedTypeOK, Listeners
<1>3. /\ told' = [w \in Watchers |->
           IF w \in to /\ ~IsFull(chan[w]) THEN [told[w] EXCEPT ![e.key] = e.stamp] ELSE told[w]]
      /\ missed' = [w \in Watchers |->
           IF w \in to /\ IsFull(chan[w]) THEN missed[w] \cup {e.stamp} ELSE missed[w]]
  BY Zenon DEF Broadcast
<1>4. \A w \in Watchers : missed[w] \subseteq missed'[w]
  BY <1>3, Zenon
<1>5. \A w \in Watchers, k \in Keys : k # e.key => told'[w][k] = told[w][k]
  BY <1>2, <1>3, Zenon
<1>6. \A w \in Watchers \ to : told'[w] = told[w]
  BY <1>3, Zenon
<1>7. \A w \in to : told'[w][e.key] = e.stamp \/ e.stamp \in missed'[w]
  BY <1>1, <1>2, <1>3, Zenon
<1>8. \A w \in reg : told'[w][e.key] \in {0, e.stamp} \/ e.stamp \in missed'[w]
  <2>1. ASSUME NEW w \in reg, w \notin to PROVE told'[w][e.key] = 0
    <3>1. e.key \in Keys \ PrefixOf[w] /\ w \in Watchers \ to
      BY <1>1, <1>2, <2>1, Zenon
    <3>2. told'[w] = told[w] /\ told[w][e.key] = 0
      BY <1>6, <3>1, Zenon DEF Untold
    <3>3. QED
      BY <3>2, Zenon
  <2>2. QED
    BY <1>7, <2>1, Zenon
<1>9. Untold'
  <2>1. ASSUME NEW w \in Watchers, wst[w] \in Fresh PROVE \A k \in Keys : told'[w][k] = 0
    BY <1>2, <1>6, <2>1, Zenon DEF Untold
  <2>2. ASSUME NEW w \in Watchers, NEW k \in Keys \ PrefixOf[w] PROVE told'[w][k] = 0
    <3>1. CASE k = e.key
      <4>1. w \in Watchers \ to
        BY <1>2, <2>2, <3>1, Zenon
      <4>2. told'[w] = told[w] /\ told[w][k] = 0
        BY <1>6, <4>1, Zenon DEF Untold
      <4>3. QED
        BY <4>2, Zenon
    <3>2. CASE k # e.key
      BY <1>5, <3>2, Zenon DEF Untold
    <3>3. QED
      BY <3>1, <3>2, Zenon
  <2>3. QED
    BY <2>1, <2>2, Zenon DEF Untold
<1>10. QED
  BY <1>2, <1>4, <1>5, <1>6, <1>8, <1>9, Zenon

-----------------------------------------------------------------------------
\* Local storage: unless it may be overtaken, the event of the last write is the only one
\* in flight for its key; and once it has been sent the watchers know of it.
LocalTells ==
  IF kind = "local" THEN
    /\ \A w \in watches : wst[w] \notin Fresh
    /\ closing # "open" => watches \subseteq late
    /\ \A k \in Keys : \/ last[k].stamp \in mixed
                       \/ \A c \in Clients : InFlight(c, k) => op[c].event = last[k]
    /\ \A w \in watches \ late, k \in Keys :
         Excused(w, k) \/ (\E c \in Clients : InFlight(c, k)) \/ UpToDate(w, k)
  ELSE watches = {}

\* A step that writes nothing and sends nothing.
LEMMA QuietLocalTells ==
  ASSUME kind = "local", Untold, LocalTells, UNCHANGED <<kind, last, mixed, told, missed>>,
         \A c \in Clients, k \in Keys :
           /\ InFlight(c, k)' <=> InFlight(c, k)
           /\ InFlight(c, k) => op'[c].event = op[c].event,
         \A w \in Watchers : wst'[w] \in Fresh => wst[w] \in Fresh,
         watches' \subseteq watches, late \subseteq late', watches \subseteq Watchers,
         closing' # "open" => closing # "open" \/ watches' = {}
  PROVE  Untold' /\ LocalTells'
<1>1. Untold'
  BY Zenon DEF Untold
<1>2. \A w \in watches' : wst'[w] \notin Fresh
  BY Zenon DEF LocalTells
<1>3. closing' # "open" => watches' \subseteq late'
  BY Zenon DEF LocalTells
<1>4. \A k \in Keys : \/ last'[k].stamp \in mixed'
                      \/ \A c \in Clients : InFlight(c, k)' => op'[c].event = last'[k]
  BY Zenon DEF LocalTells
<1>5. \A w \in watches' \ late', k \in Keys :
        \/ Excused(w, k)' \/ (\E c \in Clients : InFlight(c, k)') \/ UpToDate(w, k)'
  BY Zenon DEF LocalTells, Excused, UpToDate
<1>6. QED
  BY <1>1, <1>2, <1>3, <1>4, <1>5, Zenon DEF LocalTells

\* A write: its event is in flight, and is mixed if another one for the key was.
LEMMA WriteLocalTells ==
  ASSUME LocalTypeOK, kind = "local", Untold, LocalTells, NEW c \in Clients, NEW k \in Keys,
         NEW type, NEW item, NEW todo, LocalWrite(c, k, type, item, todo),
         \A j : ~InFlight(c, j)
  PROVE  Untold' /\ LocalTells'
<1>1. /\ last' = [last EXCEPT ![k] = [key |-> k, type |-> type, stamp |-> writes']]
      /\ op' = [op EXCEPT ![c] =
           [do |-> "check", todo |-> todo, ttl |-> item.ttl, event |-> last'[k]]]
      /\ mixed \subseteq mixed'
      /\ (\E d \in Clients : InFlight(d, k)) => writes' \in mixed'
      /\ UNCHANGED <<kind, wst, told, missed, watches, closing, late>>
  BY Zenon DEF LocalWrite, Become
<1>2. DOMAIN last = Keys /\ DOMAIN op = Clients
  BY Zenon DEF LocalTypeOK, SharedTypeOK
<1>3. /\ last'[k] = [key |-> k, type |-> type, stamp |-> writes']
      /\ \A j \in Keys \ {k} : last'[j] = last[j]
      /\ op'[c].do = "check" /\ op'[c].event = last'[k]
      /\ \A d \in Clients \ {c} : op'[d] = op[d]
  BY <1>1, <1>2, Zenon
<1>4. last'[k].key = k /\ last'[k].stamp = writes'
  <2>1. last'[k].key = [key |-> k, type |-> type, stamp |-> writes'].key
    BY <1>3, Zenon
  <2>2. last'[k].stamp = [key |-> k, type |-> type, stamp |-> writes'].stamp
    BY <1>3, Zenon
  <2>3. QED
    BY <2>1, <2>2, Zenon
<1>5. /\ InFlight(c, k)' /\ \A j \in Keys \ {k} : ~InFlight(c, j)'
      /\ \A d \in Clients \ {c}, j \in Keys : InFlight(d, j)' <=> InFlight(d, j)
  BY <1>3, <1>4, Zenon DEF InFlight
<1>6. Untold'
  BY <1>1, Zenon DEF Untold
<1>7. ASSUME NEW j \in Keys PROVE \/ last'[j].stamp \in mixed'
                                  \/ \A d \in Clients : InFlight(d, j)' => op'[d].event = last'[j]
  <2>1. CASE j = k
    <3>1. CASE \E d \in Clients : InFlight(d, k)
      BY <1>1, <1>4, <2>1, <3>1, Zenon
    <3>2. CASE \A d \in Clients : ~InFlight(d, k)
      BY <1>3, <1>5, <2>1, <3>2, Zenon
    <3>3. QED
      BY <3>1, <3>2, Zenon
  <2>2. CASE j # k
    <3>1. last'[j] = last[j] /\ ~InFlight(c, j)'
      BY <1>3, <1>5, <2>2, Zenon
    <3>2. CASE last[j].stamp \in mixed
      BY <1>1, <3>1, <3>2, Zenon
    <3>3. CASE \A d \in Clients : InFlight(d, j) => op[d].event = last[j]
      BY <1>3, <1>5, <3>1, <3>3, Zenon
    <3>4. QED
      BY <3>2, <3>3, Zenon DEF LocalTells
  <2>3. QED
    BY <2>1, <2>2, Zenon
<1>8. ASSUME NEW w \in watches' \ late', NEW j \in Keys
      PROVE  \/ Excused(w, j)' \/ (\E d \in Clients : InFlight(d, j)') \/ UpToDate(w, j)'
  <2>1. CASE j = k
    BY <1>5, <2>1, Zenon
  <2>2. CASE j # k
    <3>1. Excused(w, j) \/ (\E d \in Clients : InFlight(d, j)) \/ UpToDate(w, j)
      BY <1>1, Zenon DEF LocalTells
    <3>2. CASE \E d \in Clients : InFlight(d, j)
      BY <1>5, <3>2, Zenon
    <3>3. CASE Excused(w, j)
      BY <1>1, <1>3, <2>2, <3>3, Zenon DEF Excused
    <3>4. CASE UpToDate(w, j)
      BY <1>1, <1>3, <2>2, <3>4, Zenon DEF UpToDate
    <3>5. QED
      BY <3>1, <3>2, <3>3, <3>4, Zenon
  <2>3. QED
    BY <2>1, <2>2, Zenon
<1>9. QED
  BY <1>1, <1>6, <1>7, <1>8, Zenon DEF LocalTells

\* The sends of an event: unless it is mixed it is that of the last write of its key, of
\* which each watcher is then told, or which it misses.
LEMMA SendLocalTells ==
  ASSUME LocalTypeOK, kind = "local", Untold, LocalTells, NEW c \in Clients, LocalNotifySend(c)
  PROVE  Untold' /\ LocalTells'
<1> DEFINE e == op[c].event
<1>1. /\ Broadcast(Listeners(watches, e.key), e) /\ op' = [op EXCEPT ![c] = AfterSet(op[c])]
      /\ op[c].do = "send" /\ UNCHANGED <<kind, wst, last, mixed, watches, closing, late>>
  BY Zenon DEF LocalNotifySend, Become
<1>2. /\ SharedTypeOK /\ op \in [Clients -> Ops] /\ watches \subseteq Watchers
      /\ e \in StateEvent
  BY <1>1, OpsFields, Zenon DEF LocalTypeOK
<1>3. /\ Untold'
      /\ \A w \in Watchers : missed[w] \subseteq missed'[w]
      /\ \A w \in Watchers, k \in Keys : k # e.key => told'[w][k] = told[w][k]
      /\ \A w \in watches : told'[w][e.key] \in {0, e.stamp} \/ e.stamp \in missed'[w]
  <2>1. \A w \in watches : wst[w] \notin Fresh
    BY Zenon DEF LocalTells
  <2>2. QED
    BY <1>1, <1>2, <2>1, BroadcastTells, Zenon
<1>4. /\ \A k \in Keys : ~InFlight(c, k)'
      /\ \A d \in Clients \ {c} : op'[d] = op[d]
      /\ \A d \in Clients \ {c}, k \in Keys : InFlight(d, k)' <=> InFlight(d, k)
      /\ \A k \in Keys : k # e.key => ~InFlight(c, k)
  BY <1>1, <1>2, Zenon DEF InFlight, AfterSet, Idle
<1>5. ASSUME NEW k \in Keys PROVE \/ last'[k].stamp \in mixed'
                                  \/ \A d \in Clients : InFlight(d, k)' => op'[d].event = last'[k]
  BY <1>1, <1>4, Zenon DEF LocalTells
<1>6. ASSUME NEW w \in watches' \ late', NEW k \in Keys
      PROVE  \/ Excused(w, k)' \/ (\E d \in Clients : InFlight(d, k)') \/ UpToDate(w, k)'
  <2>1. w \in watches \ late /\ w \in Watchers
    BY <1>1, <1>2, Zenon
  <2>2. CASE last[k].stamp \in mixed \cup missed[w]
    BY <1>1, <1>3, <2>1, <2>2, Zenon DEF Excused
  <2>3. CASE k = e.key /\ last[k].stamp \notin mixed
    <3>1. e = last[k]
      BY <1>1, <2>3, Zenon DEF LocalTells, InFlight
    <3>2. told'[w][k] \in {0, last[k].stamp} \/ last[k].stamp \in missed'[w]
      BY <1>3, <2>1, <2>3, <3>1, Zenon
    <3>3. QED
      BY <1>1, <3>2, Zenon DEF Excused, UpToDate
  <2>4. CASE k # e.key /\ last[k].stamp \notin mixed \cup missed[w]
    <3>1. (\E d \in Clients : InFlight(d, k)) \/ UpToDate(w, k)
      BY <2>1, <2>4, Zenon DEF LocalTells, Excused
    <3>2. CASE \E d \in Clients : InFlight(d, k)
      BY <1>4, <2>4, <3>2, Zenon
    <3>3. CASE UpToDate(w, k)
      BY <1>1, <1>3, <2>1, <2>4, <3>3, Zenon DEF UpToDate
    <3>4. QED
      BY <3>1, <3>2, <3>3, Zenon
  <2>5. QED
    BY <2>2, <2>3, <2>4, Zenon
<1>7. QED
  BY <1>1, <1>3, <1>5, <1>6, Zenon DEF LocalTells

\* Every step of local storage.
LEMMA LocalKeepsTells ==
  ASSUME LocalTypeOK, Untold, LocalTells, LocalNext
  PROVE  Untold' /\ LocalTells'
<1>1. kind = "local" /\ op \in [Clients -> Ops] /\ watches \subseteq Watchers /\ DOMAIN wst = Watchers
  BY Zenon DEF LocalNext, LocalTypeOK, SharedTypeOK
<1>2. ASSUME UNCHANGED <<kind, last, mixed, told, missed, wst, watches, late, op>>,
             closing' # "open" => closing # "open" \/ watches' = {}
      PROVE  Untold' /\ LocalTells'
  <2>1. \A d \in Clients, k \in Keys : /\ InFlight(d, k)' <=> InFlight(d, k)
                                       /\ InFlight(d, k) => op'[d].event = op[d].event
    BY <1>2, Zenon DEF InFlight
  <2>2. QED
    BY <1>1, <1>2, <2>1, QuietLocalTells, Zenon
<1>3. ASSUME NEW c \in Clients, LocalGet(c) \/ LocalPurge(c) PROVE Untold' /\ LocalTells'
  <2>1. UNCHANGED <<kind, last, mixed, told, missed, wst, watches, late, closing>>
    BY <1>3, Zenon DEF LocalGet, LocalPurge, sharedVars, historyVars
  <2>2. /\ op[c].do \notin {"check", "send"}
        /\ \E o : op' = [op EXCEPT ![c] = o] /\ o.do \notin {"check", "send"}
    <3>1. \A todo : AfterGet(todo).do \notin {"check", "send"}
      BY Zenon DEF AfterGet, Idle
    <3>2. CASE LocalPurge(c)
      BY <3>1, <3>2, Zenon DEF LocalPurge, Become
    <3>3. CASE LocalGet(c)
      <4>1. op[c].do \notin {"check", "send"}
        <5>1. Idle.do = "idle"
          BY Zenon DEF Idle
        <5>2. QED
          BY <3>3, <5>1, Zenon DEF LocalGet
      <4>2. PICK todo, k : Become(c, IF isExpired(data[k])
                                       THEN [do |-> "purge", todo |-> todo \ {k}, key |-> k]
                                       ELSE AfterGet(todo \ {k}))
        BY <3>3, Zenon DEF LocalGet
      <4>3. [do |-> "purge", todo |-> todo \ {k}, key |-> k].do \notin {"check", "send"}
        BY Zenon
      <4>4. QED
        BY <3>1, <4>1, <4>2, <4>3, Zenon DEF Become
    <3>4. QED
      BY <1>3, <3>2, <3>3, Zenon
  <2>3. \A d \in Clients, k \in Keys : /\ InFlight(d, k)' <=> InFlight(d, k)
                                       /\ InFlight(d, k) => op'[d].event = op[d].event
    BY <1>1, <2>2, Zenon DEF InFlight
  <2>4. QED
    BY <1>1, <2>1, <2>3, QuietLocalTells, Zenon
<1>4. ASSUME NEW c \in Clients, LocalSet(c) PROVE Untold' /\ LocalTells'
  <2>1. \A j : ~InFlight(c, j)
    BY <1>4, Zenon DEF LocalSet, InFlight
  <2>2. PICK ttl, todo, k :
          /\ todo \in SUBSET Keys /\ k \in todo
          /\ LocalWrite(c, k, "set", [stamp |-> writes + 1, ttl |-> ttl], todo \ {k})
    <3>1. op[c].do = "set" => op[c].todo \in SUBSET Keys
      BY <1>1, OpsFields, Zenon
    <3>2. op[c].do = "idle" => op[c] = Idle
      BY <1>1, SMT DEF Ops, Idle
    <3>3. QED
      BY <1>4, <3>1, <3>2, Zenon DEF LocalSet
  <2>3. k \in Keys
    BY <2>2, Zenon
  <2>4. QED
    BY <1>1, <2>1, <2>2, <2>3, WriteLocalTells, Zenon
<1>5. ASSUME NEW c \in Clients, LocalDelete(c) PROVE Untold' /\ LocalTells'
  <2>1. \A j : ~InFlight(c, j)
    <3>1. Idle.do = "idle"
      BY Zenon DEF Idle
    <3>2. QED
      BY <1>5, <3>1, Zenon DEF LocalDelete, InFlight
  <2>2. PICK k \in Keys : LocalWrite(c, k, "delete", Absent, {})
    BY <1>5, Zenon DEF LocalDelete
  <2>3. QED
    BY <1>1, <2>1, <2>2, WriteLocalTells, Zenon
<1>6. ASSUME NEW c \in Clients, LocalNotifyCheck(c) PROVE Untold' /\ LocalTells'
  <2>1. UNCHANGED <<kind, last, mixed, told, missed, wst, watches, late, closing>>
    BY <1>6, Zenon DEF LocalNotifyCheck, sharedVars, historyVars
  <2>2. CASE closing = "closed"
    <3>1. op' = [op EXCEPT ![c] = AfterSet(op[c])]
      BY <1>6, <2>2, Zenon DEF LocalNotifyCheck, Become
    <3>2. /\ \A k \in Keys : ~InFlight(c, k)'
          /\ \A d \in Clients \ {c} : op'[d] = op[d]
      BY <1>1, <3>1, Zenon DEF InFlight, AfterSet, Idle
    <3>3. \A k \in Keys : \/ last'[k].stamp \in mixed'
                          \/ \A d \in Clients : InFlight(d, k)' => op'[d].event = last'[k]
      BY <1>1, <2>1, <3>2, Zenon DEF LocalTells, InFlight
    <3>4. watches' \ late' = {}
      BY <1>1, <2>1, <2>2, Zenon DEF LocalTells
    <3>5. QED
      BY <1>1, <2>1, <3>3, <3>4, Zenon DEF LocalTells, Untold
  <2>3. CASE closing # "closed"
    <3>1. op' = [op EXCEPT ![c] = [op[c] EXCEPT !.do = "send"]] /\ op[c].do = "check"
      BY <1>6, <2>3, Zenon DEF LocalNotifyCheck, Become
    <3>3. op'[c].do = "send" /\ op'[c].event = op[c].event /\ \A d \in Clients \ {c} : op'[d] = op[d]
      BY <1>1, <3>1, OpsFields, Zenon
    <3>4. \A d \in Clients, k \in Keys : /\ InFlight(d, k)' <=> InFlight(d, k)
                                         /\ InFlight(d, k) => op'[d].event = op[d].event
      BY <3>1, <3>3, Zenon DEF InFlight
    <3>5. QED
      BY <1>1, <2>1, <3>4, QuietLocalTells, Zenon
  <2>4. QED
    BY <2>2, <2>3, Zenon
<1>7. ASSUME NEW w \in Watchers, LocalWatch(w) PROVE Untold' /\ LocalTells'
  <2>1. /\ wst[w] = "none" /\ wst' = [wst EXCEPT ![w] = "on"] /\ watches' = watches \cup {w}
        /\ late' = IF closing = "open" THEN late ELSE late \cup {w}
        /\ UNCHANGED <<kind, last, mixed, told, missed, op, closing>>
    BY <1>7, Zenon DEF LocalWatch, historyVars
  <2>2. \A k \in Keys : told[w][k] = 0
    BY <2>1, Zenon DEF Untold, Fresh
  <2>3. Untold'
    <3>1. \A x \in Watchers : wst'[x] \in Fresh => wst[x] \in Fresh
      BY <1>1, <2>1, Zenon DEF Fresh
    <3>2. QED
      BY <2>1, <3>1, Zenon DEF Untold
  <2>4. \A x \in watches' : wst'[x] \notin Fresh
    BY <1>1, <2>1, Zenon DEF LocalTells, Fresh
  <2>5. closing' # "open" => watches' \subseteq late'
    BY <1>1, <2>1, Zenon DEF LocalTells
  <2>6. \A k \in Keys : \/ last'[k].stamp \in mixed'
                        \/ \A c \in Clients : InFlight(c, k)' => op'[c].event = last'[k]
    BY <1>1, <2>1, Zenon DEF LocalTells, InFlight
  <2>7. ASSUME NEW x \in watches' \ late', NEW k \in Keys
        PROVE  \/ Excused(x, k)' \/ (\E c \in Clients : InFlight(c, k)') \/ UpToDate(x, k)'
    <3>1. CASE x = w
      BY <2>1, <2>2, <3>1, Zenon DEF UpToDate
    <3>2. CASE x # w
      <4>1. x \in watches \ late
        BY <2>1, <3>2, Zenon
      <4>2. Excused(x, k) \/ (\E c \in Clients : InFlight(c, k)) \/ UpToDate(x, k)
        BY <1>1, <4>1, Zenon DEF LocalTells
      <4>3. QED
        BY <2>1, <4>2, Zenon DEF Excused, UpToDate, InFlight
    <3>3. QED
      BY <3>1, <3>2, Zenon
  <2>8. QED
    BY <1>1, <2>1, <2>3, <2>4, <2>5, <2>6, <2>7, Zenon DEF LocalTells
<1>8. ASSUME NEW w \in Watchers, LocalRemove(w) PROVE Untold' /\ LocalTells'
  <2>1. /\ wst' = [wst EXCEPT ![w] = "off"] /\ watches' \subseteq watches
        /\ UNCHANGED <<kind, last, mixed, told, missed, op, closing, late>>
    BY <1>8, Zenon DEF LocalRemove, historyVars
  <2>2. \A x \in Watchers : wst'[x] \in Fresh => wst[x] \in Fresh
    BY <1>1, <2>1, Zenon DEF Fresh
  <2>3. \A d \in Clients, k \in Keys : /\ InFlight(d, k)' <=> InFlight(d, k)
                                       /\ InFlight(d, k) => op'[d].event = op[d].event
    BY <2>1, Zenon DEF InFlight
  <2>4. QED
    BY <1>1, <2>1, <2>2, <2>3, QuietLocalTells, Zenon
<1>9. CASE LocalClose
  <2>1. /\ watches' = {} /\ UNCHANGED <<kind, last, mixed, told, missed, wst, op, late>>
    BY <1>9, Zenon DEF LocalClose, historyVars
  <2>2. \A d \in Clients, k \in Keys : /\ InFlight(d, k)' <=> InFlight(d, k)
                                       /\ InFlight(d, k) => op'[d].event = op[d].event
    BY <2>1, Zenon DEF InFlight
  <2>3. QED
    BY <1>1, <2>1, <2>2, QuietLocalTells, Zenon
<1>10. CASE LocalClear
  <2>1. UNCHANGED <<kind, last, mixed, told, missed, wst, watches, late, op>> /\ closing # "open"
    BY <1>10, Zenon DEF LocalClear, sharedVars, historyVars
  <2>2. QED
    BY <1>2, <2>1, Zenon
<1>11. ASSUME NEW w \in Watchers, Receive(w), UNCHANGED localVars PROVE Untold' /\ LocalTells'
  <2>1. UNCHANGED <<kind, last, mixed, told, missed, wst, watches, late, op, closing>>
    BY <1>11, Zenon DEF Receive, historyVars, localVars
  <2>2. QED
    BY <1>2, <2>1, Zenon
<1>12. ASSUME TimeToLiveEnds({data[k] : k \in Keys}), UNCHANGED localVars
       PROVE  Untold' /\ LocalTells'
  <2>1. UNCHANGED <<kind, last, mixed, told, missed, wst, watches, late, op, closing>>
    BY <1>12, Zenon DEF TimeToLiveEnds, historyVars, localVars
  <2>2. QED
    BY <1>2, <2>1, Zenon
<1>13. QED
  BY <1>1, <1>3, <1>4, <1>5, <1>6, <1>7, <1>8, <1>9, <1>10, <1>11, <1>12, SendLocalTells,
     Zenon DEF LocalNext

-----------------------------------------------------------------------------
\* Redis storage: the events that a client has still to publish.
Pending(c) == IF call[c].do \in {"write", "publish"} THEN call[c].events ELSE {}

ToPublish(k) == \E c \in Clients : \E e \in Pending(c) : e.key = k

\* The last of these messages about the key is this event; there is none.
Finally(msgs, k, e) ==
  \E i \in 1..Len(msgs) : /\ msgs[i].event = e /\ e.key = k
                          /\ \A j \in i + 1..Len(msgs) : msgs[j].event.key # k
Silent(msgs, k) == \A i \in 1..Len(msgs) : msgs[i].event.key # k

\* The monitor of the node has an event for the key in hand.
Handling(n, k) == monitor[n].do \in {"check", "send"} /\ monitor[n].event.key = k

\* What a watcher is still to be told of a key: a client has the event, or it is the last
\* one in the feed of the watcher's node, or in the hand of the monitor; else the watcher
\* knows.
Coming(w, k) ==
  LET n == HostOf[w]
  IN \/ Excused(w, k)
     \/ ToPublish(k)
     \/ Finally(feed[n], k, last[k])
     \/ /\ Silent(feed[n], k)
        /\ IF Handling(n, k) THEN monitor[n].event = last[k] ELSE UpToDate(w, k)

\* The watcher is registered or may yet be, and its node is open.
Waits(w) == ~isClosed(HostOf[w]) /\ (w \in watchers \/ wst[w] \in Fresh)

\* Unless it may be overtaken, the event of the last change is the only one that is still
\* to be published for its key.
RedisTells ==
  IF kind = "redis" THEN
    /\ \A w \in watchers : wst[w] \notin Fresh
    /\ \A k \in Keys : \/ last[k].stamp \in mixed
                       \/ \A c \in Clients : \A e \in Pending(c) : e.key = k => e = last[k]
    /\ \A w \in Watchers, k \in Keys : Waits(w) => Coming(w, k)
  ELSE watchers = {}

\* A message is added to a feed.
LEMMA AppendTells ==
  ASSUME NEW S, NEW s \in Seq(S), NEW m \in S, NEW k, NEW e
  PROVE  /\ m.event.key = k => Finally(Append(s, m), k, m.event)
         /\ m.event.key # k => /\ Finally(s, k, e) => Finally(Append(s, m), k, e)
                               /\ Silent(s, k) => Silent(Append(s, m), k)
<1>1. /\ Len(s) \in Nat /\ Len(Append(s, m)) = Len(s) + 1 /\ Append(s, m)[Len(s) + 1] = m
      /\ \A i \in 1..Len(s) : Append(s, m)[i] = s[i]
  BY SMT
<1>2. ASSUME m.event.key = k PROVE Finally(Append(s, m), k, m.event)
  BY <1>1, <1>2, SMT DEF Finally
<1>3. ASSUME m.event.key # k, Finally(s, k, e) PROVE Finally(Append(s, m), k, e)
  <2>1. PICK i \in 1..Len(s) : /\ s[i].event = e /\ e.key = k
                               /\ \A j \in i + 1..Len(s) : s[j].event.key # k
    BY <1>3, Zenon DEF Finally
  <2>2. i \in 1..Len(Append(s, m)) /\ Append(s, m)[i].event = e
    BY <1>1, <2>1, SMT
  <2>3. ASSUME NEW j \in i + 1..Len(Append(s, m)) PROVE Append(s, m)[j].event.key # k
    BY <1>1, <1>3, <2>1, SMT
  <2>4. QED
    BY <2>1, <2>2, <2>3, Zenon DEF Finally
<1>4. ASSUME m.event.key # k, Silent(s, k) PROVE Silent(Append(s, m), k)
  BY <1>1, <1>4, SMT DEF Silent
<1>5. QED
  BY <1>2, <1>3, <1>4, Zenon

\* The first message of a feed is taken.
LEMMA TailTells ==
  ASSUME NEW S, NEW s \in Seq(S), s # <<>>, NEW k, NEW e
  PROVE  /\ Finally(s, k, e) =>
              \/ Finally(Tail(s), k, e)
              \/ Head(s).event = e /\ e.key = k /\ Silent(Tail(s), k)
         /\ Silent(s, k) => Silent(Tail(s), k) /\ Head(s).event.key # k
<1>1. /\ Len(s) \in Nat /\ Len(s) > 0 /\ Len(Tail(s)) = Len(s) - 1 /\ Head(s) = s[1]
      /\ \A i \in 1..Len(s) - 1 : Tail(s)[i] = s[i + 1]
  BY SMT
<1>2. ASSUME Silent(s, k) PROVE Silent(Tail(s), k) /\ Head(s).event.key # k
  BY <1>1, <1>2, SMT DEF Silent
<1>3. ASSUME Finally(s, k, e)
      PROVE  \/ Finally(Tail(s), k, e)
             \/ Head(s).event = e /\ e.key = k /\ Silent(Tail(s), k)
  <2>1. PICK i \in 1..Len(s) : /\ s[i].event = e /\ e.key = k
                               /\ \A j \in i + 1..Len(s) : s[j].event.key # k
    BY <1>3, Zenon DEF Finally
  <2>2. CASE i = 1
    <3>1. \A j \in 1..Len(Tail(s)) : Tail(s)[j].event.key # k
      BY <1>1, <2>1, <2>2, SMT
    <3>2. QED
      BY <1>1, <2>1, <2>2, <3>1, Zenon DEF Silent
  <2>3. CASE i # 1
    <3>1. i - 1 \in 1..Len(Tail(s)) /\ Tail(s)[i - 1].event = e
      BY <1>1, <2>1, <2>3, SMT
    <3>2. \A j \in (i - 1) + 1..Len(Tail(s)) : Tail(s)[j].event.key # k
      BY <1>1, <2>1, <2>3, SMT
    <3>3. QED
      BY <2>1, <3>1, <3>2, Zenon DEF Finally
  <2>4. QED
    BY <2>2, <2>3, Zenon
<1>4. QED
  BY <1>2, <1>3, Zenon

\* Nothing that a watcher is still to be told of a key has changed.
LEMMA ComingKept ==
  ASSUME NEW w \in Watchers, NEW k \in Keys, Coming(w, k), last'[k] = last[k], mixed \subseteq mixed',
         missed[w] \subseteq missed'[w], told'[w][k] = told[w][k], ToPublish(k) => ToPublish(k)',
         feed'[HostOf[w]] = feed[HostOf[w]], monitor'[HostOf[w]] = monitor[HostOf[w]]
  PROVE  Coming(w, k)'
<1> DEFINE n == HostOf[w]
<1>1. Excused(w, k) => Excused(w, k)'
  BY Zenon DEF Excused
<1>2. UpToDate(w, k) => UpToDate(w, k)'
  BY Zenon DEF UpToDate
<1>3. Handling(n, k)' <=> Handling(n, k)
  BY Zenon DEF Handling
<1>4. /\ Finally(feed[n], k, last[k]) => Finally(feed[n], k, last[k])'
      /\ Silent(feed[n], k) => Silent(feed[n], k)'
  BY Zenon
<1>5. QED
  BY <1>1, <1>2, <1>3, <1>4, Zenon DEF Coming

\* A step that neither writes nor publishes nor delivers.
LEMMA QuietRedisTells ==
  ASSUME kind = "redis", Untold, RedisTells,
         UNCHANGED <<kind, last, mixed, told, missed, call, monitor>>,
         \A w \in Watchers : wst'[w] \in Fresh => wst[w] \in Fresh,
         \A w \in watchers' : wst'[w] \notin Fresh,
         \A w \in Watchers : Waits(w)' => Waits(w) /\ feed'[HostOf[w]] = feed[HostOf[w]]
  PROVE  Untold' /\ RedisTells'
<1>1. Untold'
  BY Zenon DEF Untold
<1>2. \A c : Pending(c)' = Pending(c)
  BY Zenon DEF Pending
<1>3. \A k \in Keys : \/ last'[k].stamp \in mixed'
                      \/ \A c \in Clients : \A e \in Pending(c)' : e.key = k => e = last'[k]
  BY <1>2, Zenon DEF RedisTells
<1>4. ASSUME NEW w \in Watchers, NEW k \in Keys, Waits(w)' PROVE Coming(w, k)'
  <2>1. Coming(w, k) /\ feed'[HostOf[w]] = feed[HostOf[w]]
    BY <1>4, Zenon DEF RedisTells
  <2>2. ToPublish(k) => ToPublish(k)'
    BY <1>2, Zenon DEF ToPublish
  <2>3. QED
    BY <2>1, <2>2, ComingKept, Zenon
<1>5. QED
  BY <1>1, <1>3, <1>4, Zenon DEF RedisTells

\* A command of Set or Delete changes a key, and its event is to be published.
LEMMA SetPending ==
  ASSUME RedisTypeOK, NEW c \in Clients, RedisSet(c) \/ RedisDelete(c)
  PROVE  /\ UNCHANGED <<kind, wst, told, missed, feed, monitor, watchers, phase>>
         /\ \E k \in Keys, type \in {"set", "delete"} :
              Change(k, type) /\ Pending(c)' = Pending(c) \cup {last'[k]}
         /\ \A d \in Clients \ {c} : Pending(d)' = Pending(d)
<1>1. call \in [Clients -> Calls] /\ Quiet.do = "quiet"
  BY Zenon DEF RedisTypeOK, Quiet
<1>2. UNCHANGED <<kind, wst, told, missed, feed, monitor, watchers, phase>>
  BY Zenon DEF RedisSet, RedisDelete
<1>3. ASSUME NEW o, call' = [call EXCEPT ![c] = o], o.do \in {"write", "publish"}
      PROVE  Pending(c)' = o.events /\ \A d \in Clients \ {c} : Pending(d)' = Pending(d)
  BY <1>1, <1>3, Zenon DEF Pending
<1>4. CASE RedisSet(c)
  <2>1. PICK set : /\ IF call[c] = Quiet
                         THEN set \in [do : {"write"}, node : Nodes, keys : SUBSET Keys, events : {{}}]
                         ELSE set = call[c]
                   /\ set.do = "write"
                   /\ \E k \in set.keys :
                        /\ Change(k, "set")
                        /\ LET rest == set.keys \ {k}
                               events == set.events \cup {last'[k]}
                           IN call' = [call EXCEPT ![c] =
                                IF rest = {} THEN [do |-> "publish", node |-> set.node, events |-> events]
                                ELSE [set EXCEPT !.keys = rest, !.events = events]]
    BY <1>4, Zenon DEF RedisSet
  <2>2. set \in Writing /\ set.events = Pending(c)
    <3>1. CASE call[c] = Quiet
      <4>1. set \in Writing /\ set.events = {}
        BY <2>1, <3>1, SMT DEF Writing
      <4>2. Pending(c) = {}
        BY <1>1, <3>1, Zenon DEF Pending
      <4>3. QED
        BY <4>1, <4>2, Zenon
    <3>2. CASE call[c] # Quiet
      BY <1>1, <2>1, <3>2, CallFields, Zenon DEF Pending
    <3>3. QED
      BY <3>1, <3>2, Zenon
  <2>3. set.node \in Nodes /\ set.keys \in SUBSET Keys /\ set.events \in SUBSET StateEvent
    BY <2>2, SMT DEF Writing
  <2> DEFINE events(k) == set.events \cup {last'[k]}
  <2>4. PICK k \in set.keys :
          /\ Change(k, "set")
          /\ call' = [call EXCEPT ![c] =
                  IF set.keys \ {k} = {} THEN [do |-> "publish", node |-> set.node, events |-> events(k)]
                  ELSE Wrote(set, set.keys \ {k}, events(k))]
    BY <2>1, Zenon DEF Wrote
  <2>5. events(k) \in SUBSET StateEvent
    <3>1. last'[k] \in StateEvent
      BY <1>4, <2>3, <2>4, ChangeTypes, Zenon DEF RedisSet, RedisTypeOK
    <3>2. QED
      BY <2>3, <3>1, Zenon
  <2>6. /\ [do |-> "publish", node |-> set.node, events |-> events(k)].do = "publish"
        /\ [do |-> "publish", node |-> set.node, events |-> events(k)].events = events(k)
    BY Zenon
  <2>7. /\ Wrote(set, set.keys \ {k}, events(k)).do = "write"
        /\ Wrote(set, set.keys \ {k}, events(k)).events = events(k)
    <3>1. set.keys \ {k} \in SUBSET Keys
      BY <2>3, Zenon
    <3>2. QED
      BY <2>2, <2>5, <3>1, WritingTypes, Zenon
  <2>8. Pending(c)' = events(k) /\ \A d \in Clients \ {c} : Pending(d)' = Pending(d)
    <3>1. CASE set.keys \ {k} = {}
      BY <1>3, <2>4, <2>6, <3>1, Zenon
    <3>2. CASE set.keys \ {k} # {}
      BY <1>3, <2>4, <2>7, <3>2, Zenon
    <3>3. QED
      BY <3>1, <3>2, Zenon
  <2>9. k \in Keys /\ Pending(c)' = Pending(c) \cup {last'[k]}
    BY <2>2, <2>3, <2>8, Zenon
  <2>10. QED
    BY <1>2, <2>4, <2>8, <2>9, Zenon
<1>5. CASE RedisDelete(c)
  <2>1. PICK n \in Nodes, k \in store :
          /\ Change(k, "delete")
          /\ call' = [call EXCEPT ![c] = [do |-> "publish", node |-> n, events |-> {last'[k]}]]
    BY <1>5, Zenon DEF RedisDelete
  <2>2. /\ [do |-> "publish", node |-> n, events |-> {last'[k]}].do = "publish"
        /\ [do |-> "publish", node |-> n, events |-> {last'[k]}].events = {last'[k]}
    BY Zenon
  <2>3. Pending(c) = {}
    BY <1>1, <1>5, Zenon DEF RedisDelete, Pending
  <2>4. Pending(c)' = Pending(c) \cup {last'[k]} /\ \A d \in Clients \ {c} : Pending(d)' = Pending(d)
    BY <1>3, <2>1, <2>2, <2>3, Zenon
  <2>5. k \in Keys
    BY Zenon DEF RedisTypeOK
  <2>6. QED
    BY <1>2, <2>1, <2>4, <2>5, Zenon
<1>6. QED
  BY <1>4, <1>5, Zenon

\* A change: its event is to be published, and is mixed if another one for the key was.
LEMMA ChangeTells ==
  ASSUME RedisTypeOK, kind = "redis", Untold, RedisTells, NEW c \in Clients,
         RedisSet(c) \/ RedisDelete(c)
  PROVE  Untold' /\ RedisTells'
<1>1. PICK k \in Keys, type \in {"set", "delete"} :
        Change(k, type) /\ Pending(c)' = Pending(c) \cup {last'[k]}
  BY SetPending, Zenon
<1>2. /\ UNCHANGED <<kind, wst, told, missed, feed, monitor, watchers, phase>>
      /\ \A d \in Clients \ {c} : Pending(d)' = Pending(d)
  BY SetPending, Zenon
<1>3. /\ last' = [last EXCEPT ![k] = [key |-> k, type |-> type, stamp |-> writes']]
      /\ mixed \subseteq mixed'
      /\ (\E d \in Clients : Unpublished(d, k)) => writes' \in mixed'
  BY <1>1, Zenon DEF Change
<1>4. DOMAIN last = Keys
  BY Zenon DEF RedisTypeOK, SharedTypeOK
<1>5. /\ last'[k] = [key |-> k, type |-> type, stamp |-> writes']
      /\ \A j \in Keys \ {k} : last'[j] = last[j]
  BY <1>3, <1>4, Zenon
<1>6. last'[k].key = k /\ last'[k].stamp = writes'
  <2>1. last'[k].key = [key |-> k, type |-> type, stamp |-> writes'].key
    BY <1>5, Zenon
  <2>2. last'[k].stamp = [key |-> k, type |-> type, stamp |-> writes'].stamp
    BY <1>5, Zenon
  <2>3. QED
    BY <2>1, <2>2, Zenon
<1>7. ToPublish(k) => writes' \in mixed'
  BY <1>3, Zenon DEF ToPublish, Pending, Unpublished
<1>8. Untold'
  BY <1>2, Zenon DEF Untold
<1>9. \A w \in watchers' : wst'[w] \notin Fresh
  BY <1>2, Zenon DEF RedisTells
<1>10. ASSUME NEW j \in Keys
       PROVE  \/ last'[j].stamp \in mixed'
              \/ \A d \in Clients : \A e \in Pending(d)' : e.key = j => e = last'[j]
  <2>1. CASE j = k
    <3>1. CASE ToPublish(k)
      BY <1>6, <1>7, <2>1, <3>1, Zenon
    <3>2. CASE ~ToPublish(k)
      BY <1>1, <1>2, <2>1, <3>2, Zenon DEF ToPublish
    <3>3. QED
      BY <3>1, <3>2, Zenon
  <2>2. CASE j # k
    <3>1. last'[j] = last[j]
      BY <1>5, <2>2, Zenon
    <3>2. CASE last[j].stamp \in mixed
      BY <1>3, <3>1, <3>2, Zenon
    <3>3. CASE \A d \in Clients : \A e \in Pending(d) : e.key = j => e = last[j]
      BY <1>1, <1>2, <1>6, <2>2, <3>1, <3>3, Zenon
    <3>4. QED
      BY <3>2, <3>3, Zenon DEF RedisTells
  <2>3. QED
    BY <2>1, <2>2, Zenon
<1>11. ASSUME NEW w \in Watchers, NEW j \in Keys, Waits(w)' PROVE Coming(w, j)'
  <2>1. CASE j = k
    BY <1>1, <1>6, <2>1, Zenon DEF Coming, ToPublish
  <2>2. CASE j # k
    <3>1. last'[j] = last[j]
      BY <1>5, <2>2, Zenon
    <3>2. Coming(w, j)
      BY <1>2, <1>11, Zenon DEF RedisTells, Waits, isClosed
    <3>3. ToPublish(j) => ToPublish(j)'
      BY <1>1, <1>2, Zenon DEF ToPublish
    <3>4. QED
      BY <1>2, <1>3, <3>1, <3>2, <3>3, ComingKept, Zenon
  <2>3. QED
    BY <2>1, <2>2, Zenon
<1>12. QED
  BY <1>2, <1>8, <1>9, <1>10, <1>11, Zenon DEF RedisTells

\* Events that are lost are missed.
LEMMA LoseTells ==
  ASSUME NEW events, NEW ws, Lose(events, ws)
  PROVE  /\ \A w \in Watchers : missed[w] \subseteq missed'[w]
         /\ \A w \in Watchers, e \in events : w \in ws => e.stamp \in missed'[w]
BY Zenon DEF Lose

\* A client publishes an event, or some of its events are lost.
LEMMA PublishTells ==
  ASSUME RedisTypeOK, kind = "redis", Untold, RedisTells, NEW c \in Clients,
         RedisCallFails(c) \/ RedisPublish(c)
  PROVE  Untold' /\ RedisTells'
<1>1. call \in [Clients -> Calls] /\ Quiet.do = "quiet"
  BY Zenon DEF RedisTypeOK, Quiet
<1>2. UNCHANGED <<kind, wst, last, mixed, told, monitor, watchers, phase>>
  BY Zenon DEF RedisCallFails, RedisPublish
<1>3. PICK gone : /\ gone \subseteq Pending(c) /\ Pending(c)' = Pending(c) \ gone
                  /\ \A d \in Clients \ {c} : Pending(d)' = Pending(d)
                  /\ \/ Lose(gone, Watchers) /\ UNCHANGED feed
                     \/ \E e : /\ gone = {e} /\ UNCHANGED missed /\ call[c].node \in Nodes
                               /\ e \in StateEvent
                               /\ feed' = [n \in Subscribed |-> IF isClosed(n) THEN feed[n]
                                    ELSE Append(feed[n], [event |-> e, from |-> call[c].node])]
  <2>1. CASE RedisCallFails(c)
    <3>1. Pending(c)' = {} /\ \A d \in Clients \ {c} : Pending(d)' = Pending(d)
      BY <1>1, <2>1, Zenon DEF RedisCallFails, Pending
    <3>2. Lose(Pending(c), Watchers) /\ UNCHANGED feed
      BY <2>1, Zenon DEF RedisCallFails, Pending
    <3>3. Pending(c)' = Pending(c) \ Pending(c)
      BY <3>1, Zenon
    <3>4. QED
      BY <3>1, <3>2, <3>3, Zenon
  <2>2. CASE RedisPublish(c)
    <3>1. PICK e \in call[c].events :
            /\ call' = [call EXCEPT ![c] = IF call[c].events = {e} THEN Quiet
                                           ELSE [call[c] EXCEPT !.events = call[c].events \ {e}]]
            /\ \/ /\ feed' = [n \in Subscribed |-> IF isClosed(n) THEN feed[n]
                                ELSE Append(feed[n], [event |-> e, from |-> call[c].node])]
                  /\ UNCHANGED missed
               \/ Lose({e}, Watchers) /\ UNCHANGED feed
      BY <2>2, Zenon DEF RedisPublish
    <3>2. call[c].do = "publish" /\ Pending(c) = call[c].events
      BY <2>2, Zenon DEF RedisPublish, Pending
    <3>3. /\ call[c].events \in SUBSET StateEvent /\ call[c].node \in Nodes
          /\ \A es \in SUBSET StateEvent : /\ [call[c] EXCEPT !.events = es].do = "publish"
                                           /\ [call[c] EXCEPT !.events = es].events = es
      BY <1>1, <3>2, CallFields, Zenon
    <3>4. Pending(c)' = Pending(c) \ {e}
      <4>1. CASE call[c].events = {e}
        <5>1. call'[c] = Quiet
          BY <1>1, <3>1, <4>1, Zenon
        <5>2. Pending(c)' = {}
          BY <1>1, <5>1, Zenon DEF Pending
        <5>3. QED
          BY <3>2, <4>1, <5>2, Zenon
      <4>2. CASE call[c].events # {e}
        <5>1. call'[c] = [call[c] EXCEPT !.events = call[c].events \ {e}]
          BY <1>1, <3>1, <4>2, Zenon
        <5>2. call'[c].do = "publish" /\ call'[c].events = call[c].events \ {e}
          <6>1. call[c].events \ {e} \in SUBSET StateEvent
            BY <3>3, Zenon
          <6>2. QED
            BY <3>3, <5>1, <6>1, Zenon
        <5>3. QED
          BY <3>2, <5>2, Zenon DEF Pending
      <4>3. QED
        BY <4>1, <4>2, Zenon
    <3>5. \A d \in Clients \ {c} : Pending(d)' = Pending(d)
      BY <1>1, <3>1, Zenon DEF Pending
    <3>6. {e} \subseteq Pending(c) /\ e \in StateEvent
      BY <3>2, <3>3, Zenon
    <3>7. CASE Lose({e}, Watchers) /\ UNCHANGED feed
      BY <3>4, <3>5, <3>6, <3>7, Zenon
    <3>8. CASE /\ UNCHANGED missed
               /\ feed' = [n \in Subscribed |-> IF isClosed(n) THEN feed[n]
                                ELSE Append(feed[n], [event |-> e, from |-> call[c].node])]
      BY <3>3, <3>4, <3>5, <3>6, <3>8, Zenon
    <3>9. QED
      BY <3>1, <3>7, <3>8, Zenon
  <2>3. QED
    BY <2>1, <2>2, Zenon
<1>4. \A w \in Watchers : missed[w] \subseteq missed'[w]
  BY <1>3, LoseTells, Zenon
<1>5. Untold'
  BY <1>2, Zenon DEF Untold
<1>6. \A w \in watchers' : wst'[w] \notin Fresh
  BY <1>2, Zenon DEF RedisTells
<1>7. \A k \in Keys : \/ last'[k].stamp \in mixed'
                      \/ \A d \in Clients : \A e \in Pending(d)' : e.key = k => e = last'[k]
  <2>1. \A d \in Clients : Pending(d)' \subseteq Pending(d)
    BY <1>3, Zenon
  <2>2. QED
    BY <1>2, <2>1, Zenon DEF RedisTells
<1>8. ASSUME NEW w \in Watchers, NEW k \in Keys, Waits(w)' PROVE Coming(w, k)'
  <2> DEFINE n == HostOf[w]
  <2>1. Coming(w, k) /\ n \in Subscribed /\ ~isClosed(n)
    BY <1>2, <1>8, Zenon DEF RedisTells, Waits, isClosed, Subscribed
  <2>2. CASE Excused(w, k)
    BY <1>2, <1>4, <2>2, Zenon DEF Excused, Coming
  <2>3. CASE ~Excused(w, k) /\ \E e \in gone : e.key = k
    <3>1. PICK e \in gone : e.key = k
      BY <2>3, Zenon
    <3>2. e = last[k]
      BY <1>3, <2>3, <3>1, Zenon DEF RedisTells, Excused
    <3>3. CASE Lose(gone, Watchers)
      BY <1>2, <3>1, <3>2, <3>3, LoseTells, Zenon DEF Coming, Excused
    <3>4. CASE ~Lose(gone, Watchers)
      <4>1. /\ feed'[n] = Append(feed[n], [event |-> e, from |-> call[c].node])
            /\ call[c].node \in Nodes /\ e \in StateEvent
        BY <1>3, <2>1, <3>1, <3>4, Zenon
      <4>2. feed[n] \in Seq(Message) /\ [event |-> e, from |-> call[c].node] \in Message
        BY <2>1, <4>1, Zenon DEF RedisTypeOK, Message
      <4>3. Finally(feed'[n], k, last'[k])
        <5>1. [event |-> e, from |-> call[c].node].event = e
          BY Zenon
        <5>2. QED
          BY <1>2, <3>1, <3>2, <4>1, <4>2, <5>1, AppendTells, Zenon
      <4>4. QED
        BY <4>3, Zenon DEF Coming
    <3>5. QED
      BY <3>3, <3>4, Zenon
  <2>4. CASE \A e \in gone : e.key # k
    <3>1. ToPublish(k) => ToPublish(k)'
      BY <1>3, <2>4, Zenon DEF ToPublish
    <3>2. CASE UNCHANGED feed
      BY <1>2, <1>4, <2>1, <3>1, <3>2, ComingKept, Zenon
    <3>3. CASE \E e : /\ gone = {e} /\ UNCHANGED missed /\ call[c].node \in Nodes
                      /\ e \in StateEvent
                      /\ feed' = [m \in Subscribed |-> IF isClosed(m) THEN feed[m]
                           ELSE Append(feed[m], [event |-> e, from |-> call[c].node])]
      <4>1. PICK e \in gone : /\ feed'[n] = Append(feed[n], [event |-> e, from |-> call[c].node])
                              /\ call[c].node \in Nodes /\ e \in StateEvent
        BY <2>1, <3>3, Zenon
      <4>2. feed[n] \in Seq(Message) /\ [event |-> e, from |-> call[c].node] \in Message
        BY <2>1, <4>1, Zenon DEF RedisTypeOK, Message
      <4>3. [event |-> e, from |-> call[c].node].event.key # k
        BY <2>4, Zenon
      <4>4. /\ Finally(feed[n], k, last[k]) => Finally(feed'[n], k, last[k])
            /\ Silent(feed[n], k) => Silent(feed'[n], k)
        BY <4>1, <4>2, <4>3, AppendTells, Zenon
      <4>5. QED
        BY <1>2, <1>4, <2>1, <3>1, <4>4, Zenon DEF Coming, Excused, UpToDate, Handling
    <3>4. QED
      BY <1>3, <3>2, <3>3, Zenon
  <2>5. QED
    BY <2>2, <2>3, <2>4, Zenon
<1>9. QED
  BY <1>2, <1>5, <1>6, <1>7, <1>8, Zenon DEF RedisTells

\* A subscription breaks, or a monitor receives or drops a message.
LEMMA FeedTells ==
  ASSUME RedisTypeOK, kind = "redis", Untold, RedisTells, NEW n \in Subscribed,
         RedisFeedLost(n) \/ RedisMonitor(n) \/ RedisNotifyCheck(n)
  PROVE  Untold' /\ RedisTells'
<1>1. /\ feed \in [Subscribed -> Seq(Message)] /\ monitor \in [Subscribed -> Monitors]
      /\ \A w \in Watchers : HostOf[w] \in Subscribed
  BY Zenon DEF RedisTypeOK, Message, Subscribed
<1>2. /\ UNCHANGED <<kind, wst, last, mixed, told, call, watchers, phase>>
      /\ \A m \in Subscribed \ {n} : feed'[m] = feed[m] /\ monitor'[m] = monitor[m]
  BY <1>1, Zenon DEF RedisFeedLost, RedisMonitor, RedisNotifyCheck, sharedVars,
     historyVars
<1>3. \A w \in Watchers : missed[w] \subseteq missed'[w]
  BY LoseTells, Zenon DEF RedisFeedLost, RedisMonitor, RedisNotifyCheck, sharedVars,
     historyVars
<1>4. Untold'
  BY <1>2, Zenon DEF Untold
<1>5. /\ \A w \in watchers' : wst'[w] \notin Fresh
      /\ \A c : Pending(c)' = Pending(c)
  BY <1>2, Zenon DEF RedisTells, Pending
<1>6. \A k \in Keys : \/ last'[k].stamp \in mixed'
                      \/ \A d \in Clients : \A e \in Pending(d)' : e.key = k => e = last'[k]
  BY <1>2, <1>5, Zenon DEF RedisTells
<1>7. ASSUME NEW w \in Watchers, NEW k \in Keys, Waits(w)' PROVE Coming(w, k)'
  <2>1. Coming(w, k) /\ ~isClosed(HostOf[w])
    BY <1>2, <1>7, Zenon DEF RedisTells, Waits, isClosed
  <2>2. ToPublish(k) => ToPublish(k)'
    BY <1>5, Zenon DEF ToPublish
  <2>3. CASE HostOf[w] # n
    <3>1. feed'[HostOf[w]] = feed[HostOf[w]] /\ monitor'[HostOf[w]] = monitor[HostOf[w]]
      BY <1>1, <1>2, <2>3, Zenon
    <3>2. QED
      BY <1>2, <1>3, <2>1, <2>2, <3>1, ComingKept, Zenon
  <2>4. CASE HostOf[w] = n /\ (Excused(w, k) \/ ToPublish(k))
    BY <1>2, <1>3, <2>2, <2>4, Zenon DEF Coming, Excused
  <2>5. CASE HostOf[w] = n /\ ~(Excused(w, k) \/ ToPublish(k))
    <3>1. w \in On(n) /\ ~isClosed(n)
      BY <2>1, <2>5, Zenon DEF On
    <3>2. \/ Finally(feed[n], k, last[k])
          \/ /\ Silent(feed[n], k)
             /\ IF Handling(n, k) THEN monitor[n].event = last[k] ELSE UpToDate(w, k)
      BY <2>1, <2>5, Zenon DEF Coming
    <3>3. SUFFICES \/ Excused(w, k)' \/ Finally(feed[n], k, last[k])'
                   \/ /\ Silent(feed[n], k)'
                      /\ IF Handling(n, k)' THEN monitor'[n].event = last'[k] ELSE UpToDate(w, k)'
      BY <2>5, Zenon DEF Coming
    <3>4. CASE RedisFeedLost(n)
      <4>1. feed'[n] = <<>> /\ monitor'[n] = monitor[n]
        BY <1>1, <3>4, Zenon DEF RedisFeedLost
      <4>2. CASE Finally(feed[n], k, last[k])
        <5>1. PICK i \in 1..Len(feed[n]) : feed[n][i].event = last[k]
          BY <4>2, Zenon DEF Finally
        <5>2. last[k] \in {feed[n][j].event : j \in 1..Len(feed[n])}
          BY <5>1, Zenon
        <5>3. last[k].stamp \in missed'[w]
          BY <3>1, <3>4, <5>2, LoseTells, Zenon DEF RedisFeedLost
        <5>4. QED
          BY <1>2, <5>3, Zenon DEF Excused
      <4>3. CASE Silent(feed[n], k) /\ ~Finally(feed[n], k, last[k])
        <5>1. Silent(feed'[n], k)
          BY <4>1, SMT DEF Silent
        <5>2. QED
          BY <1>2, <3>2, <4>1, <4>3, <5>1, Zenon DEF Handling, UpToDate
      <4>4. QED
        BY <3>2, <4>2, <4>3, Zenon
    <3>5. CASE RedisNotifyCheck(n)
      <4>1. /\ monitor[n].do = "check" /\ feed' = feed
            /\ monitor'[n] = [monitor[n] EXCEPT !.do = "send"]
        BY <1>1, <3>1, <3>5, Zenon DEF RedisNotifyCheck
      <4>2. monitor'[n].do = "send" /\ monitor'[n].event = monitor[n].event
        BY <1>1, <4>1, MonitorTypes, Zenon
      <4>3. Handling(n, k)' <=> Handling(n, k)
        BY <4>1, <4>2, Zenon DEF Handling
      <4>4. QED
        BY <1>2, <3>2, <4>1, <4>2, <4>3, Zenon DEF UpToDate
    <3>6. CASE RedisMonitor(n)
      <4> DEFINE msg == Head(feed[n])
      <4>1. /\ monitor[n].do = "wait" /\ feed[n] # <<>> /\ feed'[n] = Tail(feed[n])
            /\ \/ Lose({msg.event}, On(n)) /\ UNCHANGED monitor
               \/ monitor'[n].do = "check" /\ monitor'[n].event = msg.event
        <5>1. \A e : [do |-> "check", event |-> e].do = "check" /\ [do |-> "check", event |-> e].event = e
          BY Zenon
        <5>2. /\ monitor[n].do = "wait" /\ feed[n] # <<>> /\ feed'[n] = Tail(feed[n])
              /\ \/ Lose({msg.event}, On(n)) /\ UNCHANGED monitor
                 \/ monitor'[n] = [do |-> "check", event |-> msg.event]
          BY <1>1, <3>1, <3>6, Zenon DEF RedisMonitor
        <5>3. QED
          BY <5>1, <5>2, Zenon
      <4>2. ~Handling(n, k) /\ feed[n] \in Seq(Message)
        BY <1>1, <4>1, Zenon DEF Handling
      <4> HIDE DEF msg
      <4>3. CASE Silent(feed[n], k)
        <5>1. Silent(feed'[n], k) /\ msg.event.key # k
          <6>1. Silent(Tail(feed[n]), k) /\ Head(feed[n]).event.key # k
            BY <4>1, <4>2, <4>3, TailTells, Zenon
          <6>2. QED
            BY <4>1, <6>1, Zenon DEF msg
        <5>2. ~Finally(feed[n], k, last[k])
          BY <4>3, Zenon DEF Finally, Silent
        <5>3. UpToDate(w, k)'
          BY <1>2, <3>2, <4>2, <5>2, Zenon DEF UpToDate
        <5>4. ~Handling(n, k)'
          BY <4>1, <5>1, Zenon DEF Handling
        <5>5. QED
          BY <5>1, <5>3, <5>4, Zenon
      <4>4. CASE Finally(feed[n], k, last[k])
        <5>1. \/ Finally(feed'[n], k, last[k])
              \/ msg.event = last[k] /\ last[k].key = k /\ Silent(feed'[n], k)
          <6>1. \/ Finally(Tail(feed[n]), k, last[k])
                \/ Head(feed[n]).event = last[k] /\ last[k].key = k /\ Silent(Tail(feed[n]), k)
            BY <4>1, <4>2, <4>4, TailTells, Zenon
          <6>2. QED
            BY <4>1, <6>1, Zenon DEF msg
        <5>2. CASE Finally(feed'[n], k, last[k])
          BY <1>2, <5>2, Zenon
        <5>3. CASE msg.event = last[k] /\ last[k].key = k /\ Silent(feed'[n], k)
          <6>1. CASE Lose({msg.event}, On(n))
            BY <1>2, <3>1, <5>3, <6>1, LoseTells, Zenon DEF Excused
          <6>2. CASE monitor'[n].do = "check" /\ monitor'[n].event = msg.event
            <7>1. Handling(n, k)'
              BY <5>3, <6>2, Zenon DEF Handling
            <7>2. QED
              BY <1>2, <5>3, <6>2, <7>1, Zenon
          <6>3. QED
            BY <4>1, <6>1, <6>2, Zenon
        <5>4. QED
          BY <5>1, <5>2, <5>3, Zenon
      <4>5. QED
        BY <3>2, <4>3, <4>4, Zenon
    <3>7. QED
      BY <3>4, <3>5, <3>6, Zenon
  <2>6. QED
    BY <2>3, <2>4, <2>5, Zenon
<1>8. QED
  BY <1>2, <1>4, <1>5, <1>6, <1>7, Zenon DEF RedisTells

\* The sends of the event that a monitor has in hand.
LEMMA SendRedisTells ==
  ASSUME RedisTypeOK, kind = "redis", Untold, RedisTells, NEW n \in Subscribed, RedisNotifySend(n)
  PROVE  Untold' /\ RedisTells'
<1> DEFINE e == monitor[n].event
           reg == watchers \cap On(n)
<1>1. /\ SharedTypeOK /\ monitor \in [Subscribed -> Monitors] /\ watchers \subseteq Watchers
      /\ \A w \in Watchers : HostOf[w] \in Subscribed
  BY Zenon DEF RedisTypeOK, Subscribed
<1>2. /\ monitor[n].do = "send" /\ Broadcast(Listeners(reg, e.key), e)
      /\ monitor' = [monitor EXCEPT ![n] = [do |-> "wait"]]
      /\ UNCHANGED <<kind, wst, last, mixed, feed, call, watchers, phase>>
  BY Zenon DEF RedisNotifySend
<1>3. e \in StateEvent /\ reg \subseteq Watchers /\ \A w \in reg : wst[w] \notin Fresh
  BY <1>1, <1>2, MonitorTypes, Zenon DEF RedisTells
<1>4. /\ Untold'
      /\ \A w \in Watchers : missed[w] \subseteq missed'[w]
      /\ \A w \in Watchers, k \in Keys : k # e.key => told'[w][k] = told[w][k]
      /\ \A w \in reg : told'[w][e.key] \in {0, e.stamp} \/ e.stamp \in missed'[w]
      /\ \A w \in Watchers \ reg : told'[w] = told[w]
  BY <1>1, <1>2, <1>3, BroadcastTells, Zenon
<1>5. /\ \A m \in Subscribed \ {n} : monitor'[m] = monitor[m]
      /\ \A k : ~Handling(n, k)'
  <2>1. [do |-> "wait"].do = "wait"
    BY Zenon
  <2>2. QED
    BY <1>1, <1>2, <2>1, Zenon DEF Handling
<1>6. /\ \A w \in watchers' : wst'[w] \notin Fresh
      /\ \A c : Pending(c)' = Pending(c)
  BY <1>2, Zenon DEF RedisTells, Pending
<1>7. \A k \in Keys : \/ last'[k].stamp \in mixed'
                      \/ \A d \in Clients : \A f \in Pending(d)' : f.key = k => f = last'[k]
  BY <1>2, <1>6, Zenon DEF RedisTells
<1>8. ASSUME NEW w \in Watchers, NEW k \in Keys, Waits(w)' PROVE Coming(w, k)'
  <2>1. Coming(w, k) /\ Waits(w)
    BY <1>2, <1>8, Zenon DEF RedisTells, Waits, isClosed
  <2>2. ToPublish(k) => ToPublish(k)'
    BY <1>6, Zenon DEF ToPublish
  <2>3. CASE HostOf[w] # n
    <3>1. /\ feed'[HostOf[w]] = feed[HostOf[w]] /\ monitor'[HostOf[w]] = monitor[HostOf[w]]
          /\ w \in Watchers \ reg
      BY <1>1, <1>2, <1>5, <2>3, Zenon DEF On
    <3>2. QED
      BY <1>2, <1>4, <2>1, <2>2, <3>1, ComingKept, Zenon
  <2>4. CASE HostOf[w] = n
    <3>1. CASE Excused(w, k) \/ ToPublish(k) \/ Finally(feed[n], k, last[k])
      BY <1>2, <1>4, <2>2, <2>4, <3>1, Zenon DEF Coming, Excused
    <3>2. CASE ~(Excused(w, k) \/ ToPublish(k) \/ Finally(feed[n], k, last[k]))
      <4>1. /\ Silent(feed'[n], k)
            /\ IF Handling(n, k) THEN e = last[k] ELSE UpToDate(w, k)
        BY <1>2, <2>1, <2>4, <3>2, Zenon DEF Coming
      <4>2. CASE e.key = k
        <5>1. e = last[k]
          BY <1>2, <4>1, <4>2, Zenon DEF Handling
        <5>2. CASE w \in watchers
          <6>1. w \in reg
            BY <2>4, <5>2, Zenon DEF On
          <6>2. told'[w][k] \in {0, last[k].stamp} \/ last[k].stamp \in missed'[w]
            BY <1>4, <4>2, <5>1, <6>1, Zenon
          <6>3. UpToDate(w, k)' \/ Excused(w, k)'
            BY <1>2, <6>2, Zenon DEF UpToDate, Excused
          <6>4. QED
            BY <1>5, <2>4, <4>1, <6>3, Zenon DEF Coming
        <5>3. CASE wst[w] \in Fresh
          <6>1. told'[w][k] = 0
            BY <1>2, <1>4, <5>3, Zenon DEF Untold
          <6>2. UpToDate(w, k)'
            BY <6>1, Zenon DEF UpToDate
          <6>3. QED
            BY <1>5, <2>4, <4>1, <6>2, Zenon DEF Coming
        <5>4. QED
          BY <2>1, <5>2, <5>3, Zenon DEF Waits
      <4>3. CASE e.key # k
        <5>1. UpToDate(w, k)
          BY <4>1, <4>3, Zenon DEF Handling
        <5>2. UpToDate(w, k)'
          BY <1>2, <1>4, <4>3, <5>1, Zenon DEF UpToDate
        <5>3. QED
          BY <1>5, <2>4, <4>1, <5>2, Zenon DEF Coming
      <4>4. QED
        BY <4>2, <4>3, Zenon
    <3>3. QED
      BY <3>1, <3>2, Zenon
  <2>5. QED
    BY <2>3, <2>4, Zenon
<1>9. QED
  BY <1>2, <1>4, <1>6, <1>7, <1>8, Zenon DEF RedisTells

\* Every step of Redis storage.
LEMMA RedisKeepsTells ==
  ASSUME RedisTypeOK, Untold, RedisTells, RedisNext
  PROVE  Untold' /\ RedisTells'
<1>1. /\ kind = "redis" /\ DOMAIN wst = Watchers /\ watchers \subseteq Watchers
      /\ \A w \in watchers : wst[w] \notin Fresh
      /\ \A w \in Watchers : HostOf[w] \in Subscribed
      /\ DOMAIN phase = Subscribed
  BY Zenon DEF RedisNext, RedisTypeOK, SharedTypeOK, RedisTells, Subscribed
<1>2. ASSUME UNCHANGED <<kind, last, mixed, told, missed, call, monitor, feed, phase>>,
             \A w \in Watchers : wst'[w] \in Fresh => wst[w] \in Fresh,
             \A w \in watchers' : wst'[w] \notin Fresh,
             \A w \in watchers' : w \in watchers \/ wst[w] \in Fresh
      PROVE  Untold' /\ RedisTells'
  <2>1. \A w \in Watchers : Waits(w)' => Waits(w) /\ feed'[HostOf[w]] = feed[HostOf[w]]
    BY <1>2, Zenon DEF Waits, isClosed
  <2>2. QED
    BY <1>1, <1>2, <2>1, QuietRedisTells, Zenon
<1>3. ASSUME NEW w \in Watchers, RedisWatchCheck(w) PROVE Untold' /\ RedisTells'
  <2>1. /\ wst[w] = "none" /\ wst' = [wst EXCEPT ![w] = "called"] /\ watchers' = watchers
        /\ UNCHANGED <<kind, last, mixed, told, missed, call, monitor, feed, phase>>
    BY <1>3, Zenon DEF RedisWatchCheck, historyVars, redisVars
  <2>2. \A x \in Watchers : wst'[x] \in Fresh <=> wst[x] \in Fresh
    BY <1>1, <2>1, Zenon DEF Fresh
  <2>3. QED
    BY <1>1, <1>2, <2>1, <2>2, Zenon
<1>4. ASSUME NEW w \in Watchers, RedisWatch(w) PROVE Untold' /\ RedisTells'
  <2>1. /\ wst[w] = "called" /\ wst' = [wst EXCEPT ![w] = "on"] /\ watchers' = watchers \cup {w}
        /\ UNCHANGED <<kind, last, mixed, told, missed, call, monitor, feed, phase>>
    BY <1>4, Zenon DEF RedisWatch, historyVars
  <2>2. /\ \A x \in Watchers : wst'[x] \in Fresh => wst[x] \in Fresh
        /\ wst[w] \in Fresh /\ wst'[w] \notin Fresh
    BY <1>1, <2>1, Zenon DEF Fresh
  <2>3. QED
    BY <1>1, <1>2, <2>1, <2>2, Zenon
<1>5. ASSUME NEW w \in Watchers, RedisRemove(w) PROVE Untold' /\ RedisTells'
  <2>1. /\ wst' = [wst EXCEPT ![w] = "off"] /\ watchers' \subseteq watchers
        /\ UNCHANGED <<kind, last, mixed, told, missed, call, monitor, feed, phase>>
    BY <1>5, Zenon DEF RedisRemove, historyVars
  <2>2. \A x \in Watchers : wst'[x] \in Fresh => wst[x] \in Fresh
    BY <1>1, <2>1, Zenon DEF Fresh
  <2>3. QED
    BY <1>1, <1>2, <2>1, <2>2, Zenon
<1>6. ASSUME NEW w \in Watchers, Receive(w), UNCHANGED redisVars PROVE Untold' /\ RedisTells'
  <2>1. UNCHANGED <<kind, last, mixed, told, missed, call, monitor, feed, phase, wst, watchers>>
    BY <1>6, Zenon DEF Receive, historyVars, redisVars
  <2>2. QED
    BY <1>1, <1>2, <2>1, Zenon
<1>7. CASE RedisExpire
  <2>1. UNCHANGED <<kind, last, mixed, told, missed, call, monitor, feed, phase, wst, watchers>>
    BY <1>7, Zenon DEF RedisExpire, sharedVars, historyVars
  <2>2. QED
    BY <1>1, <1>2, <2>1, Zenon
<1>8. ASSUME NEW n \in Subscribed, RedisClose(n) \/ RedisCloseAll(n) PROVE Untold' /\ RedisTells'
  <2>1. /\ UNCHANGED <<kind, last, mixed, told, missed, call, monitor, wst>>
        /\ watchers' \subseteq watchers
        /\ \A m \in Subscribed : phase'[m] = "open" => phase[m] = "open" /\ feed'[m] = feed[m]
    BY <1>1, <1>8, Zenon DEF RedisClose, RedisCloseAll, sharedVars, historyVars
  <2>2. \A w \in Watchers : Waits(w)' => Waits(w) /\ feed'[HostOf[w]] = feed[HostOf[w]]
    BY <1>1, <2>1, Zenon DEF Waits, isClosed
  <2>3. QED
    BY <1>1, <2>1, <2>2, QuietRedisTells, Zenon
<1>9. QED
  BY <1>1, <1>3, <1>4, <1>5, <1>6, <1>7, <1>8, ChangeTells, PublishTells, FeedTells,
     SendRedisTells,
     Zenon DEF RedisNext

-----------------------------------------------------------------------------
\* Raft storage: unless it may be overtaken or was missed, the event of the last command is
\* the only one to be sent for its key; and once it has been sent the watchers know of it.
RaftTells ==
  IF kind = "raft watchers" THEN
    /\ \A w \in fsmChans : wst[w] \notin Fresh
    /\ \A k \in Keys, w \in Watchers : \/ Excused(w, k)
                                       \/ \A e \in notes : e.key = k => e = last[k]
    /\ \A k \in Keys, w \in Watchers : (w \in fsmChans \/ wst[w] \in Fresh) =>
         \/ Excused(w, k) \/ (\E e \in notes : e.key = k) \/ UpToDate(w, k)
  ELSE fsmChans = {}

\* A step that neither applies a command nor sends.
LEMMA QuietRaftTells ==
  ASSUME kind = "raft watchers", Untold, RaftTells,
         UNCHANGED <<kind, last, mixed, told, missed, notes>>,
         \A w \in Watchers : wst'[w] \in Fresh => wst[w] \in Fresh,
         \A w \in fsmChans' : wst'[w] \notin Fresh /\ (w \in fsmChans \/ wst[w] \in Fresh)
  PROVE  Untold' /\ RaftTells'
<1>1. Untold'
  BY Zenon DEF Untold
<1>2. \A w, k : (Excused(w, k)' <=> Excused(w, k)) /\ (UpToDate(w, k)' <=> UpToDate(w, k))
  BY Zenon DEF Excused, UpToDate
<1>3. ASSUME NEW k \in Keys, NEW w \in Watchers
      PROVE  Excused(w, k)' \/ \A e \in notes' : e.key = k => e = last'[k]
  BY <1>2, Zenon DEF RaftTells
<1>4. ASSUME NEW k \in Keys, NEW w \in Watchers, w \in fsmChans' \/ wst'[w] \in Fresh
      PROVE  Excused(w, k)' \/ (\E e \in notes' : e.key = k) \/ UpToDate(w, k)'
  <2>1. w \in fsmChans \/ wst[w] \in Fresh
    BY <1>4, Zenon
  <2>2. QED
    BY <1>2, <2>1, Zenon DEF RaftTells
<1>5. QED
  BY <1>1, <1>3, <1>4, Zenon DEF RaftTells

\* A command: its events are to be sent, and mixed if there was another for one of its keys;
\* a snapshot of the leader is missed by all.
LEMMA CommandTells ==
  ASSUME RaftWatchTypeOK, kind = "raft watchers", Untold, RaftTells, RaftAnnounce \/ RaftRestore
  PROVE  Untold' /\ RaftTells'
<1>1. UNCHANGED <<kind, wst, told, fsmChans>>
  BY Zenon DEF RaftAnnounce, RaftRestore, raftWatchVars
<1>2. PICK type \in {"set", "delete"}, keys \in SUBSET Keys :
        /\ Command(type, keys)
        /\ \/ /\ notes' = notes \cup {last'[k] : k \in keys} /\ missed' = missed
              /\ mixed' = mixed \cup {writes' : e \in {f \in notes : f.key \in keys}}
           \/ /\ missed' = [w \in Watchers |-> missed[w] \cup {writes'}]
              /\ UNCHANGED <<mixed, notes>>
  <2>1. CASE RaftAnnounce
    BY <2>1, Zenon DEF RaftAnnounce
  <2>2. CASE RaftRestore
    BY <2>2, Zenon DEF RaftRestore, raftWatchVars
  <2>3. QED
    BY <2>1, <2>2, Zenon
<1>3. /\ \A k \in keys : last'[k] = [key |-> k, type |-> type, stamp |-> writes']
      /\ \A k \in Keys \ keys : last'[k] = last[k]
  BY <1>2, Zenon DEF Command
<1>4. ASSUME NEW k \in keys PROVE last'[k].key = k /\ last'[k].stamp = writes'
  <2>1. last'[k] = [key |-> k, type |-> type, stamp |-> writes']
    BY <1>3, Zenon
  <2>2. last'[k].key = [key |-> k, type |-> type, stamp |-> writes'].key
    BY <2>1, Zenon
  <2>3. last'[k].stamp = [key |-> k, type |-> type, stamp |-> writes'].stamp
    BY <2>1, Zenon
  <2>4. QED
    BY <2>2, <2>3, Zenon
<1>5. mixed \subseteq mixed' /\ \A w \in Watchers : missed[w] \subseteq missed'[w]
  BY <1>2, Zenon
<1>6. \A k \in Keys \ keys, w \in Watchers : /\ Excused(w, k) => Excused(w, k)'
                                             /\ UpToDate(w, k) => UpToDate(w, k)'
  BY <1>1, <1>3, <1>5, Zenon DEF Excused, UpToDate
<1>7. ASSUME NEW k \in keys, NEW w \in Watchers
      PROVE  \/ Excused(w, k)'
             \/ (\E e \in notes' : e.key = k) /\ \A e \in notes' : e.key = k => e = last'[k]
  <2>1. CASE missed' = [x \in Watchers |-> missed[x] \cup {writes'}]
    BY <1>4, <2>1, Zenon DEF Excused
  <2>2. CASE /\ notes' = notes \cup {last'[j] : j \in keys}
             /\ mixed' = mixed \cup {writes' : e \in {f \in notes : f.key \in keys}}
    <3>1. CASE \E f \in notes : f.key \in keys
      <4>1. writes' \in mixed'
        BY <2>2, <3>1, Zenon
      <4>2. QED
        BY <1>4, <4>1, Zenon DEF Excused
    <3>2. CASE \A f \in notes : f.key \notin keys
      <4>1. ASSUME NEW e \in notes', e.key = k PROVE e = last'[k]
        <5>1. PICK j \in keys : e = last'[j]
          BY <2>2, <3>2, <4>1, Zenon
        <5>2. j = k
          BY <1>4, <4>1, <5>1, Zenon
        <5>3. QED
          BY <5>1, <5>2, Zenon
      <4>2. last'[k] \in notes' /\ last'[k].key = k
        BY <1>4, <2>2, Zenon
      <4>3. QED
        BY <4>1, <4>2, Zenon
    <3>3. QED
      BY <3>1, <3>2, Zenon
  <2>3. QED
    BY <1>2, <2>1, <2>2, Zenon
<1>8. notes \subseteq notes' /\ \A k \in Keys \ keys, e \in notes' : e.key = k => e \in notes
  <2>1. notes' \subseteq notes \cup {last'[k] : k \in keys} /\ notes \subseteq notes'
    BY <1>2, Zenon
  <2>2. ASSUME NEW k \in Keys \ keys, NEW e \in notes', e.key = k PROVE e \in notes
    <3>1. ASSUME NEW j \in keys PROVE e # last'[j]
      BY <1>4, <2>2, Zenon
    <3>2. QED
      BY <2>1, <3>1, Zenon
  <2>3. QED
    BY <2>1, <2>2, Zenon
<1>9. Untold'
  BY <1>1, Zenon DEF Untold
<1>10. ASSUME NEW k \in Keys, NEW w \in Watchers
       PROVE  Excused(w, k)' \/ \A e \in notes' : e.key = k => e = last'[k]
  BY <1>3, <1>6, <1>7, <1>8, Zenon DEF RaftTells
<1>11. ASSUME NEW k \in Keys, NEW w \in Watchers, w \in fsmChans' \/ wst'[w] \in Fresh
       PROVE  Excused(w, k)' \/ (\E e \in notes' : e.key = k) \/ UpToDate(w, k)'
  BY <1>1, <1>6, <1>7, <1>8, <1>11, Zenon DEF RaftTells
<1>12. \A w \in fsmChans' : wst'[w] \notin Fresh
  BY <1>1, Zenon DEF RaftTells
<1>13. QED
  BY <1>1, <1>9, <1>10, <1>11, <1>12, Zenon DEF RaftTells

\* A goroutine sends its event.
LEMMA NotifyRaftTells ==
  ASSUME RaftWatchTypeOK, kind = "raft watchers", Untold, RaftTells, RaftNotify
  PROVE  Untold' /\ RaftTells'
<1>1. SharedTypeOK /\ notes \subseteq StateEvent /\ fsmChans \subseteq Watchers
  BY Zenon DEF RaftWatchTypeOK
<1>2. PICK e \in notes : Broadcast(Listeners(fsmChans, e.key), e) /\ notes' = notes \ {e}
  BY Zenon DEF RaftNotify
<1>3. UNCHANGED <<kind, wst, last, mixed, fsmChans>>
  BY Zenon DEF RaftNotify
<1>4. /\ Untold'
      /\ \A w \in Watchers : missed[w] \subseteq missed'[w]
      /\ \A w \in Watchers, k \in Keys : k # e.key => told'[w][k] = told[w][k]
      /\ \A w \in fsmChans : told'[w][e.key] \in {0, e.stamp} \/ e.stamp \in missed'[w]
  <2>1. e \in StateEvent /\ \A w \in fsmChans : wst[w] \notin Fresh
    BY <1>1, Zenon DEF RaftTells
  <2>2. QED
    BY <1>1, <1>2, <1>3, <2>1, BroadcastTells, Zenon
<1>5. \A k \in Keys, w \in Watchers : Excused(w, k) => Excused(w, k)'
  BY <1>3, <1>4, Zenon DEF Excused
<1>6. ASSUME NEW k \in Keys, NEW w \in Watchers
      PROVE  Excused(w, k)' \/ \A f \in notes' : f.key = k => f = last'[k]
  BY <1>2, <1>3, <1>5, Zenon DEF RaftTells
<1>7. ASSUME NEW k \in Keys, NEW w \in Watchers, w \in fsmChans' \/ wst'[w] \in Fresh
      PROVE  Excused(w, k)' \/ (\E f \in notes' : f.key = k) \/ UpToDate(w, k)'
  <2>1. Excused(w, k) \/ (\E f \in notes : f.key = k) \/ UpToDate(w, k)
    BY <1>3, <1>7, Zenon DEF RaftTells
  <2>2. CASE Excused(w, k)
    BY <1>5, <2>2, Zenon
  <2>3. CASE ~Excused(w, k) /\ e.key = k
    <3>1. e = last[k]
      BY <2>3, Zenon DEF RaftTells
    <3>2. CASE w \in fsmChans
      <4>1. told'[w][k] \in {0, last[k].stamp} \/ last[k].stamp \in missed'[w]
        BY <1>4, <2>3, <3>1, <3>2, Zenon
      <4>2. QED
        BY <1>3, <4>1, Zenon DEF UpToDate, Excused
    <3>3. CASE wst'[w] \in Fresh
      BY <1>4, <3>3, Zenon DEF Untold, UpToDate
    <3>4. QED
      BY <1>3, <1>7, <3>2, <3>3, Zenon
  <2>4. CASE e.key # k
    <3>1. UpToDate(w, k) => UpToDate(w, k)'
      BY <1>3, <1>4, <2>4, Zenon DEF UpToDate
    <3>2. QED
      BY <1>2, <1>5, <2>1, <2>4, <3>1, Zenon
  <2>5. QED
    BY <2>2, <2>3, <2>4, Zenon
<1>8. QED
  BY <1>3, <1>4, <1>6, <1>7, Zenon DEF RaftTells

\* Every step of the watchers of Raft storage.
LEMMA RaftKeepsTells ==
  ASSUME RaftWatchTypeOK, Untold, RaftTells, RaftWatchNext
  PROVE  Untold' /\ RaftTells'
<1>1. /\ kind = "raft watchers" /\ DOMAIN wst = Watchers /\ fsmChans \subseteq Watchers
      /\ \A w \in fsmChans : wst[w] \notin Fresh
  BY Zenon DEF RaftWatchNext, RaftWatchTypeOK, SharedTypeOK, RaftTells
<1>2. ASSUME NEW w \in Watchers, RaftWatchCheck(w) \/ RaftWatch(w) PROVE Untold' /\ RaftTells'
  <2>1. /\ wst[w] \in {"none", "called"} /\ wst'[w] \in {"called", "half"}
        /\ \A x \in Watchers \ {w} : wst'[x] = wst[x]
        /\ UNCHANGED <<kind, last, mixed, told, missed, notes, fsmChans>>
    BY <1>1, <1>2, Zenon DEF RaftWatchCheck, RaftWatch, WatchStep, historyVars,
       raftWatchVars
  <2>2. \A x \in Watchers : wst'[x] \in Fresh <=> wst[x] \in Fresh
    BY <2>1, Zenon DEF Fresh
  <2>3. QED
    BY <1>1, <2>1, <2>2, QuietRaftTells, Zenon
<1>3. ASSUME NEW w \in Watchers, addWatcher(w) PROVE Untold' /\ RaftTells'
  <2>1. /\ wst[w] = "half" /\ wst' = [wst EXCEPT ![w] = "on"] /\ fsmChans' = fsmChans \cup {w}
        /\ UNCHANGED <<kind, last, mixed, told, missed, notes>>
    BY <1>3, Zenon DEF addWatcher, WatchStep, historyVars
  <2>2. /\ \A x \in Watchers : wst'[x] \in Fresh => wst[x] \in Fresh
        /\ wst[w] \in Fresh /\ wst'[w] \notin Fresh
    BY <1>1, <2>1, Zenon DEF Fresh
  <2>3. QED
    BY <1>1, <2>1, <2>2, QuietRaftTells, Zenon
<1>4. ASSUME NEW w \in Watchers, RaftRemove(w) \/ removeWatcher(w) \/ RaftEndWatcher(w)
      PROVE  Untold' /\ RaftTells'
  <2>1. /\ wst'[w] \in {"cut", "cut2", "off"} /\ \A x \in Watchers \ {w} : wst'[x] = wst[x]
        /\ fsmChans' \subseteq fsmChans
        /\ UNCHANGED <<kind, last, mixed, told, missed, notes>>
    BY <1>1, <1>4, Zenon DEF RaftRemove, removeWatcher, RaftEndWatcher, WatchStep,
       historyVars
  <2>2. \A x \in Watchers : wst'[x] \in Fresh => wst[x] \in Fresh
    BY <2>1, Zenon DEF Fresh
  <2>3. QED
    BY <1>1, <2>1, <2>2, QuietRaftTells, Zenon
<1>5. ASSUME UNCHANGED <<kind, last, mixed, told, missed, notes, wst>>, fsmChans' \subseteq fsmChans
      PROVE  Untold' /\ RaftTells'
  BY <1>1, <1>5, QuietRaftTells, Zenon
<1>6. CASE RaftClose \/ RaftCloseAll \/ RaftCloseFSM \/ RaftShutdown
  <2>1. UNCHANGED <<kind, last, mixed, told, missed, notes, wst>> /\ fsmChans' \subseteq fsmChans
    BY <1>6, Zenon DEF RaftClose, RaftCloseAll, RaftCloseFSM, RaftShutdown, sharedVars,
       historyVars
  <2>2. QED
    BY <1>5, <2>1, Zenon
<1>7. ASSUME NEW w \in Watchers, Receive(w), UNCHANGED raftWatchVars PROVE Untold' /\ RaftTells'
  <2>1. UNCHANGED <<kind, last, mixed, told, missed, notes, wst, fsmChans>>
    BY <1>7, Zenon DEF Receive, historyVars, raftWatchVars
  <2>2. QED
    BY <1>5, <2>1, Zenon
<1>8. QED
  BY <1>1, <1>2, <1>3, <1>4, <1>6, <1>7, CommandTells, NotifyRaftTells, Zenon
     DEF RaftWatchNext

-----------------------------------------------------------------------------
\* What implies LastEventTells and is preserved by every step.
TellsInv == Untold /\ LocalTells /\ RedisTells /\ RaftTells

\* Whichever storage is used, the last event that a watcher of Local-, Redis- or RaftStorage
\* was sent for a key is that of the last change of the key once none is on its way, but for
\* what the storage is stated to lose or to send out of order: whatever the number of
\* clients, keys, nodes and watchers, and whatever a channel holds.
THEOREM WatchersAreTold == StorageSpec => []LastEventTells
<1>1. NewStateStorage => TellsInv
  <2> SUFFICES ASSUME NewStateStorage PROVE TellsInv
    OBVIOUS
  <2>1. Untold
    BY Zenon DEF NewStateStorage, SharedInit, Untold
  <2>2. watches = {} /\ LocalTells
    <3>1. watches = {} /\ closing = "open" /\ \A c \in Clients : op[c] = Idle
      BY Zenon DEF NewStateStorage, LocalInit
    <3>2. Idle.do = "idle"
      BY Zenon DEF Idle
    <3>3. \A c \in Clients : \A k : ~InFlight(c, k)
      BY <3>1, <3>2, Zenon DEF InFlight
    <3>4. QED
      BY <3>1, <3>3, Zenon DEF LocalTells
  <2>3. RedisTells
    <3>1. /\ watchers = {} /\ feed = [n \in Subscribed |-> <<>>]
          /\ \A n \in Subscribed : monitor[n] = [do |-> "wait"]
          /\ \A c \in Clients : call[c] = Quiet
      BY Zenon DEF NewStateStorage, RedisInit
    <3>2. Quiet.do = "quiet" /\ [do |-> "wait"].do = "wait"
      BY Zenon DEF Quiet
    <3>3. \A c \in Clients : Pending(c) = {}
      BY <3>1, <3>2, Zenon DEF Pending
    <3>4. ASSUME NEW w \in Watchers, NEW k \in Keys PROVE Coming(w, k)
      <4>1. HostOf[w] \in Subscribed
        BY Zenon DEF Subscribed
      <4>2. feed[HostOf[w]] = <<>> /\ ~Handling(HostOf[w], k)
        BY <3>1, <3>2, <4>1, Zenon DEF Handling
      <4>3. Silent(<<>>, k)
        BY SMT DEF Silent
      <4>4. UpToDate(w, k)
        BY Zenon DEF UpToDate, NewStateStorage, SharedInit
      <4>5. QED
        BY <4>2, <4>3, <4>4, Zenon DEF Coming
    <3>5. QED
      BY <3>1, <3>3, <3>4, Zenon DEF RedisTells
  <2>4. RaftTells
    BY Zenon DEF NewStateStorage, SharedInit, RaftWatchInit, RaftTells, UpToDate
  <2>5. QED
    BY <2>1, <2>2, <2>3, <2>4, Zenon DEF TellsInv
<1>2. StorageTypeOK /\ TellsInv /\ [StorageNext]_storageVars => TellsInv'
  <2> SUFFICES ASSUME StorageTypeOK, TellsInv, [StorageNext]_storageVars PROVE TellsInv'
    OBVIOUS
  <2>1. ASSUME kind' = kind, kind # "local", UNCHANGED localVars PROVE LocalTells'
    BY <2>1, Zenon DEF TellsInv, LocalTells, localVars
  <2>2. ASSUME kind' = kind, kind # "redis", UNCHANGED redisVars PROVE RedisTells'
    BY <2>2, Zenon DEF TellsInv, RedisTells, redisVars
  <2>3. ASSUME kind' = kind, kind # "raft watchers", UNCHANGED raftWatchVars PROVE RaftTells'
    BY <2>3, Zenon DEF TellsInv, RaftTells, raftWatchVars
  <2>4. StorageNext => kind' = kind
    BY KindKept, Zenon DEF GoesOn
  <2>5. CASE LocalNext /\ UNCHANGED <<redisVars, raftVars, raftWatchVars>>
    <3>1. kind = "local" /\ StorageNext
      BY <2>5, Zenon DEF LocalNext, StorageNext
    <3>2. Untold' /\ LocalTells'
      BY <2>5, LocalKeepsTells, Zenon DEF TellsInv, StorageTypeOK
    <3>3. QED
      BY <2>2, <2>3, <2>4, <2>5, <3>1, <3>2, Zenon DEF TellsInv
  <2>6. CASE RedisNext /\ UNCHANGED <<localVars, raftVars, raftWatchVars>>
    <3>1. kind = "redis" /\ StorageNext
      BY <2>6, Zenon DEF RedisNext, StorageNext
    <3>2. Untold' /\ RedisTells'
      BY <2>6, RedisKeepsTells, Zenon DEF TellsInv, StorageTypeOK
    <3>3. QED
      BY <2>1, <2>3, <2>4, <2>6, <3>1, <3>2, Zenon DEF TellsInv
  <2>7. CASE RaftNext /\ UNCHANGED <<localVars, redisVars, raftWatchVars>>
    <3>1. kind = "raft" /\ StorageNext
      BY <2>7, Zenon DEF RaftNext, StorageNext
    <3>2. UNCHANGED <<told, wst>>
      BY <2>7, Zenon DEF RaftNext, RaftCommit, RaftApply, RaftGet, RaftPurge,
         RaftSnapshot,
         RaftInstall, RaftStop, RaftRestart, TimeToLiveEnds, sharedVars, historyVars
    <3>3. Untold'
      BY <3>2, Zenon DEF TellsInv, Untold
    <3>4. QED
      BY <2>1, <2>2, <2>3, <2>4, <2>7, <3>1, <3>3, Zenon DEF TellsInv
  <2>8. CASE RaftWatchNext /\ UNCHANGED <<localVars, redisVars, raftVars>>
    <3>1. kind = "raft watchers" /\ StorageNext
      BY <2>8, Zenon DEF RaftWatchNext, StorageNext
    <3>2. Untold' /\ RaftTells'
      BY <2>8, RaftKeepsTells, Zenon DEF TellsInv, StorageTypeOK
    <3>3. QED
      BY <2>1, <2>2, <2>4, <2>8, <3>1, <3>2, Zenon DEF TellsInv
  <2>9. CASE UNCHANGED storageVars
    <3>1. UNCHANGED <<kind, last, mixed, told, missed, wst, localVars, redisVars, raftWatchVars>>
      BY <2>9, Zenon DEF storageVars, sharedVars, historyVars
    <3>2. Untold'
      BY <3>1, Zenon DEF TellsInv, Untold
    <3>3. CASE kind = "local"
      <4>1. LocalTells'
        <5>1. UNCHANGED <<watches, late, closing, op>> /\ watches \subseteq Watchers
          BY <3>1, Zenon DEF localVars, StorageTypeOK, LocalTypeOK
        <5>2. \A c, k : /\ InFlight(c, k)' <=> InFlight(c, k)
                        /\ InFlight(c, k) => op'[c].event = op[c].event
          BY <5>1, Zenon DEF InFlight
        <5>3. QED
          BY <3>1, <3>3, <5>1, <5>2, QuietLocalTells, Zenon DEF TellsInv
      <4>2. QED
        BY <2>2, <2>3, <3>1, <3>2, <3>3, <4>1, Zenon DEF TellsInv
    <3>4. CASE kind = "redis"
      <4>1. RedisTells'
        <5>1. UNCHANGED <<call, monitor, feed, watchers, phase>>
          BY <3>1, Zenon DEF redisVars
        <5>2. /\ \A w \in Watchers : Waits(w)' => Waits(w) /\ feed'[HostOf[w]] = feed[HostOf[w]]
              /\ \A w \in watchers' : wst'[w] \notin Fresh
          BY <3>1, <3>4, <5>1, Zenon DEF Waits, isClosed, TellsInv, RedisTells
        <5>3. QED
          BY <3>1, <3>4, <5>1, <5>2, QuietRedisTells, Zenon DEF TellsInv
      <4>2. QED
        BY <2>1, <2>3, <3>1, <3>2, <3>4, <4>1, Zenon DEF TellsInv
    <3>5. CASE kind \notin {"local", "redis"}
      <4>1. RaftTells'
        BY <3>1, Zenon DEF raftWatchVars, TellsInv, RaftTells, Excused, UpToDate
      <4>2. QED
        BY <2>1, <2>2, <3>1, <3>2, <3>5, <4>1, Zenon DEF TellsInv
    <3>6. QED
      BY <3>3, <3>4, <3>5, Zenon
  <2>10. QED
    BY <2>5, <2>6, <2>7, <2>8, <2>9, Zenon DEF StorageNext
<1>3. StorageTypeOK /\ TellsInv => LastEventTells
  <2> SUFFICES ASSUME StorageTypeOK, TellsInv PROVE LastEventTells
    OBVIOUS
  <2>1. \A w, k : Excused(w, k) \/ UpToDate(w, k) => Knows(w, k, last[k].stamp)
    BY Zenon DEF Excused, UpToDate, Knows
  <2>2. LocalLastEventTells
    BY <2>1, Zenon DEF TellsInv, LocalTells, LocalLastEventTells
  <2>3. ASSUME NEW w \in watchers, NEW k \in Keys, ~isClosed(HostOf[w]), ~OnTheWay(HostOf[w], k)
        PROVE  Knows(w, k, last[k].stamp)
    <3>1. Coming(w, k)
      BY <2>3, Zenon DEF TellsInv, RedisTells, Waits, StorageTypeOK, RedisTypeOK
    <3>2. ~ToPublish(k) /\ ~Handling(HostOf[w], k)
      BY <2>3, Zenon DEF OnTheWay, ToPublish, Pending, Unpublished, Handling
    <3>3. ~Finally(feed[HostOf[w]], k, last[k])
      BY <2>3, Zenon DEF OnTheWay, Finally
    <3>4. QED
      BY <2>1, <3>1, <3>2, <3>3, Zenon DEF Coming
  <2>4. ASSUME NEW w \in fsmChans, NEW k \in Keys, \A e \in notes : e.key # k
        PROVE  Knows(w, k, last[k].stamp)
    <3>1. Excused(w, k) \/ UpToDate(w, k)
      BY <2>4, Zenon DEF TellsInv, RaftTells, StorageTypeOK, RaftWatchTypeOK
    <3>2. QED
      BY <2>1, <3>1, Zenon
  <2>5. QED
    BY <2>2, <2>3, <2>4, Zenon DEF LastEventTells, RedisLastEventTells, RaftLastEventTells
<1>4. QED
  BY <1>1, <1>2, <1>3, StorageTypes, PTL DEF StorageSpec
=============================================================================
