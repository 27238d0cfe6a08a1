---------------------------- MODULE StateStorage ----------------------------
(***************************************************************************)
(* services/statestorage/factory.go: the gateway keeps its state in local, *)
(* in Redis or in Raft storage, whichever NewStateStorage is asked for.    *)
(* RaftStorage and RaftWatchers share the log and nothing else, so their   *)
(* steps are looked at one module at a time.                               *)
(***************************************************************************)
EXTENDS LocalStorage, RedisStorage, RaftStorage, RaftWatchers

storageVars == <<sharedVars, localVars, redisVars, raftVars, raftWatchVars>>

\* NewStateStorage
NewStateStorage ==
  /\ kind \in {"local", "redis", "raft", "raft watchers"}
  /\ SharedInit /\ LocalInit /\ RedisInit /\ RaftInit /\ RaftWatchInit

StorageNext ==
  \/ LocalNext /\ UNCHANGED <<redisVars, raftVars, raftWatchVars>>
  \/ RedisNext /\ UNCHANGED <<localVars, raftVars, raftWatchVars>>
  \/ RaftNext /\ UNCHANGED <<localVars, redisVars, raftWatchVars>>
  \/ RaftWatchNext /\ UNCHANGED <<localVars, redisVars, raftVars>>

StorageSpec == NewStateStorage /\ [][StorageNext]_storageVars

-----------------------------------------------------------------------------
\* Whichever storage is used, the last event that a watcher was sent for a key is that
\* of the last change of the key, once none is on its way, but for what each storage
\* is stated to lose or to send out of order.
LastEventTells == LocalLastEventTells /\ RedisLastEventTells /\ RaftLastEventTells

\* Whichever storage is used, the channel of a watcher that has ended is closed, so
\* that its reader ends; in Redis and Raft storage unless an event was waiting in it.
EndedWatchersClosed ==
  LocalEndedWatchersClosed /\ RedisEndedWatchersClosed /\ RaftEndedWatchersClosed

\* No goroutine sends on a closed channel or closes one twice: never in Redis storage,
\* in local storage only if Watch was called after Close, and in Raft storage only
\* once Close has begun.
PanicNeedsClose == RedisNoPanic /\ PanicNeedsLateWatch /\ RaftPanicNeedsClose

\* The types of the variables of all the storages.
StorageTypeOK == LocalTypeOK /\ RedisTypeOK /\ RaftTypeOK /\ RaftWatchTypeOK
============================================================================
