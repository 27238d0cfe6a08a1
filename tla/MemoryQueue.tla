----------------------------- MODULE MemoryQueue -----------------------------
(* queue.MemoryQueue: a buffered Go channel, a closed flag behind a lock of  *)
(* its own, and counters behind another.  Enqueue and Dequeue check the flag *)
(* first and use the channel later; Close may come in between.  A send on a  *)
(* closed channel panics; a receive from a closed and empty channel yields   *)
(* nil, which Dequeue counts and then dereferences.                          *)
EXTENDS Naturals, Sequences, FiniteSets

CONSTANTS
  Client,    \* the goroutines that call Enqueue and Dequeue
  Request,   \* the requests
  Nil,       \* the nil request
  maxSize    \* the capacity of the channel

ASSUME QueueAssumption == maxSize \in Nat \ {0} /\ Nil \notin Request

VARIABLES
  queue,       \* the contents of the channel
  closed,      \* the flag, and that the channel is closed
  op,          \* op[t]: where the call of t is
  item,        \* item[t]: the request t sends or has received
  result,      \* result[t]: what the last call of t returned
  cancelled,   \* cancelled[t]: the context of t is done
  enqueuedCount, dequeuedCount, droppedCount

queueVars == <<queue, closed, op, item, result, cancelled,
               enqueuedCount, dequeuedCount, droppedCount>>
counters == <<enqueuedCount, dequeuedCount, droppedCount>>

Results == {"none", "ok", "full", "closed", "cancelled", "timeout", "panic"}

QueueInit ==
  /\ queue = <<>>
  /\ closed = FALSE
  /\ op = [t \in Client |-> "none"]
  /\ item = [t \in Client |-> Nil]
  /\ result = [t \in Client |-> "none"]
  /\ cancelled = [t \in Client |-> FALSE]
  /\ enqueuedCount = 0 /\ dequeuedCount = 0 /\ droppedCount = 0

At(t, label) == op' = [op EXCEPT ![t] = label]

Finish(t, res) == At(t, "none") /\ result' = [result EXCEPT ![t] = res]

\* Both methods begin by looking at closed; the answer may be stale at once.
CallEnqueue(t, req) ==
  /\ op[t] = "none" /\ result[t] # "panic"
  /\ item' = [item EXCEPT ![t] = req]
  /\ \/ closed /\ Finish(t, "closed")
     \/ ~closed /\ At(t, "sending") /\ UNCHANGED result
  /\ UNCHANGED <<queue, closed, cancelled, counters>>

\* Mutant: the channel takes a request when it is full.
SendUnbounded(t) ==
  /\ op[t] = "sending" /\ ~closed
  /\ queue' = Append(queue, item[t])
  /\ At(t, "sent")
  /\ UNCHANGED <<closed, item, result, cancelled, counters>>

\* The send case of the select: ready when there is room, or on a closed channel.
Send(t) ==
  /\ op[t] = "sending"
  /\ \/ /\ ~closed /\ Len(queue) < maxSize
        /\ queue' = Append(queue, item[t])
        /\ At(t, "sent")
        /\ UNCHANGED result
     \/ closed /\ Finish(t, "panic") /\ UNCHANGED queue
  /\ UNCHANGED <<closed, item, cancelled, counters>>

CountEnqueued(t) ==
  /\ op[t] = "sent"
  /\ enqueuedCount' = enqueuedCount + 1
  /\ Finish(t, "ok")
  /\ UNCHANGED <<queue, closed, item, cancelled, dequeuedCount, droppedCount>>

\* The default case: neither the send nor the context is ready.
Drop(t) ==
  /\ op[t] = "sending"
  /\ ~closed /\ Len(queue) >= maxSize /\ ~cancelled[t]
  /\ At(t, "dropping")
  /\ UNCHANGED <<queue, closed, item, result, cancelled, counters>>

CountDropped(t) ==
  /\ op[t] = "dropping"
  /\ droppedCount' = droppedCount + 1
  /\ Finish(t, "full")
  /\ UNCHANGED <<queue, closed, item, cancelled, enqueuedCount, dequeuedCount>>

CallDequeue(t) ==
  /\ op[t] = "none" /\ result[t] # "panic"
  /\ item' = [item EXCEPT ![t] = Nil]
  /\ \/ closed /\ Finish(t, "closed")
     \/ ~closed /\ At(t, "receiving") /\ UNCHANGED result
  /\ UNCHANGED <<queue, closed, cancelled, counters>>

\* The receive case of either select.
Receive(t) ==
  /\ op[t] = "receiving"
  /\ \/ /\ queue # <<>>
        /\ item' = [item EXCEPT ![t] = Head(queue)]
        /\ queue' = Tail(queue)
     \/ queue = <<>> /\ closed /\ UNCHANGED <<queue, item>>
  /\ At(t, "received")
  /\ UNCHANGED <<closed, result, cancelled, counters>>

\* Mutant: one of the two receive cases forgets to count.
CountDequeuedNot(t) ==
  /\ op[t] = "received"
  /\ Finish(t, IF item[t] = Nil THEN "panic" ELSE "ok")
  /\ UNCHANGED <<queue, closed, item, cancelled, counters>>

CountDequeued(t) ==
  /\ op[t] = "received"
  /\ dequeuedCount' = dequeuedCount + 1
  /\ Finish(t, IF item[t] = Nil THEN "panic" ELSE "ok")
  /\ UNCHANGED <<queue, closed, item, cancelled, enqueuedCount, droppedCount>>

\* The other cases: the context is done, or (Dequeue only, whose timer is set
\* by a validated configuration) the timer has fired.
GiveUp(t) ==
  /\ \/ op[t] \in {"sending", "receiving"} /\ cancelled[t] /\ Finish(t, "cancelled")
     \/ op[t] = "receiving" /\ Finish(t, "timeout")
  /\ UNCHANGED <<queue, closed, item, cancelled, counters>>

CloseQueue ==
  /\ ~closed
  /\ closed' = TRUE
  /\ UNCHANGED <<queue, op, item, result, cancelled, counters>>

\* Environment: the client of the gateway goes away.
CancelContext(t) ==
  /\ ~cancelled[t]
  /\ cancelled' = [cancelled EXCEPT ![t] = TRUE]
  /\ UNCHANGED <<queue, closed, op, item, result, counters>>

\* The steps inside a call.
QueueStep(t) ==
  \/ Send(t) \/ CountEnqueued(t) \/ Drop(t) \/ CountDropped(t)
  \/ Receive(t) \/ CountDequeued(t) \/ GiveUp(t)
-----------------------------------------------------------------------------
In(label) == {t \in Client : op[t] = label}

\* The calls of Dequeue that received nil, counted it and panicked.
Phantoms == {t \in Client : op[t] = "none" /\ result[t] = "panic" /\ item[t] = Nil}

NilReceived == {t \in In("received") : item[t] = Nil}

\* The counters account for every request: what Enqueue has counted or is about
\* to count is what Dequeue has counted or is about to, plus what is waiting,
\* whatever happens to the channel; only a panicking Dequeue counts too much.
CountersAccount ==
  enqueuedCount + Cardinality(In("sent")) + Cardinality(NilReceived)
    + Cardinality(Phantoms)
  = dequeuedCount + Cardinality(In("received")) + Len(queue)
=============================================================================
