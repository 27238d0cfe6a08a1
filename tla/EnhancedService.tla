--------------------------- MODULE EnhancedService ---------------------------
(* proxy.EnhancedService: Forward with its retries, the request queue it     *)
(* falls back on, and Close.  The handler goroutine that the gateway runs    *)
(* for request t is client t of the queue.  The load balancer is what        *)
(* LoadBalancer promises, with one call one step: any healthy backend, or an *)
(* error when there is none or it is closed; and, like the two round robins, *)
(* it may panic when there are several to choose from.                       *)
EXTENDS MemoryQueue

CONSTANTS
  Backend,
  Retries    \* the values of config.Reliability.Retries considered

ASSUME ServiceAssumption ==
  Request = Client /\ IsFiniteSet(Client) /\ Retries \subseteq Nat

VARIABLES
  queueEnabled,   \* config.Reliability.Queue.Enabled
  retries,        \* config.Reliability.Retries: the attempts of one forwarding
  healthy,        \* the backends the load balancer holds as healthy
  serving,        \* how far Close has come
  pc,             \* pc[t]: where Forward is for request t
  stage,          \* stage[t]: who called forwardToBackendDirect
  job,            \* job[t]: the request handler t is forwarding
  attempt,        \* attempt[t]: attempts of this forwarding that failed
  expired,        \* expired[t]: maxWaitTime has passed in processQueuedRequest
  answer,         \* answer[t]: the request whose response Forward returned
  calls           \* history: calls[t] backend requests that handler t has made

flowVars == <<pc, stage, job, attempt, answer, calls>>
env == <<queueEnabled, retries, healthy, serving>>
vars == <<queueVars, env, flowVars, expired>>

Init ==
  /\ QueueInit
  /\ queueEnabled \in BOOLEAN
  /\ retries \in Retries
  /\ healthy = Backend
  /\ serving = "open"
  /\ pc = [t \in Client |-> "new"]
  /\ stage = [t \in Client |-> "only"]
  /\ job = [t \in Client |-> Nil]
  /\ attempt = [t \in Client |-> 0]
  /\ expired = [t \in Client |-> FALSE]
  /\ answer = [t \in Client |-> Nil]
  /\ calls = [t \in Client |-> 0]

Goto(t, label) == pc' = [pc EXCEPT ![t] = label]

\* Forward returns an error.
Fail(t) ==
  /\ Goto(t, "done")
  /\ job' = [job EXCEPT ![t] = Nil]
  /\ UNCHANGED <<stage, attempt, answer, calls>>

\* forwardToBackendDirect(ctx, req) is called from the given place.
StartDirect(t, req, from) ==
  /\ Goto(t, "try")
  /\ stage' = [stage EXCEPT ![t] = from]
  /\ job' = [job EXCEPT ![t] = req]
  /\ attempt' = [attempt EXCEPT ![t] = 0]
  /\ UNCHANGED <<answer, calls>>

\* Forward waits for the lock that Close holds throughout.
Forward(t) ==
  /\ pc[t] = "new"
  /\ \/ serving = "closed" /\ Fail(t)
     \/ serving = "open" /\ ~queueEnabled /\ StartDirect(t, t, "only")
     \/ /\ serving = "open" /\ queueEnabled
        /\ Goto(t, "status") /\ UNCHANGED <<stage, job, attempt, answer, calls>>
  /\ UNCHANGED <<queueVars, env, expired>>

\* The call of Enqueue is begun; QueueStep carries it on.
BeginEnqueue(t, req, label) ==
  /\ CallEnqueue(t, req)
  /\ Goto(t, label)
  /\ job' = [job EXCEPT ![t] = Nil]
  /\ UNCHANGED <<stage, attempt, answer, calls>>

ForwardWithQueue(t) ==
  /\ pc[t] = "status"
  /\ \/ healthy = {} /\ BeginEnqueue(t, t, "enqueueing")
     \/ healthy # {} /\ StartDirect(t, t, "first") /\ UNCHANGED queueVars
  /\ UNCHANGED <<env, expired>>

\* Mutant: the loop runs once more.
TryOnceMore(t) ==
  /\ pc[t] = "try" /\ attempt[t] <= retries
  /\ \/ /\ healthy = {} \/ serving \in {"queue closing", "closed"}
        /\ attempt' = [attempt EXCEPT ![t] = @ + 1]
        /\ UNCHANGED <<pc, calls>>
     \/ /\ healthy # {} /\ serving \in {"open", "stopping"}
        /\ calls' = [calls EXCEPT ![t] = @ + 1]
        /\ Goto(t, "sent")
        /\ UNCHANGED attempt
  /\ UNCHANGED <<queueVars, env, stage, job, expired, answer>>

\* One turn of the retry loop up to sending the request to a backend; before
\* every turn but the first there is a pause that the context may end.  With two
\* backends to choose from, NextBackend may index outside of them and panic:
\* which state it does that in is RoundRobin's and WeightedRoundRobin's matter.
TryBackend(t) ==
  /\ pc[t] = "try" /\ attempt[t] < retries
  /\ \/ attempt[t] > 0 /\ cancelled[t] /\ Goto(t, "failed") /\ UNCHANGED <<attempt, calls>>
     \/ /\ healthy = {} \/ serving \in {"queue closing", "closed"}
        /\ attempt' = [attempt EXCEPT ![t] = @ + 1]
        /\ UNCHANGED <<pc, calls>>
     \/ /\ healthy # {} /\ serving \in {"open", "stopping"}
        /\ calls' = [calls EXCEPT ![t] = @ + 1]
        /\ Goto(t, "sent")
        /\ UNCHANGED attempt
     \/ /\ \E a, b \in healthy : a # b
        /\ serving \in {"open", "stopping"}
        /\ Goto(t, "balancerPanic")
        /\ UNCHANGED <<attempt, calls>>
  /\ UNCHANGED <<queueVars, env, stage, job, expired, answer>>

\* The backend answers below 500.
Respond(t) ==
  /\ pc[t] = "sent"
  /\ Goto(t, "done")
  /\ answer' = [answer EXCEPT ![t] = job[t]]
  /\ job' = [job EXCEPT ![t] = Nil]
  /\ UNCHANGED <<queueVars, env, stage, attempt, expired, calls>>

\* The backend cannot be reached, times out, breaks off or answers 5xx.
AttemptFails(t) ==
  /\ pc[t] = "sent"
  /\ attempt' = [attempt EXCEPT ![t] = @ + 1]
  /\ Goto(t, "try")
  /\ UNCHANGED <<queueVars, env, stage, job, expired, answer, calls>>

\* Mutant: lastErr is not set when no backend could be selected.
GiveUpUnlessSent(t) ==
  /\ pc[t] = "try" /\ attempt[t] = retries
  /\ Goto(t, IF calls[t] = 0 THEN "panicked" ELSE "failed")
  /\ UNCHANGED <<queueVars, env, stage, job, attempt, expired, answer, calls>>

\* The loop ends; the log line dereferences lastErr, nil if it never ran.
GiveUpRetrying(t) ==
  /\ pc[t] = "try" /\ attempt[t] = retries
  /\ Goto(t, IF retries = 0 THEN "panicked" ELSE "failed")
  /\ UNCHANGED <<queueVars, env, stage, job, attempt, expired, answer, calls>>

\* forwardToBackendDirect has failed: what its caller does.  Size() is read
\* here, Enqueue looks at the channel later.
AfterFailure(t) ==
  /\ pc[t] = "failed"
  /\ LET room == Len(queue) < maxSize
     IN \/ stage[t] = "only" /\ Fail(t) /\ UNCHANGED queueVars
        \/ stage[t] = "first" /\ room /\ BeginEnqueue(t, job[t], "enqueueing")
        \/ stage[t] = "first" /\ ~room /\ Fail(t) /\ UNCHANGED queueVars
        \/ /\ stage[t] = "again" /\ room /\ ~expired[t]
           /\ BeginEnqueue(t, job[t], "requeueing")
        \/ /\ stage[t] = "again" /\ (~room \/ expired[t])
           /\ Fail(t) /\ UNCHANGED queueVars
  /\ UNCHANGED <<env, expired>>

Returned(t, label) == pc[t] = label /\ op[t] = "none"

\* Enqueue of the request's own handler has returned.
Enqueued(t) ==
  /\ Returned(t, "enqueueing")
  /\ \/ result[t] = "ok" /\ Goto(t, "waiting") /\ UNCHANGED <<stage, job, attempt, answer, calls>>
     \/ result[t] \notin {"ok", "panic"} /\ Fail(t)
  /\ UNCHANGED <<queueVars, env, expired>>

\* Mutant: the wait for a healthy backend has no deadline.
ProcessWithoutDeadline(t) ==
  /\ pc[t] = "waiting"
  /\ \/ healthy = {} /\ cancelled[t] /\ Fail(t) /\ UNCHANGED queueVars
     \/ /\ healthy # {}
        /\ CallDequeue(t)
        /\ Goto(t, "dequeueing") /\ UNCHANGED <<stage, job, attempt, answer, calls>>
  /\ UNCHANGED <<env, expired>>

\* processQueuedRequest: wait for a healthy backend, then dequeue.
ProcessQueuedRequest(t) ==
  /\ pc[t] = "waiting"
  /\ \/ expired[t] /\ Fail(t) /\ UNCHANGED queueVars
     \/ ~expired[t] /\ healthy = {} /\ cancelled[t] /\ Fail(t) /\ UNCHANGED queueVars
     \/ /\ ~expired[t] /\ healthy # {}
        /\ CallDequeue(t)
        /\ Goto(t, "dequeueing") /\ UNCHANGED <<stage, job, attempt, answer, calls>>
  /\ UNCHANGED <<env, expired>>

\* Mutant: after a timeout the handler forwards its own request directly.
DequeuedOrOwn(t) ==
  /\ Returned(t, "dequeueing")
  /\ \/ result[t] = "ok" /\ StartDirect(t, item[t], "again")
     \/ result[t] = "timeout" /\ StartDirect(t, t, "again")
     \/ result[t] \notin {"ok", "timeout", "panic"} /\ Fail(t)
  /\ UNCHANGED <<queueVars, env, expired>>

\* processFromQueue: the request that comes out of the queue is forwarded.
Dequeued(t) ==
  /\ Returned(t, "dequeueing")
  /\ \/ result[t] = "ok" /\ StartDirect(t, item[t], "again")
     \/ result[t] \notin {"ok", "panic"} /\ Fail(t)
  /\ UNCHANGED <<queueVars, env, expired>>

\* Mutant: the handler waits for another request to forward.
RequeuedAndWait(t) ==
  /\ Returned(t, "requeueing")
  /\ result[t] # "panic"
  /\ Goto(t, "waiting")
  /\ UNCHANGED <<queueVars, env, stage, job, attempt, answer, calls, expired>>

\* handleProcessingFailure has tried to put the request back.
Requeued(t) ==
  /\ Returned(t, "requeueing")
  /\ result[t] # "panic"
  /\ Fail(t)
  /\ UNCHANGED <<queueVars, env, expired>>

\* A panic in the queue unwinds the handler; the HTTP server recovers it.
Unwind(t) ==
  /\ pc[t] \in {"enqueueing", "dequeueing", "requeueing"} /\ Returned(t, pc[t])
  /\ result[t] = "panic"
  /\ Goto(t, "panicked")
  /\ UNCHANGED <<queueVars, env, stage, job, attempt, expired, answer, calls>>

\* maxWaitTime passes since processQueuedRequest began.
Expire(t) ==
  /\ ~expired[t]
  /\ pc[t] \in {"waiting", "dequeueing"} \/ stage[t] = "again"
  /\ expired' = [expired EXCEPT ![t] = TRUE]
  /\ UNCHANGED <<queueVars, env, flowVars>>

\* The health checker's callback changes what the load balancer holds.
BackendStateChange(b) ==
  /\ healthy' = IF b \in healthy THEN healthy \ {b} ELSE healthy \cup {b}
  /\ UNCHANGED <<queueVars, queueEnabled, retries, serving, flowVars, expired>>

\* Close: the closed flag and the health checker, then the balancer, then the queue.
CloseService ==
  /\ \/ serving = "open" /\ serving' = "stopping" /\ UNCHANGED queueVars
     \/ serving = "stopping" /\ serving' = "queue closing" /\ UNCHANGED queueVars
     \/ serving = "queue closing" /\ serving' = "closed"
        /\ IF queueEnabled THEN CloseQueue ELSE UNCHANGED queueVars
  /\ UNCHANGED <<queueEnabled, retries, healthy, flowVars, expired>>

InQueueCall(t) == QueueStep(t) /\ UNCHANGED <<env, flowVars, expired>>

HandlerStep(t) ==
  \/ ForwardWithQueue(t) \/ TryBackend(t)
  \/ GiveUpRetrying(t) \/ AfterFailure(t) \/ Enqueued(t)
  \/ ProcessQueuedRequest(t) \/ Dequeued(t) \/ Requeued(t) \/ Unwind(t)
  \/ InQueueCall(t)

Next ==
  \/ \E t \in Client :
       \/ Forward(t) \/ HandlerStep(t) \/ Respond(t) \/ AttemptFails(t) \/ Expire(t)
       \/ CancelContext(t) /\ UNCHANGED <<env, flowVars, expired>>
  \/ \E b \in Backend : BackendStateChange(b)
  \/ CloseService

Spec == Init /\ [][Next]_vars

\* Goroutines are scheduled and every wait has a timeout: a backend request,
\* the wait in the queue, Dequeue.
FairSpec ==
  /\ Spec
  /\ \A t \in Client : /\ WF_vars(HandlerStep(t))
                       /\ WF_vars(Respond(t) \/ AttemptFails(t))
                       /\ WF_vars(Expire(t))
-----------------------------------------------------------------------------
\* The handlers that have request q in hand: forwarding it, putting it into the
\* queue or just having taken it out.
Holders(q) ==
  {t \in Client : \/ job[t] = q
                  \/ op[t] \in {"sending", "received"} /\ item[t] = q
                  \/ Returned(t, "dequeueing") /\ result[t] = "ok" /\ item[t] = q}

Waiting(q) == {i \in 1 .. Len(queue) : queue[i] = q}

Answered(q) == {t \in Client : answer[t] = q}

\* A request is never in two hands and never answered twice: through direct
\* attempts, the queue, other handlers that dequeue it and re-queueing there is
\* at most one handler forwarding it, one place in the queue that holds it or
\* one caller that was given its response, so its body and headers are never
\* used by two goroutines at once, and nobody forwards it once it is answered.
SingleCustody ==
  \A q \in Request :
    Cardinality(Holders(q)) + Cardinality(Waiting(q)) + Cardinality(Answered(q)) <= 1

\* The handlers that have put their request into the queue and have not been
\* given one yet.
Owed == {t \in Client : \/ pc[t] = "waiting" \/ op[t] = "receiving"
                        \/ pc[t] = "enqueueing" /\ op[t] = "sent"
                        \/ Returned(t, "enqueueing") /\ result[t] = "ok"}

\* Whoever dequeues whose request, there is one in the queue for every handler
\* that waits for one: Dequeue never blocks on an empty queue, also while Close
\* runs, although handlers come and go in any order.
EnoughQueued == Cardinality(Owed) <= Len(queue)

\* One call of Forward makes at most retries backend requests, and twice as
\* many with the queue: once for its own request, once for a dequeued one.
RetryBudget ==
  \A t \in Client : calls[t] <= (IF queueEnabled THEN 2 * retries ELSE retries)

\* Every call of Forward that got past the closed check returns or panics,
\* whatever the backends, the other handlers and Close do: none waits forever.
ForwardReturns ==
  \A t \in Client :
    pc[t] = "status" ~> pc[t] \in {"done", "panicked", "balancerPanic"}

\* Forward returns the response to the request it was called with.
OwnAnswer == \A t \in Client : answer[t] \in {Nil, t}

\* Outside of NextBackend a handler panics only on a queue that Close has closed
\* under it, or because no attempt is configured and the error it reports is nil:
\* with retries > 0, and until the queue is closed, no order of handlers makes
\* Dequeue hand out nil, Enqueue send on a closed channel, or the retry loop end
\* without an error.
PanicsExplained ==
  \A t \in Client : pc[t] = "panicked" => closed \/ retries = 0
=============================================================================
