----------------------- MODULE EnhancedServiceProofs -----------------------
(* EnhancedService.Forward and the memory queue, for any number of handlers, *)
(* any capacity and any number of retries: where a handler is in Forward and *)
(* in the queue, that retries are bounded, where handlers may panic outside  *)
(* of NextBackend, and who has which request.  Then what becomes of the      *)
(* requests that handlers pass each other through the queue: there is one in *)
(* it for every handler that waits for one, its counters add up, and a       *)
(* request is in one place at a time.                                        *)
EXTENDS EnhancedService, FiniteSetTheorems, TLAPS

ServiceTypes ==
  /\ queue \in Seq(Request)
  /\ closed \in BOOLEAN /\ queueEnabled \in BOOLEAN /\ retries \in Nat
  /\ op \in [Client -> {"none", "sending", "sent", "dropping", "receiving", "received"}]
  /\ item \in [Client -> Request \cup {Nil}]
  /\ result \in [Client -> Results]
  /\ pc \in [Client -> {"new", "status", "try", "sent", "failed", "enqueueing", "waiting",
                        "dequeueing", "requeueing", "done", "panicked", "balancerPanic"}]
  /\ stage \in [Client -> {"only", "first", "again"}]
  /\ job \in [Client -> Request \cup {Nil}]
  /\ attempt \in [Client -> Nat] /\ calls \in [Client -> Nat]
  /\ answer \in [Client -> Request \cup {Nil}]

\* Where the call of the queue is while the handler is at a place of Forward,
\* and what the handler has at hand there.
Calling(t) ==
  /\ op[t] \in {"sending", "sent", "dropping"} => pc[t] \in {"enqueueing", "requeueing"}
  /\ op[t] \in {"receiving", "received"} => pc[t] = "dequeueing"
  /\ pc[t] \in {"try", "sent", "failed"} => job[t] # Nil
  /\ job[t] # Nil => pc[t] \in {"try", "sent", "failed", "panicked", "balancerPanic"}
  /\ op[t] = "sending" => item[t] # Nil
  /\ op[t] = "receiving" => item[t] = Nil
  /\ Returned(t, "dequeueing") /\ result[t] = "ok" => item[t] # Nil

\* A panic is the closed queue's, or that of a forwarding without attempts.
Panicking(t) ==
  /\ op[t] = "received" /\ item[t] = Nil => closed
  /\ result[t] = "panic" => closed
  /\ pc[t] = "panicked" => closed \/ retries = 0

Budget == IF queueEnabled THEN 2 * retries ELSE retries

\* How many backend requests the handler can have made at each place.
Spending(t) ==
  /\ calls[t] <= Budget
  /\ pc[t] \in {"new", "status"} => calls[t] = 0
  /\ pc[t] \in {"status", "enqueueing", "waiting", "dequeueing"} => queueEnabled
  /\ pc[t] \in {"enqueueing", "waiting", "dequeueing"} => calls[t] <= retries
  /\ stage[t] \in {"first", "again"} => queueEnabled
  /\ pc[t] = "failed" /\ stage[t] # "again" => calls[t] <= retries
  /\ pc[t] \in {"try", "sent"} =>
       LET made == attempt[t] + (IF pc[t] = "sent" THEN 1 ELSE 0)
       IN /\ made <= retries
          /\ calls[t] <= made + (IF stage[t] = "again" THEN retries ELSE 0)

ServiceInv ==
  /\ ServiceTypes
  /\ \A t \in Client : Calling(t) /\ Panicking(t) /\ Spending(t)

\* A step of handler t: nothing of another handler changes, the queue stays
\* closed once it is, and the configuration is fixed.
Undisturbed(s) ==
  /\ op'[s] = op[s] /\ item'[s] = item[s] /\ result'[s] = result[s]
  /\ pc'[s] = pc[s] /\ stage'[s] = stage[s] /\ job'[s] = job[s]
  /\ attempt'[s] = attempt[s] /\ calls'[s] = calls[s]

Moves(t) ==
  /\ ServiceTypes'
  /\ queueEnabled' = queueEnabled /\ retries' = retries /\ (closed => closed')
  /\ \A s \in Client : s # t => Undisturbed(s)

\* What a handler has to keep is about itself, and closed and queueEnabled
\* change in no way that matters to it.
LEMMA MoveKeeps ==
  ASSUME ServiceInv, NEW t \in Client, Moves(t),
         Calling(t)', Panicking(t)', Spending(t)'
  PROVE  ServiceInv'
<1>1. ASSUME NEW s \in Client, Undisturbed(s), closed => closed',
             queueEnabled' = queueEnabled, retries' = retries
      PROVE  Calling(s)' /\ Panicking(s)' /\ Spending(s)'
  <2>1. Calling(s) /\ Panicking(s) /\ Spending(s)
    BY Zenon DEF ServiceInv
  <2>2. Calling(s)'
    BY <1>1, <2>1, Zenon DEF Undisturbed, Calling, Returned
  <2>3. Panicking(s)'
    BY <1>1, <2>1, Zenon DEF Undisturbed, Panicking
  <2>4. Spending(s)'
    BY <1>1, <2>1, Zenon DEF Undisturbed, Spending, Budget
  <2>5. QED
    BY <2>2, <2>3, <2>4, Zenon
<1>2. \A s \in Client : Calling(s)' /\ Panicking(s)' /\ Spending(s)'
  BY <1>1, Zenon DEF Moves
<1>3. QED
  BY <1>2, Zenon DEF Moves, ServiceInv

\* Forward returns an error: possible wherever the handler holds no call.
LEMMA FailKeeps ==
  ASSUME ServiceInv, NEW t \in Client, op[t] = "none", Fail(t), UNCHANGED <<queueVars, env>>
  PROVE  ServiceInv' /\ Moves(t)
<1>1. /\ ServiceTypes /\ Calling(t) /\ Panicking(t) /\ Spending(t)
      /\ pc' = [pc EXCEPT ![t] = "done"] /\ job' = [job EXCEPT ![t] = Nil]
      /\ UNCHANGED <<stage, attempt, answer, calls, queue, closed, op, item, result, queueEnabled, retries>>
  BY Zenon DEF ServiceInv, Fail, Goto, queueVars, env
<1>2. Moves(t)
  BY <1>1, Zenon DEF Moves, ServiceTypes, Undisturbed
<1>3. Calling(t)' /\ Panicking(t)'
  BY <1>1, Zenon DEF ServiceTypes, Calling, Panicking, Returned
<1>4. Spending(t)'
  BY <1>1, Zenon DEF ServiceTypes, Spending, Budget
<1>5. QED
  BY <1>2, <1>3, <1>4, MoveKeeps, Zenon

\* forwardToBackendDirect begins, for a handler's own or a dequeued request.
LEMMA DirectKeeps ==
  ASSUME ServiceInv, NEW t \in Client, op[t] = "none", NEW req \in Request,
         NEW from \in {"only", "first", "again"},
         StartDirect(t, req, from), UNCHANGED <<queueVars, env>>,
         calls[t] <= IF from = "again" THEN retries ELSE 0,
         from # "only" => queueEnabled
  PROVE  ServiceInv' /\ Moves(t)
<1>1. /\ ServiceTypes /\ Calling(t) /\ Panicking(t) /\ Spending(t)
      /\ pc' = [pc EXCEPT ![t] = "try"] /\ job' = [job EXCEPT ![t] = req]
      /\ stage' = [stage EXCEPT ![t] = from] /\ attempt' = [attempt EXCEPT ![t] = 0]
      /\ UNCHANGED <<answer, calls, queue, closed, op, item, result, queueEnabled, retries>>
  BY Zenon DEF ServiceInv, StartDirect, Goto, queueVars, env
<1>2. Moves(t)
  BY <1>1, Zenon DEF Moves, ServiceTypes, Undisturbed
<1>3. Calling(t)' /\ Panicking(t)'
  BY <1>1, QueueAssumption, Zenon DEF ServiceTypes, Calling, Panicking, Returned
<1>4. Spending(t)'
  BY <1>1, ServiceAssumption DEF ServiceTypes, Spending, Budget
<1>5. QED
  BY <1>2, <1>3, <1>4, MoveKeeps, Zenon

\* Enqueue is called, for a request that could not be forwarded or not yet.
LEMMA BeginEnqueueKeeps ==
  ASSUME ServiceInv, NEW t \in Client, NEW req \in Request,
         NEW label \in {"enqueueing", "requeueing"},
         BeginEnqueue(t, req, label), UNCHANGED env,
         label = "enqueueing" => queueEnabled /\ calls[t] <= retries
  PROVE  ServiceInv' /\ Moves(t)
<1>1. /\ ServiceTypes /\ Calling(t) /\ Panicking(t) /\ Spending(t)
      /\ op[t] = "none" /\ result[t] # "panic"
      /\ pc' = [pc EXCEPT ![t] = label] /\ job' = [job EXCEPT ![t] = Nil]
      /\ item' = [item EXCEPT ![t] = req]
      /\ UNCHANGED <<stage, attempt, answer, calls, queue, closed, queueEnabled, retries>>
      /\ \/ /\ op' = [op EXCEPT ![t] = "none"] /\ result' = [result EXCEPT ![t] = "closed"]
         \/ op' = [op EXCEPT ![t] = "sending"] /\ result' = result
  BY Zenon DEF ServiceInv, BeginEnqueue, CallEnqueue, Finish, At, Goto, env
<1>2. Moves(t)
  BY <1>1, ZenonT(30) DEF Moves, ServiceTypes, Undisturbed, Results
<1>3. Calling(t)' /\ Panicking(t)'
  BY <1>1, QueueAssumption, Zenon DEF ServiceTypes, Calling, Panicking, Returned
<1>4. Spending(t)'
  BY <1>1, ServiceAssumption, Zenon DEF ServiceTypes, Spending, Budget
<1>5. QED
  BY <1>2, <1>3, <1>4, MoveKeeps, Zenon

\* Forward, up to the choice between the queue and a direct attempt.
LEMMA ForwardKeeps ==
  ASSUME ServiceInv, NEW t \in Client, Forward(t)
  PROVE  ServiceInv' /\ Moves(t)
<1>1. /\ ServiceTypes /\ Calling(t) /\ Panicking(t) /\ Spending(t)
      /\ pc[t] = "new" /\ UNCHANGED <<queueVars, env>>
  BY Zenon DEF ServiceInv, Forward
<1>2. op[t] = "none" /\ calls[t] = 0 /\ t \in Request
  BY <1>1, ServiceAssumption, Zenon DEF ServiceTypes, Calling, Spending
<1>3. CASE Fail(t)
  BY <1>1, <1>2, <1>3, FailKeeps, Zenon
<1>4. CASE StartDirect(t, t, "only")
  BY <1>1, <1>2, <1>4, DirectKeeps
<1>5. CASE queueEnabled /\ Goto(t, "status") /\ UNCHANGED <<stage, job, attempt, answer, calls>>
  <2>1. /\ pc' = [pc EXCEPT ![t] = "status"]
        /\ UNCHANGED <<stage, job, attempt, answer, calls, queue, closed, op, item, result, queueEnabled, retries>>
    BY <1>1, <1>5, Zenon DEF Goto, queueVars, env
  <2>2. Moves(t)
    BY <1>1, <2>1, Zenon DEF Moves, ServiceTypes, Undisturbed
  <2>3. Calling(t)' /\ Panicking(t)'
    BY <1>1, <1>2, <2>1, Zenon DEF ServiceTypes, Calling, Panicking, Returned
  <2>4. Spending(t)'
    BY <1>1, <1>2, <1>5, <2>1, ServiceAssumption, Zenon DEF ServiceTypes, Spending, Budget
  <2>5. QED
    BY <2>2, <2>3, <2>4, MoveKeeps, Zenon
<1>6. QED
  BY <1>3, <1>4, <1>5, Zenon DEF Forward

\* ForwardWithQueue enqueues at once or tries the backends first.
LEMMA ForwardWithQueueKeeps ==
  ASSUME ServiceInv, NEW t \in Client, ForwardWithQueue(t)
  PROVE  ServiceInv' /\ Moves(t)
<1>1. /\ ServiceTypes /\ Calling(t) /\ Spending(t) /\ pc[t] = "status" /\ UNCHANGED env
  BY Zenon DEF ServiceInv, ForwardWithQueue
<1>2. op[t] = "none" /\ calls[t] = 0 /\ queueEnabled /\ t \in Request
  BY <1>1, ServiceAssumption, Zenon DEF ServiceTypes, Calling, Spending
<1>3. CASE BeginEnqueue(t, t, "enqueueing")
  <2>1. calls[t] <= retries
    BY <1>1, <1>2 DEF ServiceTypes
  <2>2. QED
    BY <1>1, <1>2, <1>3, <2>1, BeginEnqueueKeeps, Zenon
<1>4. CASE StartDirect(t, t, "first") /\ UNCHANGED queueVars
  BY <1>1, <1>2, <1>4, DirectKeeps
<1>5. QED
  BY <1>3, <1>4, Zenon DEF ForwardWithQueue

\* The steps inside the retry loop leave the queue and the request alone.
Trying(t) ==
  /\ \A s \in Client : s # t => /\ pc'[s] = pc[s]
                                /\ attempt'[s] = attempt[s] /\ calls'[s] = calls[s]
  /\ pc' \in [Client -> {"new", "status", "try", "sent", "failed", "enqueueing", "waiting",
                         "dequeueing", "requeueing", "done", "panicked", "balancerPanic"}]
  /\ attempt' \in [Client -> Nat] /\ calls' \in [Client -> Nat]
  /\ UNCHANGED <<queueVars, env, stage, job, answer>>

\* A turn of the retry loop spends what is left of the budget.
LEMMA TryingKeeps ==
  ASSUME ServiceInv, NEW t \in Client, pc[t] \in {"try", "sent"}, Trying(t),
         pc'[t] \in {"try", "sent", "failed", "panicked", "balancerPanic"},
         pc'[t] = "panicked" => retries = 0, Spending(t)'
  PROVE  ServiceInv' /\ Moves(t)
<1>1. /\ ServiceTypes /\ Calling(t) /\ Panicking(t)
      /\ UNCHANGED <<stage, job, answer, queue, closed, op, item, result, queueEnabled, retries>>
  BY Zenon DEF ServiceInv, Trying, queueVars, env
<1>2. Moves(t)
  BY <1>1, Zenon DEF Moves, ServiceTypes, Undisturbed, Trying
<1>3. Calling(t)' /\ Panicking(t)'
  BY <1>1, Zenon DEF ServiceTypes, Calling, Panicking, Returned
<1>4. QED
  BY <1>2, <1>3, MoveKeeps, Zenon

\* Every turn of the loop is counted against the attempts.
LEMMA TryBackendKeeps ==
  ASSUME ServiceInv, NEW t \in Client, TryBackend(t) \/ AttemptFails(t) \/ GiveUpRetrying(t)
  PROVE  ServiceInv' /\ Moves(t)
<1>1. ServiceTypes /\ Spending(t)
  BY Zenon DEF ServiceInv
<1>2. CASE TryBackend(t)
  <2>1. /\ pc[t] = "try" /\ attempt[t] < retries
        /\ UNCHANGED <<queueVars, env, stage, job, answer>>
        /\ \/ /\ \E label \in {"failed", "balancerPanic"} : pc' = [pc EXCEPT ![t] = label]
              /\ UNCHANGED <<attempt, calls>>
           \/ attempt' = [attempt EXCEPT ![t] = @ + 1] /\ UNCHANGED <<pc, calls>>
           \/ /\ calls' = [calls EXCEPT ![t] = @ + 1] /\ pc' = [pc EXCEPT ![t] = "sent"]
              /\ UNCHANGED attempt
    BY <1>2, Zenon DEF TryBackend, Goto
  <2>2. Trying(t) /\ pc'[t] \in {"try", "sent", "failed", "balancerPanic"}
    <3>1. ASSUME NEW label \in {"failed", "balancerPanic"}, pc' = [pc EXCEPT ![t] = label],
                 UNCHANGED <<attempt, calls>>
          PROVE  Trying(t) /\ pc'[t] \in {"failed", "balancerPanic"}
      BY <1>1, <2>1, <3>1, Zenon DEF Trying, ServiceTypes
    <3>2. CASE attempt' = [attempt EXCEPT ![t] = @ + 1] /\ UNCHANGED <<pc, calls>>
      BY <1>1, <2>1, <3>2 DEF Trying, ServiceTypes
    <3>3. CASE /\ calls' = [calls EXCEPT ![t] = @ + 1] /\ pc' = [pc EXCEPT ![t] = "sent"]
               /\ UNCHANGED attempt
      BY <1>1, <2>1, <3>3 DEF Trying, ServiceTypes
    <3>4. QED
      BY <2>1, <3>1, <3>2, <3>3, Zenon
  <2>3. Spending(t)'
    <3>1. /\ stage'[t] = stage[t] /\ queueEnabled' = queueEnabled
          /\ retries' = retries
          /\ \/ /\ pc'[t] \in {"failed", "balancerPanic"}
                /\ attempt'[t] = attempt[t] /\ calls'[t] = calls[t]
             \/ pc'[t] = "try" /\ attempt'[t] = attempt[t] + 1 /\ calls'[t] = calls[t]
             \/ pc'[t] = "sent" /\ attempt'[t] = attempt[t] /\ calls'[t] = calls[t] + 1
      BY <1>1, <2>1, Zenon DEF ServiceTypes, env
    <3>2. attempt[t] \in Nat /\ calls[t] \in Nat /\ stage[t] \in {"only", "first", "again"}
      BY <1>1, Zenon DEF ServiceTypes
    <3>3. retries \in Nat /\ attempt[t] < retries /\ pc[t] = "try"
      BY <1>1, <2>1, Zenon DEF ServiceTypes
    <3>4. QED
      BY <1>1, <3>1, <3>2, <3>3 DEF Spending, Budget
  <2>4. QED
    BY <2>1, <2>2, <2>3, TryingKeeps, Zenon
<1>3. CASE AttemptFails(t)
  <2>1. Trying(t) /\ pc'[t] = "try"
    BY <1>1, <1>3 DEF Trying, AttemptFails, ServiceTypes, Goto
  <2>2. Spending(t)'
    BY <1>1, <1>3, ServiceAssumption
       DEF AttemptFails, ServiceTypes, Goto, Spending, Budget, env
  <2>3. QED
    BY <1>3, <2>1, <2>2, TryingKeeps, Zenon DEF AttemptFails
<1>4. CASE GiveUpRetrying(t)
  <2>1. Trying(t) /\ pc'[t] = IF retries = 0 THEN "panicked" ELSE "failed"
    BY <1>1, <1>4, Zenon DEF Trying, GiveUpRetrying, ServiceTypes, Goto
  <2>2. Spending(t)'
    BY <1>1, <1>4, ServiceAssumption
       DEF GiveUpRetrying, ServiceTypes, Goto, Spending, Budget, env
  <2>3. QED
    BY <1>4, <2>1, <2>2, TryingKeeps, Zenon DEF GiveUpRetrying
<1>5. QED
  BY <1>2, <1>3, <1>4, Zenon

\* A response ends the forwarding.
LEMMA RespondKeeps ==
  ASSUME ServiceInv, NEW t \in Client, Respond(t)
  PROVE  ServiceInv' /\ Moves(t)
<1>1. /\ ServiceTypes /\ Calling(t) /\ Panicking(t) /\ Spending(t) /\ pc[t] = "sent"
      /\ pc' = [pc EXCEPT ![t] = "done"] /\ job' = [job EXCEPT ![t] = Nil]
      /\ answer' = [answer EXCEPT ![t] = job[t]]
      /\ UNCHANGED <<stage, attempt, calls, queue, closed, op, item, result, queueEnabled, retries>>
  BY Zenon DEF ServiceInv, Respond, Goto, queueVars, env
<1>2. Moves(t)
  BY <1>1, Zenon DEF Moves, ServiceTypes, Undisturbed
<1>3. Calling(t)' /\ Panicking(t)'
  BY <1>1, Zenon DEF ServiceTypes, Calling, Panicking, Returned
<1>4. Spending(t)'
  BY <1>1, Zenon DEF ServiceTypes, Spending, Budget
<1>5. QED
  BY <1>2, <1>3, <1>4, MoveKeeps, Zenon

\* A failed forwarding is enqueued, put back, or given up.
LEMMA AfterFailureKeeps ==
  ASSUME ServiceInv, NEW t \in Client, AfterFailure(t)
  PROVE  ServiceInv' /\ Moves(t)
<1>1. /\ ServiceTypes /\ Calling(t) /\ Spending(t) /\ pc[t] = "failed" /\ UNCHANGED env
  BY Zenon DEF ServiceInv, AfterFailure
<1>2. op[t] = "none" /\ job[t] \in Request
  BY <1>1, Zenon DEF ServiceTypes, Calling
<1>3. CASE Fail(t) /\ UNCHANGED queueVars
  BY <1>1, <1>2, <1>3, FailKeeps, Zenon
<1>4. CASE stage[t] = "first" /\ BeginEnqueue(t, job[t], "enqueueing")
  <2>1. queueEnabled /\ calls[t] <= retries
    BY <1>1, <1>4, Zenon DEF Spending
  <2>2. QED
    BY <1>1, <1>2, <1>4, <2>1, BeginEnqueueKeeps, Zenon
<1>5. CASE BeginEnqueue(t, job[t], "requeueing")
  BY <1>1, <1>2, <1>5, BeginEnqueueKeeps, Zenon
<1>6. QED
  BY <1>3, <1>4, <1>5, Zenon DEF AfterFailure

\* Enqueue has returned, of the handler's own request or of one put back.
LEMMA EnqueuedKeeps ==
  ASSUME ServiceInv, NEW t \in Client, Enqueued(t) \/ Requeued(t)
  PROVE  ServiceInv' /\ Moves(t)
<1>1. /\ ServiceTypes /\ Calling(t) /\ Panicking(t) /\ Spending(t)
      /\ op[t] = "none" /\ UNCHANGED <<queueVars, env>>
  BY Zenon DEF ServiceInv, Enqueued, Requeued, Returned
<1>2. CASE Fail(t)
  BY <1>1, <1>2, FailKeeps, Zenon
<1>3. CASE /\ pc[t] = "enqueueing" /\ Goto(t, "waiting")
           /\ UNCHANGED <<stage, job, attempt, answer, calls>>
  <2>1. /\ pc' = [pc EXCEPT ![t] = "waiting"]
        /\ UNCHANGED <<stage, job, attempt, answer, calls, queue, closed, op, item, result,
                       queueEnabled, retries>>
    BY <1>1, <1>3, Zenon DEF Goto, queueVars, env
  <2>2. Moves(t)
    BY <1>1, <2>1, Zenon DEF Moves, ServiceTypes, Undisturbed
  <2>3. Calling(t)' /\ Panicking(t)'
    BY <1>1, <1>3, <2>1, Zenon DEF ServiceTypes, Calling, Panicking, Returned
  <2>4. Spending(t)'
    BY <1>1, <1>3, <2>1, Zenon DEF ServiceTypes, Spending, Budget
  <2>5. QED
    BY <2>2, <2>3, <2>4, MoveKeeps, Zenon
<1>4. QED
  BY <1>2, <1>3, Zenon DEF Enqueued, Requeued, Returned

\* A waiting handler gives up or calls Dequeue.
LEMMA ProcessKeeps ==
  ASSUME ServiceInv, NEW t \in Client, ProcessQueuedRequest(t)
  PROVE  ServiceInv' /\ Moves(t)
<1>1. /\ ServiceTypes /\ Calling(t) /\ Panicking(t) /\ Spending(t)
      /\ pc[t] = "waiting" /\ UNCHANGED env
  BY Zenon DEF ServiceInv, ProcessQueuedRequest
<1>2. op[t] = "none" /\ job[t] = Nil
  BY <1>1, Zenon DEF ServiceTypes, Calling
<1>3. CASE Fail(t) /\ UNCHANGED queueVars
  BY <1>1, <1>2, <1>3, FailKeeps, Zenon
<1>4. CASE /\ CallDequeue(t) /\ Goto(t, "dequeueing")
           /\ UNCHANGED <<stage, job, attempt, answer, calls>>
  <2>1. /\ pc' = [pc EXCEPT ![t] = "dequeueing"] /\ item' = [item EXCEPT ![t] = Nil]
        /\ result[t] # "panic"
        /\ UNCHANGED <<stage, job, attempt, answer, calls, queue, closed, queueEnabled, retries>>
        /\ \/ op' = [op EXCEPT ![t] = "none"] /\ result' = [result EXCEPT ![t] = "closed"]
           \/ op' = [op EXCEPT ![t] = "receiving"] /\ result' = result
    BY <1>1, <1>4, Zenon DEF CallDequeue, Finish, At, Goto, env
  <2>2. Moves(t)
    BY <1>1, <2>1, ZenonT(30) DEF Moves, ServiceTypes, Undisturbed, Results
  <2>3. Calling(t)' /\ Panicking(t)'
    BY <1>1, <1>2, <2>1, Zenon DEF ServiceTypes, Calling, Panicking, Returned
  <2>4. Spending(t)'
    BY <1>1, <2>1, Zenon DEF ServiceTypes, Spending, Budget
  <2>5. QED
    BY <2>2, <2>3, <2>4, MoveKeeps, Zenon
<1>5. QED
  BY <1>3, <1>4, Zenon DEF ProcessQueuedRequest

\* What comes out of the queue is forwarded, on the second half of the budget.
LEMMA DequeuedKeeps ==
  ASSUME ServiceInv, NEW t \in Client, Dequeued(t)
  PROVE  ServiceInv' /\ Moves(t)
<1>1. /\ ServiceTypes /\ Calling(t) /\ Spending(t) /\ Returned(t, "dequeueing")
      /\ UNCHANGED <<queueVars, env>>
  BY Zenon DEF ServiceInv, Dequeued
<1>2. op[t] = "none" /\ queueEnabled /\ calls[t] <= retries
  BY <1>1, Zenon DEF Spending, Returned
<1>3. CASE result[t] = "ok" /\ StartDirect(t, item[t], "again")
  <2>1. item[t] \in Request
    BY <1>1, <1>3, Zenon DEF ServiceTypes, Calling
  <2>2. QED
    BY <1>1, <1>2, <1>3, <2>1, DirectKeeps, Zenon
<1>4. CASE Fail(t)
  BY <1>1, <1>2, <1>4, FailKeeps, Zenon
<1>5. QED
  BY <1>3, <1>4, Zenon DEF Dequeued

\* A panic of the queue reaches the handler.
LEMMA UnwindKeeps ==
  ASSUME ServiceInv, NEW t \in Client, Unwind(t)
  PROVE  ServiceInv' /\ Moves(t)
<1>1. /\ ServiceTypes /\ Calling(t) /\ Panicking(t) /\ Spending(t)
      /\ op[t] = "none" /\ result[t] = "panic" /\ pc[t] \in {"enqueueing", "dequeueing", "requeueing"}
      /\ pc' = [pc EXCEPT ![t] = "panicked"]
      /\ UNCHANGED <<stage, job, attempt, answer, calls, queue, closed, op, item, result, queueEnabled, retries>>
  BY Zenon DEF ServiceInv, Unwind, Returned, Goto, queueVars, env
<1>2. Moves(t)
  BY <1>1, Zenon DEF Moves, ServiceTypes, Undisturbed
<1>3. Calling(t)' /\ Panicking(t)'
  BY <1>1, Zenon DEF ServiceTypes, Calling, Panicking, Returned
<1>4. Spending(t)'
  BY <1>1, Zenon DEF ServiceTypes, Spending, Budget
<1>5. QED
  BY <1>2, <1>3, <1>4, MoveKeeps, Zenon

\* A step inside Enqueue or Dequeue leaves the handler where it is.
LEMMA InCallKeeps ==
  ASSUME ServiceInv, NEW t \in Client, UNCHANGED <<env, flowVars, closed>>,
         queue' \in Seq(Request),
         NEW label \in {"none", "sending", "sent", "dropping", "receiving", "received"},
         op' = [op EXCEPT ![t] = label],
         item' \in [Client -> Request \cup {Nil}], result' \in [Client -> Results],
         \A s \in Client : s # t => item'[s] = item[s] /\ result'[s] = result[s],
         Calling(t)', Panicking(t)'
  PROVE  ServiceInv' /\ Moves(t)
<1>1. /\ ServiceTypes /\ Spending(t)
      /\ UNCHANGED <<pc, stage, job, attempt, answer, calls, closed, queueEnabled, retries>>
  BY Zenon DEF ServiceInv, flowVars, env
<1>2. Moves(t)
  BY <1>1 DEF Moves, ServiceTypes, Undisturbed
<1>3. Spending(t)'
  BY <1>1, Zenon DEF Spending, Budget
<1>4. QED
  BY <1>2, <1>3, MoveKeeps, Zenon

\* Sending puts a request into the queue, or panics on the closed channel.
LEMMA EnqueueStepsKeep ==
  ASSUME ServiceInv, NEW t \in Client, UNCHANGED <<env, flowVars>>,
         Send(t) \/ CountEnqueued(t) \/ Drop(t) \/ CountDropped(t)
  PROVE  ServiceInv' /\ Moves(t)
<1>1. /\ ServiceTypes /\ Calling(t) /\ Panicking(t)
      /\ UNCHANGED <<pc, stage, job, attempt, answer, calls, queueEnabled, retries>>
  BY Zenon DEF ServiceInv, flowVars, env
<1>2. CASE Send(t) /\ ~closed
  <2>1. /\ op[t] = "sending" /\ op' = [op EXCEPT ![t] = "sent"]
        /\ queue' = Append(queue, item[t]) /\ UNCHANGED <<closed, item, result>>
    BY <1>2, Zenon DEF Send, At
  <2>2. queue' \in Seq(Request)
    BY <1>1, <2>1 DEF ServiceTypes, Calling
  <2>3. Calling(t)' /\ Panicking(t)'
    BY <1>1, <2>1, Zenon DEF ServiceTypes, Calling, Panicking, Returned
  <2>4. QED
    BY <1>1, <2>1, <2>2, <2>3, InCallKeeps, Zenon DEF ServiceTypes
<1>3. CASE Send(t) /\ closed
  <2>1. /\ op[t] = "sending" /\ op' = [op EXCEPT ![t] = "none"]
        /\ result' = [result EXCEPT ![t] = "panic"] /\ UNCHANGED <<queue, closed, item>>
    BY <1>3, Zenon DEF Send, Finish, At
  <2>2. Calling(t)' /\ Panicking(t)'
    BY <1>1, <1>3, <2>1, Zenon DEF ServiceTypes, Calling, Panicking, Returned
  <2>3. QED
    BY <1>1, <2>1, <2>2, InCallKeeps, Zenon DEF ServiceTypes, Results
<1>4. CASE Drop(t)
  <2>1. /\ op[t] = "sending" /\ op' = [op EXCEPT ![t] = "dropping"]
        /\ UNCHANGED <<queue, closed, item, result>>
    BY <1>4, Zenon DEF Drop, At
  <2>2. Calling(t)' /\ Panicking(t)'
    BY <1>1, <2>1, Zenon DEF ServiceTypes, Calling, Panicking, Returned
  <2>3. QED
    BY <1>1, <2>1, <2>2, InCallKeeps, Zenon DEF ServiceTypes
<1>5. ASSUME NEW res \in {"ok", "full"}, op[t] \in {"sent", "dropping"}, Finish(t, res),
             UNCHANGED <<queue, closed, item>>
      PROVE  ServiceInv' /\ Moves(t)
  <2>1. op' = [op EXCEPT ![t] = "none"] /\ result' = [result EXCEPT ![t] = res]
    BY <1>5, Zenon DEF Finish, At
  <2>2. Calling(t)' /\ Panicking(t)'
    BY <1>1, <1>5, <2>1, Zenon DEF ServiceTypes, Calling, Panicking, Returned
  <2>3. QED
    BY <1>1, <1>5, <2>1, <2>2, InCallKeeps, Zenon DEF ServiceTypes, Results
<1>6. QED
  BY <1>2, <1>3, <1>4, <1>5, Zenon DEF CountEnqueued, CountDropped

\* Receiving takes the head of the queue, or nil from a closed and empty one.
LEMMA DequeueStepsKeep ==
  ASSUME ServiceInv, NEW t \in Client, UNCHANGED <<env, flowVars>>,
         Receive(t) \/ CountDequeued(t)
  PROVE  ServiceInv' /\ Moves(t)
<1>1. /\ ServiceTypes /\ Calling(t) /\ Panicking(t)
      /\ UNCHANGED <<pc, stage, job, attempt, answer, calls, queueEnabled, retries>>
  BY Zenon DEF ServiceInv, flowVars, env
<1>2. CASE Receive(t) /\ queue # <<>>
  <2>1. /\ op[t] = "receiving" /\ op' = [op EXCEPT ![t] = "received"]
        /\ item' = [item EXCEPT ![t] = Head(queue)] /\ queue' = Tail(queue)
        /\ UNCHANGED <<closed, result>>
    BY <1>2, Zenon DEF Receive, At
  <2>2. Head(queue) \in Request /\ queue' \in Seq(Request)
    BY <1>1, <1>2, <2>1 DEF ServiceTypes
  <2>3. Calling(t)' /\ Panicking(t)'
    BY <1>1, <2>1, <2>2, QueueAssumption, Zenon DEF ServiceTypes, Calling, Panicking,
       Returned
  <2>4. QED
    BY <1>1, <2>1, <2>2, <2>3, InCallKeeps, Zenon DEF ServiceTypes
<1>3. CASE Receive(t) /\ queue = <<>>
  <2>1. /\ op[t] = "receiving" /\ closed /\ op' = [op EXCEPT ![t] = "received"]
        /\ UNCHANGED <<queue, closed, item, result>>
    BY <1>3, Zenon DEF Receive, At
  <2>2. Calling(t)' /\ Panicking(t)'
    BY <1>1, <2>1, Zenon DEF ServiceTypes, Calling, Panicking, Returned
  <2>3. QED
    BY <1>1, <2>1, <2>2, InCallKeeps, Zenon DEF ServiceTypes
<1>4. CASE CountDequeued(t)
  <2>1. /\ op[t] = "received" /\ op' = [op EXCEPT ![t] = "none"]
        /\ result' = [result EXCEPT ![t] = IF item[t] = Nil THEN "panic" ELSE "ok"]
        /\ UNCHANGED <<queue, closed, item>>
    BY <1>4, Zenon DEF CountDequeued, Finish, At
  <2>2. Calling(t)' /\ Panicking(t)'
    BY <1>1, <2>1, Zenon DEF ServiceTypes, Calling, Panicking, Returned
  <2>3. QED
    BY <1>1, <2>1, <2>2, InCallKeeps, Zenon DEF ServiceTypes, Results
<1>5. QED
  BY <1>2, <1>3, <1>4, Zenon

\* A call that is cancelled or times out returns an error.
LEMMA GiveUpKeeps ==
  ASSUME ServiceInv, NEW t \in Client, UNCHANGED <<env, flowVars>>, GiveUp(t)
  PROVE  ServiceInv' /\ Moves(t)
<1>1. /\ ServiceTypes /\ Calling(t) /\ Panicking(t)
      /\ UNCHANGED <<pc, stage, job, attempt, answer, calls, queueEnabled, retries>>
  BY Zenon DEF ServiceInv, flowVars, env
<1>2. PICK res \in {"cancelled", "timeout"} :
           /\ op[t] \in {"sending", "receiving"} /\ op' = [op EXCEPT ![t] = "none"]
           /\ result' = [result EXCEPT ![t] = res]
           /\ UNCHANGED <<queue, closed, item>>
  BY Zenon DEF GiveUp, Finish, At
<1>3. Calling(t)' /\ Panicking(t)'
  BY <1>1, <1>2, Zenon DEF ServiceTypes, Calling, Panicking, Returned
<1>4. QED
  BY <1>1, <1>2, <1>3, InCallKeeps, Zenon DEF ServiceTypes, Results

\* Whatever happens around the handlers changes nothing of theirs.
LEMMA WorldKeeps ==
  ASSUME ServiceInv, UNCHANGED <<flowVars, queueEnabled, retries, queue, op, item, result>>,
         closed' \in BOOLEAN, closed => closed'
  PROVE  ServiceInv'
<1>1. UNCHANGED <<pc, stage, job, attempt, answer, calls, queueEnabled, retries, queue, op, item, result>>
  BY Zenon DEF flowVars
<1>2. ServiceTypes'
  BY <1>1, Zenon DEF ServiceInv, ServiceTypes
<1>3. ASSUME NEW s \in Client PROVE Calling(s)' /\ Panicking(s)' /\ Spending(s)'
  <2>1. Calling(s) /\ Panicking(s) /\ Spending(s)
    BY Zenon DEF ServiceInv
  <2>2. Calling(s)' /\ Panicking(s)'
    BY <1>1, <2>1, Zenon DEF Calling, Panicking, Returned
  <2>3. Spending(s)'
    BY <1>1, <2>1 DEF Spending, Budget
  <2>4. QED
    BY <2>2, <2>3, Zenon
<1>4. QED
  BY <1>2, <1>3, Zenon DEF ServiceInv

\* The handlers start in a state of the invariant.
LEMMA ServiceInit == Init => ServiceInv
<1> SUFFICES ASSUME Init PROVE ServiceInv
  BY Zenon
<1>1. ServiceTypes
  <2>1. closed \in BOOLEAN /\ queueEnabled \in BOOLEAN /\ retries \in Nat
    BY ServiceAssumption, Zenon DEF Init, QueueInit
  <2>2. queue \in Seq(Request)
    BY DEF Init, QueueInit
  <2>3. QED
    BY <2>1, <2>2, Zenon DEF Init, QueueInit, ServiceTypes, Results
<1>2. ASSUME NEW t \in Client PROVE Calling(t) /\ Panicking(t) /\ Spending(t)
  <2>1. Calling(t) /\ Panicking(t)
    BY Zenon DEF Init, QueueInit, Calling, Panicking, Returned
  <2>2. Spending(t)
    BY <1>1 DEF Init, ServiceTypes, Spending, Budget
  <2>3. QED
    BY <2>1, <2>2, Zenon
<1>3. QED
  BY <1>1, <1>2, Zenon DEF ServiceInv

\* Every step keeps the invariant.
LEMMA ServiceStep ==
  ASSUME ServiceInv, [Next]_vars
  PROVE  ServiceInv'
<1>1. ASSUME NEW t \in Client, HandlerStep(t) PROVE ServiceInv'
  <2>1. CASE InQueueCall(t)
    BY <2>1, EnqueueStepsKeep, DequeueStepsKeep, GiveUpKeeps, Zenon DEF InQueueCall,
       QueueStep
  <2>2. CASE ~InQueueCall(t)
    BY <1>1, <2>2, ForwardWithQueueKeeps, TryBackendKeeps, AfterFailureKeeps,
       EnqueuedKeeps,
       ProcessKeeps, DequeuedKeeps, UnwindKeeps, Zenon DEF HandlerStep
  <2>3. QED
    BY <2>1, <2>2, Zenon
<1>2. ASSUME NEW t \in Client, CancelContext(t) /\ UNCHANGED <<env, flowVars, expired>>
      PROVE  ServiceInv'
  BY <1>2, WorldKeeps, Zenon DEF CancelContext, env, ServiceInv, ServiceTypes
<1>3. ASSUME NEW t \in Client, Expire(t) PROVE ServiceInv'
  BY <1>3, WorldKeeps, Zenon DEF Expire, queueVars, env, ServiceInv, ServiceTypes
<1>4. ASSUME NEW b \in Backend, BackendStateChange(b) PROVE ServiceInv'
  BY <1>4, WorldKeeps, Zenon DEF BackendStateChange, queueVars, ServiceInv, ServiceTypes
<1>5. ASSUME CloseService PROVE ServiceInv'
  <2>1. /\ UNCHANGED <<flowVars, queueEnabled, retries, queue, op, item, result>>
        /\ closed' = closed \/ closed' = TRUE
    BY <1>5, Zenon DEF CloseService, CloseQueue, queueVars
  <2>2. closed' \in BOOLEAN /\ (closed => closed')
    BY <2>1, Zenon DEF ServiceInv, ServiceTypes
  <2>3. QED
    BY <2>1, <2>2, WorldKeeps, Zenon
<1>6. ASSUME UNCHANGED vars PROVE ServiceInv'
  BY <1>6, WorldKeeps, Zenon DEF vars, queueVars, env, ServiceInv, ServiceTypes
<1>7. QED
  BY <1>1, <1>2, <1>3, <1>4, <1>5, <1>6, ForwardKeeps, RespondKeeps, TryBackendKeeps,
     Zenon DEF Next

\* The invariant holds throughout.
LEMMA ServiceKept == Spec => []ServiceInv
BY ServiceInit, ServiceStep, PTL DEF Spec

\* One call of Forward makes at most retries backend requests, and at most
\* twice as many when the queue is enabled, for any number of retries.
THEOREM BudgetKept == Spec => []RetryBudget
<1>1. ServiceInv => RetryBudget
  BY Zenon DEF ServiceInv, Spending, Budget, RetryBudget
<1>2. QED
  BY <1>1, ServiceKept, PTL

\* Outside of NextBackend, handlers panic only on a queue that has been closed or
\* when no attempt is configured: for any number of handlers, any capacity and
\* any number of retries, 0 included.
THEOREM PanicNeedsCause == Spec => []PanicsExplained
<1>1. ServiceInv => PanicsExplained
  BY Zenon DEF ServiceInv, Panicking, PanicsExplained
<1>2. QED
  BY <1>1, ServiceKept, PTL

\* The steps of the handler of t.
Handles(t) == Forward(t) \/ HandlerStep(t) \/ Respond(t) \/ AttemptFails(t)

\* Every step is one of a handler, which disturbs no other, or leaves all that
\* the handlers and the queue hold as it is.
LEMMA StepOfOne ==
  ASSUME ServiceInv, [Next]_vars
  PROVE  \/ \E t \in Client : Handles(t) /\ Moves(t)
         \/ UNCHANGED <<flowVars, queue, op, item, result, counters>>
<1>1. ASSUME NEW t \in Client, Handles(t) PROVE Moves(t)
  <2>1. CASE InQueueCall(t)
    BY <2>1, EnqueueStepsKeep, DequeueStepsKeep, GiveUpKeeps, Zenon DEF InQueueCall,
       QueueStep
  <2>2. CASE ~InQueueCall(t)
    BY <1>1, <2>2, ForwardKeeps, ForwardWithQueueKeeps, TryBackendKeeps,
       AfterFailureKeeps,
       EnqueuedKeeps, ProcessKeeps, DequeuedKeeps, UnwindKeeps, RespondKeeps, Zenon DEF HandlerStep, Handles
  <2>3. QED
    BY <2>1, <2>2, Zenon
<1>2. CASE \E t \in Client : Handles(t)
  BY <1>1, <1>2, Zenon
<1>3. CASE ~\E t \in Client : Handles(t)
  BY <1>3, Zenon DEF Next, Handles, Expire, CancelContext, BackendStateChange,
     CloseService, CloseQueue,
              vars, queueVars, counters
<1>4. QED
  BY <1>2, <1>3, Zenon

-----------------------------------------------------------------------------
\* The request that handler t has in hand, and whether the request of handler t
\* is still with the client that sent it.
Hand(t) ==
  IF job[t] # Nil THEN job[t]
  ELSE IF \/ op[t] \in {"sending", "received"}
          \/ Returned(t, "dequeueing") /\ result[t] = "ok"
       THEN item[t] ELSE Nil

Fresh(t) == pc[t] \in {"new", "status"}

\* No two handlers have the same request in hand, the queue holds none twice,
\* none is answered twice; what is in hand is not in the queue, what is answered
\* is neither, and a request that Forward has not begun with is nowhere.
Custody ==
  /\ \A s, t \in Client : Hand(s) # Nil /\ Hand(s) = Hand(t) => s = t
  /\ \A i, j \in 1 .. Len(queue) : queue[i] = queue[j] => i = j
  /\ \A s, t \in Client : answer[s] # Nil /\ answer[s] = answer[t] => s = t
  /\ \A t \in Client, i \in 1 .. Len(queue) : Hand(t) # queue[i] /\ answer[t] # queue[i]
  /\ \A s, t \in Client : Hand(s) # Nil => Hand(s) # answer[t]
  /\ \A q \in Client : Fresh(q) =>
       /\ \A t \in Client : Hand(t) # q /\ answer[t] # q
       /\ \A i \in 1 .. Len(queue) : queue[i] # q

\* What a step of handler t leaves alone of the other handlers.
Apart(t) ==
  /\ ServiceTypes /\ ServiceTypes'
  /\ \A s \in Client : s # t => Hand(s)' = Hand(s) /\ answer'[s] = answer[s]
  /\ \A s \in Client : Fresh(s)' => Fresh(s)

\* A handler keeps its request or lets go of it.
LEMMA DropKeepsCustody ==
  ASSUME Custody, NEW t \in Client, Apart(t), Hand(t)' \in {Hand(t), Nil},
         queue' = queue, answer'[t] = answer[t]
  PROVE  Custody'
<1>1. \A s \in Client : Hand(s)' \in {Hand(s), Nil} /\ answer'[s] = answer[s]
  BY Zenon DEF Apart
<1>2. \A s \in Client : Fresh(s)' => Fresh(s)
  BY Zenon DEF Apart
<1>3. \A i \in 1 .. Len(queue) : queue[i] # Nil
  BY QueueAssumption DEF Apart, ServiceTypes
<1>4. \A q \in Client : q # Nil
  BY QueueAssumption, ServiceAssumption, Zenon
<1>5. QED
  BY <1>1, <1>2, <1>3, <1>4 DEF Custody

\* The handler of a fresh request takes it in hand.
LEMMA BeginKeepsCustody ==
  ASSUME Custody, NEW t \in Client, Apart(t), Fresh(t), ~Fresh(t)', Hand(t)' = t,
         queue' = queue, answer'[t] = answer[t]
  PROVE  Custody'
<1>1. \A s \in Client : answer'[s] = answer[s] /\ (s # t => Hand(s)' = Hand(s))
  BY Zenon DEF Apart
<1>2. \A s \in Client : Fresh(s)' => Fresh(s) /\ s # t
  BY Zenon DEF Apart
<1>3. QED
  BY <1>1, <1>2 DEF Custody

\* A request goes from a hand into the queue.
LEMMA SendKeepsCustody ==
  ASSUME Custody, NEW t \in Client, Apart(t), Hand(t) \in Request, Hand(t)' = Nil,
         queue' = Append(queue, Hand(t)), answer'[t] = answer[t]
  PROVE  Custody'
<1>1. \A s \in Client : answer'[s] = answer[s] /\ (s # t => Hand(s)' = Hand(s))
  BY Zenon DEF Apart
<1>2. \A s \in Client : Fresh(s)' => Fresh(s)
  BY Zenon DEF Apart
<1>3. /\ Len(queue') = Len(queue) + 1 /\ Len(queue) \in Nat
      /\ \A i \in 1 .. Len(queue) : queue'[i] = queue[i] /\ queue[i] # Nil
      /\ queue'[Len(queue) + 1] = Hand(t)
  BY QueueAssumption DEF Apart, ServiceTypes
<1>4. \A i \in 1 .. Len(queue') : i \in 1 .. Len(queue) \/ i = Len(queue) + 1
  BY <1>3
<1>5. Hand(t) # Nil /\ \A q \in Client : q # Nil
  BY QueueAssumption, ServiceAssumption, Zenon
<1>6. \A s, u \in Client : Hand(s)' # Nil /\ Hand(s)' = Hand(u)' => s = u
  BY <1>1 DEF Custody
<1>7. \A i, j \in 1 .. Len(queue') : queue'[i] = queue'[j] => i = j
  BY <1>3, <1>4 DEF Custody
<1>8. \A s \in Client, i \in 1 .. Len(queue') : Hand(s)' # queue'[i] /\ answer'[s] # queue'[i]
  BY <1>1, <1>3, <1>4, <1>5 DEF Custody
<1>9. /\ \A s, u \in Client : answer'[s] # Nil /\ answer'[s] = answer'[u] => s = u
      /\ \A s, u \in Client : Hand(s)' # Nil => Hand(s)' # answer'[u]
  BY <1>1 DEF Custody
<1>10. \A q \in Client : Fresh(q)' =>
         /\ \A s \in Client : Hand(s)' # q /\ answer'[s] # q
         /\ \A i \in 1 .. Len(queue') : queue'[i] # q
  BY <1>1, <1>2, <1>3, <1>4, <1>5 DEF Custody
<1>11. QED
  BY <1>6, <1>7, <1>8, <1>9, <1>10, Zenon DEF Custody

\* A request goes from the head of the queue into a hand.
LEMMA ReceiveKeepsCustody ==
  ASSUME Custody, NEW t \in Client, Apart(t), queue # <<>>, Hand(t)' = Head(queue),
         queue' = Tail(queue), answer'[t] = answer[t]
  PROVE  Custody'
<1>1. \A s \in Client : answer'[s] = answer[s] /\ (s # t => Hand(s)' = Hand(s))
  BY Zenon DEF Apart
<1>2. \A s \in Client : Fresh(s)' => Fresh(s)
  BY Zenon DEF Apart
<1>3. /\ Len(queue') = Len(queue) - 1 /\ Len(queue) \in Nat /\ Len(queue) > 0
      /\ \A i \in 1 .. Len(queue') : queue'[i] = queue[i + 1] /\ i + 1 \in 1 .. Len(queue) /\ i + 1 # 1
      /\ Head(queue) = queue[1] /\ 1 \in 1 .. Len(queue) /\ Len(queue') \in Nat
  BY DEF Apart, ServiceTypes
<1>4. Hand(t)' = queue[1]
  BY <1>3, Zenon
<1>5. \A s, u \in Client : Hand(s)' # Nil /\ Hand(s)' = Hand(u)' => s = u
  BY <1>1, <1>3, <1>4 DEF Custody
<1>6. \A i, j \in 1 .. Len(queue') : queue'[i] = queue'[j] => i = j
  <2>1. ASSUME NEW i \in 1 .. Len(queue'), NEW j \in 1 .. Len(queue'), queue'[i] = queue'[j]
        PROVE  i = j
    <3>1. i + 1 = j + 1
      BY <1>3, <2>1 DEF Custody
    <3>2. QED
      BY <3>1
  <2>2. QED
    BY <2>1, Zenon
<1>7. \A s \in Client, i \in 1 .. Len(queue') : Hand(s)' # queue'[i] /\ answer'[s] # queue'[i]
  BY <1>1, <1>3, <1>4 DEF Custody
<1>8. /\ \A s, u \in Client : answer'[s] # Nil /\ answer'[s] = answer'[u] => s = u
      /\ \A s, u \in Client : Hand(s)' # Nil => Hand(s)' # answer'[u]
  BY <1>1, <1>3, <1>4 DEF Custody
<1>9. \A q \in Client : Fresh(q)' =>
         /\ \A s \in Client : Hand(s)' # q /\ answer'[s] # q
         /\ \A i \in 1 .. Len(queue') : queue'[i] # q
  BY <1>1, <1>2, <1>3, <1>4 DEF Custody
<1>10. QED
  BY <1>5, <1>6, <1>7, <1>8, <1>9, Zenon DEF Custody

\* A request is answered by the handler that has it in hand.
LEMMA AnswerKeepsCustody ==
  ASSUME Custody, NEW t \in Client, Apart(t), Hand(t) \in Request, Hand(t)' = Nil,
         queue' = queue, answer'[t] = Hand(t)
  PROVE  Custody'
<1>1. \A s \in Client : s # t => answer'[s] = answer[s] /\ Hand(s)' = Hand(s)
  BY Zenon DEF Apart
<1>2. \A s \in Client : Fresh(s)' => Fresh(s)
  BY Zenon DEF Apart
<1>3. Hand(t) # Nil /\ \A q \in Client : q # Nil
  BY QueueAssumption, ServiceAssumption, Zenon
<1>4. \A s, u \in Client : Hand(s)' # Nil /\ Hand(s)' = Hand(u)' => s = u
  BY <1>1 DEF Custody
<1>5. \A s, u \in Client : answer'[s] # Nil /\ answer'[s] = answer'[u] => s = u
  BY <1>1, <1>3 DEF Custody
<1>6. \A s \in Client, i \in 1 .. Len(queue) : Hand(s)' # queue[i] /\ answer'[s] # queue[i]
  <2>1. \A i \in 1 .. Len(queue) : queue[i] # Nil
    BY QueueAssumption DEF Apart, ServiceTypes
  <2>2. QED
    BY <1>1, <2>1 DEF Custody
<1>7. \A s, u \in Client : Hand(s)' # Nil => Hand(s)' # answer'[u]
  BY <1>1, <1>3 DEF Custody
<1>8. \A q \in Client : Fresh(q)' =>
         /\ \A s \in Client : Hand(s)' # q /\ answer'[s] # q
         /\ \A i \in 1 .. Len(queue) : queue[i] # q
  BY <1>1, <1>2, <1>3 DEF Custody
<1>9. QED
  BY <1>4, <1>5, <1>6, <1>7, <1>8 DEF Custody

\* A handler's step leaves the hands and answers of the others alone, and makes
\* no request fresh.
LEMMA StandApart ==
  ASSUME ServiceInv, NEW t \in Client, Moves(t), Fresh(t)' => Fresh(t),
         \A s \in Client : s # t => answer'[s] = answer[s]
  PROVE  Apart(t)
<1>1. ServiceTypes /\ ServiceTypes'
  BY Zenon DEF ServiceInv, Moves
<1>2. \A s \in Client : s # t => Hand(s)' = Hand(s) /\ (Fresh(s)' => Fresh(s))
  BY DEF Moves, Undisturbed, Hand, Fresh, Returned
<1>3. QED
  BY <1>1, <1>2, Zenon DEF Apart

\* The steps inside a call of the queue pass the request on, or let go of it.
LEMMA CallKeepsCustody ==
  ASSUME ServiceInv, Custody, NEW t \in Client, InQueueCall(t), Moves(t)
  PROVE  Custody'
<1>1. ServiceTypes /\ Calling(t)
  BY Zenon DEF ServiceInv
<1>2. UNCHANGED <<pc, job, answer>>
  BY Zenon DEF InQueueCall, flowVars
<1>3. Apart(t)
  BY <1>2, StandApart, Zenon DEF Fresh
<1>4. CASE Send(t) /\ ~closed
  <2>1. /\ op[t] = "sending" /\ op'[t] = "sent" /\ item' = item
        /\ queue' = Append(queue, item[t])
    BY <1>1, <1>4, Zenon DEF Send, At, ServiceTypes
  <2>2. item[t] \in Request /\ job[t] = Nil
    BY <1>1, <2>1, Zenon DEF ServiceTypes, Calling
  <2>3. Hand(t) = item[t] /\ Hand(t)' = Nil
    BY <1>2, <2>1, <2>2, Zenon DEF Hand, Returned
  <2>4. QED
    BY <1>2, <1>3, <2>1, <2>2, <2>3, SendKeepsCustody, Zenon
<1>5. CASE Receive(t) /\ queue # <<>>
  <2>1. /\ op[t] = "receiving" /\ op'[t] = "received" /\ item'[t] = Head(queue)
        /\ queue' = Tail(queue)
    BY <1>1, <1>5, Zenon DEF Receive, At, ServiceTypes
  <2>2. job[t] = Nil
    BY <1>1, <2>1, Zenon DEF ServiceTypes, Calling
  <2>3. Hand(t)' = Head(queue)
    BY <1>2, <2>1, <2>2, Zenon DEF Hand
  <2>4. QED
    BY <1>2, <1>3, <1>5, <2>1, <2>3, ReceiveKeepsCustody, Zenon
<1>6. CASE ~(Send(t) /\ ~closed) /\ ~(Receive(t) /\ queue # <<>>)
  <2>1. /\ UNCHANGED <<queue, item>>
        /\ \/ op[t] = "sending" /\ op'[t] \in {"none", "dropping"} /\ (op'[t] = "none" => result'[t] # "ok")
           \/ op[t] \in {"sent", "dropping"} /\ op'[t] = "none"
           \/ op[t] = "receiving" /\ op'[t] = "none" /\ result'[t] # "ok"
           \/ op[t] = "receiving" /\ op'[t] = "received"
           \/ op[t] = "received" /\ op'[t] = "none"
    BY <1>1, <1>6, Zenon DEF InQueueCall, QueueStep, Send, CountEnqueued, Drop,
       CountDropped, Receive,
                      CountDequeued, GiveUp, Finish, At, ServiceTypes
  <2>2. job[t] = Nil /\ (op[t] = "receiving" => item[t] = Nil)
    BY <1>1, <2>1, Zenon DEF ServiceTypes, Calling
  <2>3. op[t] \in {"sent", "dropping"} => pc[t] # "dequeueing"
    BY <1>1, Zenon DEF Calling
  <2>4. Hand(t)' \in {Hand(t), Nil}
    BY <1>2, <2>1, <2>2, <2>3, Zenon DEF Hand, Returned
  <2>5. QED
    BY <1>2, <1>3, <2>1, <2>4, DropKeepsCustody, Zenon
<1>7. QED
  BY <1>4, <1>5, <1>6, Zenon

\* Outside the calls of the queue a handler takes its own request in hand,
\* keeps what it has, lets go of it or answers it.
LEMMA FlowKeepsCustody ==
  ASSUME ServiceInv, Custody, NEW t \in Client, Handles(t), Moves(t), ~InQueueCall(t)
  PROVE  Custody'
<1>1. ServiceTypes /\ Calling(t)
  BY Zenon DEF ServiceInv
<1>2. ASSUME Fail(t), UNCHANGED queueVars, op[t] = "none" PROVE Custody'
  <2>1. UNCHANGED <<queue, answer, op>> /\ pc'[t] = "done" /\ job'[t] = Nil
    BY <1>1, <1>2, Zenon DEF Fail, Goto, queueVars, ServiceTypes
  <2>2. Apart(t) /\ Hand(t)' = Nil
    BY <1>2, <2>1, StandApart, Zenon DEF Fresh, Hand, Returned
  <2>3. QED
    BY <2>1, <2>2, DropKeepsCustody, Zenon
<1>3. ASSUME NEW from, StartDirect(t, t, from), UNCHANGED queueVars, Fresh(t) PROVE Custody'
  <2>1. UNCHANGED <<queue, answer>> /\ pc'[t] = "try" /\ job'[t] = t
    BY <1>1, <1>3, Zenon DEF StartDirect, Goto, queueVars, ServiceTypes
  <2>2. Hand(t)' = t
    BY <2>1, QueueAssumption, ServiceAssumption, Zenon DEF Hand
  <2>3. Apart(t) /\ ~Fresh(t)'
    BY <2>1, StandApart, Zenon DEF Fresh
  <2>4. QED
    BY <1>3, <2>1, <2>2, <2>3, BeginKeepsCustody, Zenon
<1>4. ASSUME NEW req \in Request, NEW label \in {"enqueueing", "requeueing"},
             BeginEnqueue(t, req, label)
      PROVE  /\ UNCHANGED <<queue, answer>> /\ Apart(t) /\ ~Fresh(t)'
             /\ Hand(t)' \in {req, Nil}
  <2>1. /\ UNCHANGED <<queue, answer>> /\ pc' = [pc EXCEPT ![t] = label]
        /\ job' = [job EXCEPT ![t] = Nil] /\ item' = [item EXCEPT ![t] = req]
    BY <1>4, Zenon DEF BeginEnqueue, CallEnqueue, Goto
  <2>2. pc'[t] = label /\ job'[t] = Nil /\ item'[t] = req
    BY <1>1, <2>1, Zenon DEF ServiceTypes
  <2>3. Apart(t) /\ ~Fresh(t)'
    BY <2>1, <2>2, StandApart, Zenon DEF Fresh
  <2>4. QED
    BY <2>1, <2>2, <2>3, Zenon DEF Hand
<1>5. ASSUME UNCHANGED <<queue, answer, op, item, result, job>>, ~Fresh(t)' \/ Fresh(t),
             pc'[t] # "dequeueing"
      PROVE  Custody'
  <2>1. Apart(t)
    BY <1>5, StandApart, Zenon
  <2>2. Hand(t)' \in {Hand(t), Nil}
    BY <1>5, Zenon DEF Hand, Returned
  <2>3. QED
    BY <1>5, <2>1, <2>2, DropKeepsCustody, Zenon
<1>6. CASE Forward(t)
  <2>1. pc[t] = "new" /\ Fresh(t) /\ op[t] = "none" /\ UNCHANGED queueVars
    BY <1>1, <1>6, Zenon DEF Forward, Fresh, Calling, ServiceTypes
  <2>2. CASE Goto(t, "status") /\ UNCHANGED <<stage, job, attempt, answer, calls>>
    <3>1. pc'[t] = "status" /\ UNCHANGED <<queue, answer, op, item, result, job>>
      BY <1>1, <2>1, <2>2, Zenon DEF Goto, queueVars, ServiceTypes
    <3>2. QED
      BY <1>5, <2>1, <3>1, Zenon
  <2>3. QED
    BY <1>2, <1>3, <1>6, <2>1, <2>2, Zenon DEF Forward
<1>7. CASE ForwardWithQueue(t)
  <2>1. Fresh(t) /\ t \in Request
    BY <1>7, ServiceAssumption, Zenon DEF ForwardWithQueue, Fresh
  <2>2. Hand(t) = Nil
    BY <1>1, <1>7, Zenon DEF ForwardWithQueue, Hand, Calling, ServiceTypes, Returned
  <2>3. CASE BeginEnqueue(t, t, "enqueueing")
    BY <1>4, <2>1, <2>2, <2>3, BeginKeepsCustody, DropKeepsCustody, Zenon
  <2>4. QED
    BY <1>3, <1>7, <2>1, <2>3, Zenon DEF ForwardWithQueue
<1>8. CASE AfterFailure(t)
  <2>1. op[t] = "none" /\ job[t] \in Request /\ Hand(t) = job[t]
    BY <1>1, <1>8, Zenon DEF AfterFailure, Hand, Calling, ServiceTypes
  <2>2. CASE \E label \in {"enqueueing", "requeueing"} : BeginEnqueue(t, job[t], label)
    BY <1>4, <2>1, <2>2, DropKeepsCustody, Zenon
  <2>3. QED
    BY <1>2, <1>8, <2>1, <2>2, Zenon DEF AfterFailure
<1>9. CASE TryBackend(t) \/ AttemptFails(t) \/ GiveUpRetrying(t) \/ Unwind(t)
  <2>1. /\ UNCHANGED <<queue, answer, op, item, result, job>>
        /\ pc'[t] \in {"try", "sent", "failed", "panicked", "balancerPanic"}
    BY <1>1, <1>9, Zenon DEF TryBackend, AttemptFails, GiveUpRetrying, Unwind, Goto,
       queueVars, ServiceTypes
  <2>2. QED
    BY <1>5, <2>1, Zenon DEF Fresh
<1>10. CASE Respond(t)
  <2>1. /\ job[t] \in Request /\ Hand(t) = job[t] /\ op[t] = "none"
        /\ UNCHANGED <<queue, op>> /\ pc'[t] = "done" /\ job'[t] = Nil
        /\ answer' = [answer EXCEPT ![t] = job[t]]
    BY <1>1, <1>10, Zenon DEF Respond, Goto, Hand, Calling, queueVars, ServiceTypes
  <2>2. answer'[t] = job[t] /\ \A s \in Client : s # t => answer'[s] = answer[s]
    BY <1>1, <2>1, Zenon DEF ServiceTypes
  <2>3. Apart(t) /\ Hand(t)' = Nil
    BY <2>1, <2>2, StandApart, Zenon DEF Fresh, Hand, Returned
  <2>4. QED
    BY <2>1, <2>2, <2>3, AnswerKeepsCustody, Zenon
<1>11. CASE Enqueued(t) \/ Requeued(t)
  <2>1. op[t] = "none" /\ UNCHANGED queueVars
    BY <1>11, Zenon DEF Enqueued, Requeued, Returned
  <2>2. CASE Goto(t, "waiting") /\ UNCHANGED <<stage, job, attempt, answer, calls>>
    <3>1. pc'[t] = "waiting" /\ UNCHANGED <<queue, answer, op, item, result, job>>
      BY <1>1, <2>1, <2>2, Zenon DEF Goto, queueVars, ServiceTypes
    <3>2. QED
      BY <1>5, <3>1, Zenon DEF Fresh
  <2>3. QED
    BY <1>2, <1>11, <2>1, <2>2, Zenon DEF Enqueued, Requeued
<1>12. CASE ProcessQueuedRequest(t)
  <2>1. op[t] = "none" /\ job[t] = Nil
    BY <1>1, <1>12, Zenon DEF ProcessQueuedRequest, Calling, ServiceTypes
  <2>2. CASE /\ CallDequeue(t) /\ Goto(t, "dequeueing")
             /\ UNCHANGED <<stage, job, attempt, answer, calls>>
    <3>1. /\ UNCHANGED <<queue, answer, job>> /\ pc' = [pc EXCEPT ![t] = "dequeueing"]
          /\ item' = [item EXCEPT ![t] = Nil]
      BY <2>2, Zenon DEF CallDequeue, Goto
    <3>2. pc'[t] = "dequeueing" /\ item'[t] = Nil /\ job'[t] = Nil
      BY <1>1, <2>1, <3>1, Zenon DEF ServiceTypes
    <3>3. Apart(t) /\ Hand(t)' = Nil
      BY <3>1, <3>2, StandApart, Zenon DEF Fresh, Hand
    <3>4. QED
      BY <3>1, <3>3, DropKeepsCustody, Zenon
  <2>3. QED
    BY <1>2, <1>12, <2>1, <2>2, Zenon DEF ProcessQueuedRequest
<1>13. CASE Dequeued(t)
  <2>1. op[t] = "none" /\ job[t] = Nil /\ UNCHANGED queueVars
    BY <1>1, <1>13, Zenon DEF Dequeued, Returned, Calling, ServiceTypes
  <2>2. CASE result[t] = "ok" /\ StartDirect(t, item[t], "again")
    <3>1. /\ UNCHANGED <<queue, answer>> /\ pc'[t] = "try" /\ job'[t] = item[t]
          /\ item[t] # Nil /\ Returned(t, "dequeueing")
      BY <1>1, <1>13, <2>1, <2>2, Zenon DEF Dequeued, Calling, StartDirect, Goto,
         queueVars, ServiceTypes
    <3>2. Hand(t)' = Hand(t)
      BY <2>1, <2>2, <3>1, Zenon DEF Hand
    <3>3. Apart(t)
      BY <3>1, StandApart, Zenon DEF Fresh
    <3>4. QED
      BY <3>1, <3>2, <3>3, DropKeepsCustody, Zenon
  <2>3. QED
    BY <1>2, <1>13, <2>1, <2>2, Zenon DEF Dequeued
<1>14. QED
  BY <1>6, <1>7, <1>8, <1>9, <1>10, <1>11, <1>12, <1>13, Zenon DEF Handles, HandlerStep

\* The custody of requests holds throughout.
LEMMA CustodyKept == Spec => []Custody
<1>1. Init => Custody
  <2> SUFFICES ASSUME Init PROVE Custody
    BY Zenon
  <2>1. /\ \A t \in Client : Hand(t) = Nil /\ answer[t] = Nil
        /\ queue = <<>>
    BY Zenon DEF Init, QueueInit, Hand, Returned
  <2>2. \A t \in Client : t # Nil
    BY QueueAssumption, ServiceAssumption, Zenon
  <2>3. QED
    BY <2>1, <2>2 DEF Custody
<1>2. ASSUME ServiceInv, Custody, [Next]_vars PROVE Custody'
  <2>1. CASE UNCHANGED <<flowVars, queue, op, item, result, counters>>
    BY <1>2, <2>1 DEF Custody, Hand, Fresh, Returned, flowVars
  <2>2. QED
    BY <1>2, <2>1, StepOfOne, CallKeepsCustody, FlowKeepsCustody, Zenon
<1>3. QED
  BY <1>1, <1>2, ServiceKept, PTL DEF Spec

-----------------------------------------------------------------------------
\* The handlers are finitely many.
LEMMA ClientsFinite ==
  \A S \in SUBSET Client : IsFiniteSet(S) /\ Cardinality(S) \in Nat
BY ServiceAssumption, FS_Subset, FS_CardinalityType, Zenon

\* A set of handlers that t alone may join grows by one at most.
LEMMA OneMore ==
  ASSUME NEW S \in SUBSET Client, NEW T \in SUBSET Client, NEW t \in Client, T \subseteq S \cup {t}
  PROVE  Cardinality(T) <= Cardinality(S) + 1
<1>1. S \cup {t} \in SUBSET Client
  BY Zenon
<1>2. Cardinality(T) <= Cardinality(S \cup {t})
  BY <1>1, ClientsFinite, FS_Subset, Zenon
<1>3. Cardinality(S \cup {t}) <= Cardinality(S) + 1
  BY ClientsFinite, FS_AddElement
<1>4. QED
  BY <1>1, <1>2, <1>3, ClientsFinite

\* A set of handlers that t leaves, and nobody joins, shrinks by one at least.
LEMMA OneLess ==
  ASSUME NEW S \in SUBSET Client, NEW t \in S, NEW T \in SUBSET (S \ {t})
  PROVE  Cardinality(T) <= Cardinality(S) - 1
<1>1. S \ {t} \in SUBSET Client
  BY Zenon
<1>2. Cardinality(T) <= Cardinality(S \ {t})
  BY <1>1, ClientsFinite, FS_Subset, Zenon
<1>3. Cardinality(S \ {t}) = Cardinality(S) - 1
  BY ClientsFinite, FS_RemoveElement, Zenon
<1>4. QED
  BY <1>2, <1>3, Zenon

\* A step that leaves the queue alone makes nobody wait for a request.
LEMMA OwedLess ==
  ASSUME ServiceInv, EnoughQueued, Owed' \subseteq Owed, queue' = queue
  PROVE  EnoughQueued'
<1>1. Owed \in SUBSET Client /\ Owed' \in SUBSET Client
  BY Zenon DEF Owed
<1>2. Cardinality(Owed') <= Cardinality(Owed)
  BY <1>1, ClientsFinite, FS_Subset, Zenon
<1>3. Len(queue) \in Nat
  BY DEF ServiceInv, ServiceTypes
<1>4. QED
  BY <1>1, <1>2, <1>3, ClientsFinite DEF EnoughQueued

\* A request is in the queue before its handler waits for one.
LEMMA SendKeepsEnough ==
  ASSUME ServiceInv, EnoughQueued, NEW t \in Client, Send(t), UNCHANGED flowVars
  PROVE  EnoughQueued'
<1>1. ServiceTypes /\ UNCHANGED pc
  BY Zenon DEF ServiceInv, flowVars
<1>2. CASE closed
  <2>1. queue' = queue /\ op' = [op EXCEPT ![t] = "none"] /\ result' = [result EXCEPT ![t] = "panic"]
    BY <1>2, Zenon DEF Send, Finish, At
  <2>2. Owed' \subseteq Owed
    BY <1>1, <2>1, Zenon DEF Owed, Returned, ServiceTypes, ServiceInv, Calling
  <2>3. QED
    BY <2>1, <2>2, OwedLess, Zenon
<1>3. CASE ~closed
  <2>1. /\ queue' = Append(queue, item[t]) /\ op' = [op EXCEPT ![t] = "sent"] /\ result' = result
    BY <1>3, Zenon DEF Send, At
  <2>2. Owed' \subseteq Owed \cup {t} /\ Owed \in SUBSET Client /\ Owed' \in SUBSET Client
    BY <1>1, <2>1, Zenon DEF Owed, Returned, ServiceTypes
  <2>3. Cardinality(Owed') <= Cardinality(Owed) + 1
    BY <2>2, OneMore, Zenon
  <2>4. Len(queue') = Len(queue) + 1 /\ Len(queue) \in Nat
    BY <1>1, <2>1 DEF ServiceTypes, ServiceInv, Calling, Send
  <2>5. QED
    BY <2>2, <2>3, <2>4, ClientsFinite DEF EnoughQueued
<1>4. QED
  BY <1>2, <1>3, Zenon

\* Whoever receives stops waiting; the queue was not empty.
LEMMA ReceiveKeepsEnough ==
  ASSUME ServiceInv, EnoughQueued, NEW t \in Client, Receive(t), UNCHANGED flowVars
  PROVE  queue # <<>> /\ EnoughQueued'
<1>1. ServiceTypes /\ UNCHANGED <<pc, result>> /\ Calling(t)
      /\ op[t] = "receiving" /\ op' = [op EXCEPT ![t] = "received"]
  BY Zenon DEF ServiceInv, flowVars, Receive, At
<1>2. t \in Owed /\ Owed' \in SUBSET (Owed \ {t}) /\ Owed \in SUBSET Client
  BY <1>1, Zenon DEF Owed, Returned, ServiceTypes, Calling
<1>3. Cardinality(Owed') <= Cardinality(Owed) - 1
  BY <1>2, OneLess, Zenon
<1>4. Cardinality(Owed) > 0 /\ Cardinality(Owed) \in Nat /\ Cardinality(Owed') \in Nat
  <2>1. Cardinality(Owed) \in Nat /\ Cardinality(Owed') \in Nat
    BY <1>2, ClientsFinite, Zenon
  <2>2. QED
    BY <1>3, <2>1
<1>5. Len(queue) \in Nat /\ Cardinality(Owed) <= Len(queue)
  BY <1>1 DEF ServiceTypes, EnoughQueued
<1>6. queue # <<>>
  BY <1>4, <1>5
<1>7. queue' = Tail(queue)
  BY <1>6, Zenon DEF Receive
<1>8. Len(queue') = Len(queue) - 1
  BY <1>1, <1>6, <1>7 DEF ServiceTypes
<1>9. QED
  BY <1>3, <1>4, <1>5, <1>6, <1>8 DEF EnoughQueued

\* No other step of a handler makes it wait.
LEMMA FlowKeepsEnough ==
  ASSUME ServiceInv, NEW t \in Client, Handles(t), ~(InQueueCall(t) /\ (Send(t) \/ Receive(t)))
  PROVE  queue' = queue /\ (t \in Owed' => t \in Owed)
<1>1. ServiceTypes /\ Calling(t)
  BY Zenon DEF ServiceInv
<1>2. CASE InQueueCall(t)
  <2>1. UNCHANGED <<pc, queue>>
    BY <1>2, Zenon DEF InQueueCall, QueueStep, flowVars, CountEnqueued, Drop,
       CountDropped,
                CountDequeued, GiveUp
  <2>2. \/ op[t] = "sent" /\ op'[t] = "none"
        \/ op'[t] = "none" /\ op[t] = "received"
        \/ op'[t] = "none" /\ result'[t] # "ok"
        \/ op'[t] = "dropping"
    BY <1>1, <1>2, Zenon DEF InQueueCall, QueueStep, CountEnqueued, Drop, CountDropped,
                      CountDequeued, GiveUp, Finish, At, ServiceTypes
  <2>3. QED
    BY <1>1, <2>1, <2>2, Zenon DEF Owed, Returned, Calling
<1>3. ASSUME pc'[t] \in {"done", "status", "try", "failed", "sent", "panicked",
                         "balancerPanic"},
             op[t] = "none", UNCHANGED queueVars
      PROVE  queue' = queue /\ t \notin Owed'
  BY <1>3, Zenon DEF Owed, Returned, queueVars
<1>4. ASSUME NEW req, NEW label, BeginEnqueue(t, req, label),
             label \in {"enqueueing", "requeueing"}
      PROVE  queue' = queue /\ t \notin Owed'
  <2>1. /\ queue' = queue /\ pc'[t] = label
        /\ op'[t] = "sending" \/ (op'[t] = "none" /\ result'[t] = "closed")
    <3>1. /\ queue' = queue /\ pc' = [pc EXCEPT ![t] = label]
          /\ \/ op' = [op EXCEPT ![t] = "none"] /\ result' = [result EXCEPT ![t] = "closed"]
             \/ op' = [op EXCEPT ![t] = "sending"]
      BY <1>4, Zenon DEF BeginEnqueue, CallEnqueue, Finish, At, Goto
    <3>2. QED
      BY <1>1, <3>1, Zenon DEF ServiceTypes
  <2>2. QED
    BY <1>4, <2>1, Zenon DEF Owed, Returned
<1>5. CASE Forward(t) \/ TryBackend(t) \/ Respond(t) \/ AttemptFails(t) \/ GiveUpRetrying(t)
           \/ Dequeued(t) \/ Requeued(t) \/ Unwind(t)
  <2>1. op[t] = "none" /\ UNCHANGED queueVars
    BY <1>1, <1>5, Zenon DEF Forward, TryBackend, Respond, AttemptFails,
       GiveUpRetrying, Dequeued,
                      Requeued, Unwind, Returned, ServiceTypes, Calling
  <2>2. pc'[t] \in {"done", "status", "try", "failed", "sent", "panicked",
                         "balancerPanic"}
    BY <1>1, <1>5, Zenon DEF Forward, TryBackend, Respond, AttemptFails,
       GiveUpRetrying, Dequeued,
                      Requeued, Unwind, Fail, StartDirect, Goto, ServiceTypes
  <2>3. QED
    BY <1>3, <2>1, <2>2, Zenon
<1>6. CASE ForwardWithQueue(t)
  BY <1>1, <1>3, <1>4, <1>6, Zenon DEF ForwardWithQueue, StartDirect, Goto,
     ServiceTypes, Calling
<1>7. CASE AfterFailure(t)
  BY <1>1, <1>3, <1>4, <1>7, Zenon DEF AfterFailure, Fail, Goto, ServiceTypes, Calling
<1>8. CASE Enqueued(t)
  BY <1>1, <1>3, <1>8, Zenon DEF Enqueued, Returned, Fail, Goto, ServiceTypes, Owed,
     queueVars
<1>9. CASE ProcessQueuedRequest(t)
  <2>1. queue' = queue /\ t \in Owed
    BY <1>9, Zenon DEF ProcessQueuedRequest, Owed, queueVars, CallDequeue
  <2>2. QED
    BY <2>1, Zenon
<1>10. QED
  BY <1>2, <1>5, <1>6, <1>7, <1>8, <1>9, Zenon DEF Handles, HandlerStep

\* For any number of handlers and any capacity there is a request in the queue
\* for every handler that waits for one: Dequeue never blocks on an empty queue.
THEOREM QueueNeverShort == Spec => []EnoughQueued
<1>1. Init => EnoughQueued
  <2> SUFFICES ASSUME Init PROVE EnoughQueued
    BY Zenon
  <2>1. Owed = {}
    BY Zenon DEF Init, QueueInit, Owed, Returned
  <2>2. QED
    BY <2>1, FS_EmptySet DEF Init, QueueInit, EnoughQueued
<1>2. ASSUME ServiceInv, EnoughQueued, [Next]_vars PROVE EnoughQueued'
  <2>1. CASE UNCHANGED <<flowVars, queue, op, item, result, counters>>
    BY <1>2, <2>1, Zenon DEF EnoughQueued, Owed, Returned, flowVars
  <2>2. ASSUME NEW t \in Client, Handles(t), Moves(t) PROVE EnoughQueued'
    <3>1. CASE InQueueCall(t) /\ (Send(t) \/ Receive(t))
      BY <1>2, <3>1, SendKeepsEnough, ReceiveKeepsEnough, Zenon DEF InQueueCall
    <3>2. CASE ~(InQueueCall(t) /\ (Send(t) \/ Receive(t)))
      <4>1. queue' = queue /\ (t \in Owed' => t \in Owed)
        BY <1>2, <2>2, <3>2, FlowKeepsEnough, Zenon
      <4>2. Owed' \subseteq Owed
        BY <2>2, <4>1, Zenon DEF Moves, Undisturbed, Owed, Returned
      <4>3. QED
        BY <1>2, <4>1, <4>2, OwedLess, Zenon
    <3>3. QED
      BY <3>1, <3>2, Zenon
  <2>3. QED
    BY <1>2, <2>1, <2>2, StepOfOne, Zenon
<1>3. QED
  BY <1>1, <1>2, ServiceKept, PTL DEF Spec

\* A set of handlers that exactly t joins.
LEMMA Joins ==
  ASSUME NEW S \in SUBSET Client, NEW t \in Client, t \notin S
  PROVE  Cardinality(S \cup {t}) = Cardinality(S) + 1
BY ClientsFinite, FS_AddElement, Zenon

\* A set of handlers that exactly t leaves.
LEMMA Leaves ==
  ASSUME NEW S \in SUBSET Client, NEW t \in S
  PROVE  Cardinality(S \ {t}) = Cardinality(S) - 1
BY ClientsFinite, FS_RemoveElement, Zenon

\* Only the steps inside a call of the queue matter to the counters.
LEMMA OutsideCalls ==
  ASSUME ServiceInv, NEW t \in Client, Handles(t), Moves(t), ~InQueueCall(t)
  PROVE  /\ UNCHANGED <<queue, counters>>
         /\ In("sent")' = In("sent") /\ In("received")' = In("received")
         /\ NilReceived' = NilReceived /\ Phantoms' = Phantoms
<1>1. ServiceTypes /\ Calling(t)
  BY Zenon DEF ServiceInv
<1>2. CASE UNCHANGED queueVars
  BY <1>2, Zenon DEF queueVars, counters, In, NilReceived, Phantoms
<1>3. ASSUME UNCHANGED <<queue, counters>>, op[t] = "none", result[t] # "panic",
             op'[t] \in {"sending", "receiving"} \/ result'[t] # "panic",
             op'[t] \in {"none", "sending", "receiving"}
      PROVE  /\ UNCHANGED <<queue, counters>>
             /\ In("sent")' = In("sent") /\ In("received")' = In("received")
             /\ NilReceived' = NilReceived /\ Phantoms' = Phantoms
  BY <1>3 DEF Moves, Undisturbed, In, NilReceived, Phantoms
<1>4. ASSUME NEW req, CallEnqueue(t, req) \/ CallDequeue(t)
      PROVE  /\ UNCHANGED <<queue, counters>> /\ op[t] = "none" /\ result[t] # "panic"
             /\ op'[t] \in {"sending", "receiving"} \/ result'[t] # "panic"
             /\ op'[t] \in {"none", "sending", "receiving"}
  <2>1. /\ UNCHANGED <<queue, counters>> /\ op[t] = "none" /\ result[t] # "panic"
        /\ \/ op' = [op EXCEPT ![t] = "none"] /\ result' = [result EXCEPT ![t] = "closed"]
           \/ op' = [op EXCEPT ![t] = "sending"]
           \/ op' = [op EXCEPT ![t] = "receiving"]
    BY <1>4, Zenon DEF CallEnqueue, CallDequeue, Finish, At
  <2>2. QED
    BY <1>1, <2>1, Zenon DEF ServiceTypes
<1>5. UNCHANGED queueVars \/ CallDequeue(t) \/ \E req : CallEnqueue(t, req)
  BY Zenon DEF Handles, HandlerStep, Forward, TryBackend, Respond, AttemptFails,
     GiveUpRetrying,
         Dequeued, Requeued, Unwind, ForwardWithQueue, AfterFailure, Enqueued,
         ProcessQueuedRequest, BeginEnqueue
<1>6. QED
  BY <1>2, <1>3, <1>4, <1>5, Zenon

\* A step inside a call moves a request from one side of the account to the
\* other together with what stands for it.
LEMMA CountStep ==
  ASSUME ServiceInv, CountersAccount, enqueuedCount \in Nat, dequeuedCount \in Nat,
         NEW t \in Client, InQueueCall(t), Moves(t)
  PROVE  CountersAccount' /\ enqueuedCount' \in Nat /\ dequeuedCount' \in Nat
<1> DEFINE S == In("sent")
           R == In("received")
           N == NilReceived
           P == Phantoms
           s == Cardinality(S)
           r == Cardinality(R)
           n == Cardinality(N)
           p == Cardinality(P)
           l == Len(queue)
<1>1. ServiceTypes /\ Calling(t) /\ Panicking(t)
  BY Zenon DEF ServiceInv
<1>2. S \in SUBSET Client /\ R \in SUBSET Client /\ N \in SUBSET Client /\ P \in SUBSET Client
  BY Zenon DEF In, NilReceived, Phantoms
<1>3. s \in Nat /\ r \in Nat /\ n \in Nat /\ p \in Nat /\ l \in Nat
  BY <1>1, <1>2, ClientsFinite DEF ServiceTypes
<1>4. enqueuedCount + s + n + p = dequeuedCount + r + l
  BY Zenon DEF CountersAccount
<1> SUFFICES /\ enqueuedCount' \in Nat /\ dequeuedCount' \in Nat
             /\ enqueuedCount' + s' + n' + p' = dequeuedCount' + r' + l'
  BY Zenon DEF CountersAccount
<1> HIDE DEF S, R, N, P, s, r, n, p, l
<1>5. CASE Send(t) /\ ~closed
  <2>1. /\ op[t] = "sending" /\ op'[t] = "sent" /\ queue' = Append(queue, item[t])
        /\ UNCHANGED <<item, result, enqueuedCount, dequeuedCount>>
    BY <1>1, <1>5, Zenon DEF Send, At, ServiceTypes, counters
  <2>2. S' = S \cup {t} /\ t \notin S /\ R' = R /\ N' = N /\ P' = P
    BY <2>1, Zenon DEF Moves, Undisturbed, S, R, N, P, In, NilReceived, Phantoms
  <2>3. Len(queue') = Len(queue) + 1
    <3>1. queue \in Seq(Request) /\ item[t] \in Request
      BY <1>1, <2>1, Zenon DEF ServiceTypes, Calling
    <3>2. QED
      BY <2>1, <3>1
  <2>4. s' = s + 1 /\ r' = r /\ n' = n /\ p' = p /\ l' = l + 1
    BY <1>2, <2>2, <2>3, Joins, Zenon DEF s, r, n, p, l
  <2>5. enqueuedCount' = enqueuedCount /\ dequeuedCount' = dequeuedCount
    BY <2>1, Zenon
  <2>6. QED
    BY <1>3, <1>4, <2>4, <2>5
<1>6. CASE Send(t) /\ closed
  <2>1. /\ op[t] = "sending" /\ op'[t] = "none" /\ item[t] # Nil
        /\ UNCHANGED <<item, queue, enqueuedCount, dequeuedCount>>
    BY <1>1, <1>6, Zenon DEF Send, Finish, At, ServiceTypes, Calling, counters
  <2>2. S' = S /\ R' = R /\ N' = N /\ P' = P
    BY <2>1, Zenon DEF Moves, Undisturbed, S, R, N, P, In, NilReceived, Phantoms
  <2>3. s' = s /\ r' = r /\ n' = n /\ p' = p /\ l' = l
    BY <2>1, <2>2, Zenon DEF s, r, n, p, l
  <2>4. QED
    BY <1>3, <1>4, <2>1, <2>3, Zenon
<1>7. CASE CountEnqueued(t)
  <2>1. /\ op[t] = "sent" /\ op'[t] = "none" /\ result'[t] = "ok" /\ enqueuedCount' = enqueuedCount + 1
        /\ UNCHANGED <<item, queue, dequeuedCount>>
    BY <1>1, <1>7, Zenon DEF CountEnqueued, Finish, At, ServiceTypes
  <2>2. S' = S \ {t} /\ t \in S /\ R' = R /\ N' = N /\ P' = P
    BY <2>1, Zenon DEF Moves, Undisturbed, S, R, N, P, In, NilReceived, Phantoms
  <2>3. s' = s - 1 /\ r' = r /\ n' = n /\ p' = p /\ l' = l
    BY <1>2, <2>1, <2>2, Leaves, Zenon DEF s, r, n, p, l
  <2>4. QED
    BY <1>3, <1>4, <2>1, <2>3
<1>8. CASE Drop(t) \/ CountDropped(t) \/ GiveUp(t)
  <2>1. /\ op[t] \in {"sending", "dropping", "receiving"} /\ op'[t] \in {"none", "dropping"}
        /\ op'[t] = "none" => result'[t] # "panic"
        /\ UNCHANGED <<item, queue, enqueuedCount, dequeuedCount>>
    BY <1>1, <1>8, Zenon DEF Drop, CountDropped, GiveUp, Finish, At, ServiceTypes,
       counters
  <2>2. S' = S /\ R' = R /\ N' = N /\ P' = P
    BY <2>1 DEF Moves, Undisturbed, S, R, N, P, In, NilReceived, Phantoms
  <2>3. s' = s /\ r' = r /\ n' = n /\ p' = p /\ l' = l
    BY <2>1, <2>2, Zenon DEF s, r, n, p, l
  <2>4. QED
    BY <1>3, <1>4, <2>1, <2>3, Zenon
<1>9. CASE Receive(t) /\ queue # <<>>
  <2>1. /\ op[t] = "receiving" /\ op'[t] = "received" /\ queue' = Tail(queue)
        /\ item'[t] = Head(queue) /\ UNCHANGED <<result, enqueuedCount, dequeuedCount>>
    BY <1>1, <1>9, Zenon DEF Receive, At, ServiceTypes, counters
  <2>2. item'[t] # Nil /\ Len(queue') = Len(queue) - 1
    BY <1>1, <1>9, <2>1, QueueAssumption DEF ServiceTypes
  <2>3. S' = S /\ R' = R \cup {t} /\ t \notin R /\ N' = N /\ P' = P
    BY <2>1, <2>2 DEF Moves, Undisturbed, S, R, N, P, In, NilReceived, Phantoms
  <2>4. s' = s /\ r' = r + 1 /\ n' = n /\ p' = p /\ l' = l - 1
    BY <1>2, <2>2, <2>3, Joins, Zenon DEF s, r, n, p, l
  <2>5. enqueuedCount' = enqueuedCount /\ dequeuedCount' = dequeuedCount
    BY <2>1, Zenon
  <2>6. QED
    BY <1>3, <1>4, <2>4, <2>5
<1>10. CASE Receive(t) /\ queue = <<>>
  <2>1. /\ op[t] = "receiving" /\ op'[t] = "received" /\ item[t] = Nil
        /\ UNCHANGED <<item, queue, result, enqueuedCount, dequeuedCount>>
    BY <1>1, <1>10, Zenon DEF Receive, At, ServiceTypes, Calling, counters
  <2>2. S' = S /\ R' = R \cup {t} /\ t \notin R /\ N' = N \cup {t} /\ t \notin N /\ P' = P
    BY <2>1, Zenon DEF Moves, Undisturbed, S, R, N, P, In, NilReceived, Phantoms
  <2>3. s' = s /\ r' = r + 1 /\ n' = n + 1 /\ p' = p /\ l' = l
    BY <1>2, <2>1, <2>2, Joins, Zenon DEF s, r, n, p, l
  <2>4. enqueuedCount' = enqueuedCount /\ dequeuedCount' = dequeuedCount
    BY <2>1, Zenon
  <2>5. QED
    BY <1>3, <1>4, <2>3, <2>4
<1>11. CASE CountDequeued(t)
  <2>1. /\ op[t] = "received" /\ op'[t] = "none" /\ dequeuedCount' = dequeuedCount + 1
        /\ result'[t] = IF item[t] = Nil THEN "panic" ELSE "ok"
        /\ UNCHANGED <<item, queue, enqueuedCount>>
    BY <1>1, <1>11, Zenon DEF CountDequeued, Finish, At, ServiceTypes
  <2>2. S' = S /\ R' = R \ {t} /\ t \in R
    BY <2>1, Zenon DEF Moves, Undisturbed, S, R, In
  <2>3. CASE item[t] = Nil
    <3>1. N' = N \ {t} /\ t \in N /\ P' = P \cup {t} /\ t \notin P
      BY <2>1, <2>3 DEF Moves, Undisturbed, N, P, In, NilReceived, Phantoms
    <3>2. s' = s /\ r' = r - 1 /\ n' = n - 1 /\ p' = p + 1 /\ l' = l
      BY <1>2, <2>1, <2>2, <3>1, Joins, Leaves, Zenon DEF s, r, n, p, l
    <3>3. QED
      BY <1>3, <1>4, <2>1, <3>2
  <2>4. CASE item[t] # Nil
    <3>1. N' = N /\ P' = P
      BY <2>1, <2>4 DEF Moves, Undisturbed, N, P, In, NilReceived, Phantoms
    <3>2. s' = s /\ r' = r - 1 /\ n' = n /\ p' = p /\ l' = l
      BY <1>2, <2>1, <2>2, <3>1, Leaves, Zenon DEF s, r, n, p, l
    <3>3. QED
      BY <1>3, <1>4, <2>1, <3>2
  <2>5. QED
    BY <2>3, <2>4, Zenon
<1>12. QED
  BY <1>5, <1>6, <1>7, <1>8, <1>9, <1>10, <1>11, Zenon DEF InQueueCall, QueueStep

\* The counters of the queue account for every request, for any number of
\* handlers and any capacity, across drops, cancellations, timeouts and Close.
THEOREM CountersAddUp == Spec => []CountersAccount
<1> DEFINE Account == CountersAccount /\ enqueuedCount \in Nat /\ dequeuedCount \in Nat
<1>1. Init => Account
  <2> SUFFICES ASSUME Init PROVE Account
    BY Zenon
  <2>1. In("sent") = {} /\ In("received") = {} /\ NilReceived = {} /\ Phantoms = {}
    BY Zenon DEF Init, QueueInit, In, NilReceived, Phantoms
  <2>2. /\ Cardinality(In("sent")) = 0 /\ Cardinality(In("received")) = 0
        /\ Cardinality(NilReceived) = 0 /\ Cardinality(Phantoms) = 0
    BY <2>1, FS_EmptySet, Zenon
  <2>3. Len(queue) = 0 /\ enqueuedCount = 0 /\ dequeuedCount = 0
    BY Zenon DEF Init, QueueInit
  <2>4. QED
    BY <2>2, <2>3 DEF CountersAccount
<1>2. ASSUME ServiceInv, Account, [Next]_vars PROVE Account'
  <2>1. CASE UNCHANGED <<flowVars, queue, op, item, result, counters>>
    BY <1>2, <2>1, Zenon DEF CountersAccount, In, NilReceived, Phantoms, counters
  <2>2. ASSUME NEW t \in Client, Handles(t), Moves(t) PROVE Account'
    <3>1. CASE InQueueCall(t)
      BY <1>2, <2>2, <3>1, CountStep, Zenon
    <3>2. CASE ~InQueueCall(t)
      <4>1. /\ UNCHANGED <<queue, counters>>
            /\ In("sent")' = In("sent") /\ In("received")' = In("received")
            /\ NilReceived' = NilReceived /\ Phantoms' = Phantoms
        BY <1>2, <2>2, <3>2, OutsideCalls, Zenon
      <4>2. QED
        BY <1>2, <4>1, Zenon DEF CountersAccount, counters
    <3>3. QED
      BY <3>1, <3>2, Zenon
  <2>3. QED
    BY <1>2, <2>1, <2>2, StepOfOne, Zenon
<1>3. QED
  BY <1>1, <1>2, ServiceKept, PTL DEF Spec

\* A set without two different elements.
LEMMA AtMostOne ==
  ASSUME NEW S, \A x, y \in S : x = y
  PROVE  Cardinality(S) = IF S = {} THEN 0 ELSE 1
<1>1. CASE S = {}
  BY <1>1, FS_EmptySet, Zenon
<1>2. CASE S # {}
  <2>1. PICK x \in S : S = {x}
    BY <1>2, Zenon
  <2>2. QED
    BY <1>2, <2>1, FS_Singleton, Zenon
<1>3. QED
  BY <1>1, <1>2, Zenon

\* What the custody of requests says of the places of one request.
LEMMA CustodyIsSingle ==
  ASSUME ServiceInv, Custody
  PROVE  SingleCustody
<1> SUFFICES ASSUME NEW q \in Request
             PROVE  Cardinality(Holders(q)) + Cardinality(Waiting(q)) + Cardinality(Answered(q)) <= 1
  BY Zenon DEF SingleCustody
<1>1. q # Nil
  BY QueueAssumption, Zenon
<1>2. \A t \in Holders(q) : t \in Client /\ Hand(t) = q
  <2>1. ASSUME NEW t \in Holders(q) PROVE Hand(t) = q
    <3>1. t \in Client /\ Calling(t) /\ ServiceTypes
      BY Zenon DEF Holders, ServiceInv
    <3>2. CASE job[t] = q
      BY <1>1, <3>2, Zenon DEF Hand
    <3>3. CASE op[t] \in {"sending", "received"} /\ item[t] = q
      BY <3>1, <3>3, Zenon DEF Hand, Calling
    <3>4. CASE Returned(t, "dequeueing") /\ result[t] = "ok" /\ item[t] = q
      BY <3>1, <3>4, Zenon DEF Hand, Calling, Returned
    <3>5. QED
      BY <3>2, <3>3, <3>4, Zenon DEF Holders
  <2>2. QED
    BY <2>1, Zenon DEF Holders
<1>3. \A s, t \in Holders(q) : s = t
  BY <1>1, <1>2 DEF Custody
<1>4. \A i, j \in Waiting(q) : i = j
  BY Zenon DEF Custody, Waiting
<1>5. \A s, t \in Answered(q) : s = t
  BY <1>1, Zenon DEF Custody, Answered
<1>6. Holders(q) = {} \/ Waiting(q) = {}
  BY <1>2 DEF Custody, Waiting
<1>7. Holders(q) = {} \/ Answered(q) = {}
  BY <1>1, <1>2 DEF Custody, Answered
<1>8. Waiting(q) = {} \/ Answered(q) = {}
  BY Zenon DEF Custody, Waiting, Answered
<1>9. /\ Cardinality(Holders(q)) = IF Holders(q) = {} THEN 0 ELSE 1
      /\ Cardinality(Waiting(q)) = IF Waiting(q) = {} THEN 0 ELSE 1
      /\ Cardinality(Answered(q)) = IF Answered(q) = {} THEN 0 ELSE 1
  BY <1>3, <1>4, <1>5, AtMostOne, Zenon
<1>10. QED
  BY <1>6, <1>7, <1>8, <1>9

\* However many handlers pass requests through the queue, a request is in one
\* place at a time, and is answered once and not forwarded after that.
THEOREM OnePlaceAtATime == Spec => []SingleCustody
BY ServiceKept, CustodyKept, CustodyIsSingle, PTL
=============================================================================
