-------------------------- MODULE ThreadPoolProofs --------------------------
(***************************************************************************)
(* Proofs about ThreadPool, for every number of workers, clients and items *)
(* and every queue depth, and about AsyncOps, which runs on top of it.     *)
(* The proofs that count threads are in WakeupProofs.                      *)
(***************************************************************************)
EXTENDS AsyncOps, TLAPS

\* The capacity of the queue is a positive natural number.
LEMMA CapacityPos == Capacity \in Nat \ {0}
BY DepthAssumption DEF Capacity

-----------------------------------------------------------------------------
(* Type correctness and control.  TypeOK is not inductive alone: that the  *)
(* running item of a worker is an item rests on where the worker is.       *)

\* How the places of the threads, the flags and the items hang together.
Control ==
    /\ \A w \in Workers : worker[w] = "run" <=> running[w] \in Items
    /\ \A t \in Threads : submit[t] # "out" <=> item[t] \in Items
    /\ \A w \in Workers : submit[w] # "out" => worker[w] = "run"
    /\ shutdown <=> destroy # "live"
    /\ destroy = "freed" => \A w \in Workers : worker[w] = "exited"
    /\ ClientsQuiesce /\ destroy # "live" =>
            \A c \in Clients : submit[c] = "out"

CoreInv == TypeOK /\ Control /\ ExitMeansDrained /\ QueueBounded

\* The core invariant holds when thread_pool_create returns.
LEMMA InitCore == Init => CoreInv
<1> SUFFICES ASSUME Init PROVE CoreInv
  BY Zenon
<1>1. TypeOK
  <2>1. queue = <<>>
    BY Zenon DEF Init
  <2>2. queue \in Seq(Items)
    BY <2>1
  <2> QED
    BY <2>2, Zenon DEF Init, TypeOK
<1>2. Control
  BY ItemsAssumption, Zenon DEF Init, Control, Threads
<1>3. ExitMeansDrained /\ QueueBounded
  BY CapacityPos DEF Init, ExitMeansDrained, QueueBounded
<1> QED
  BY <1>1, <1>2, <1>3, Zenon DEF CoreInv

\* Every critical section of the pool preserves the core invariant.
LEMMA NextCore == CoreInv /\ [Next]_vars => CoreInv'
<1> SUFFICES ASSUME CoreInv, [Next]_vars PROVE CoreInv'
  BY Zenon
<1> USE CapacityPos, ItemsAssumption, ThreadsAssumption
    DEF CoreInv, TypeOK, Control, ExitMeansDrained, QueueBounded, Threads
<1>1. ASSUME NEW w \in Workers, WorkerWait(w) PROVE CoreInv'
  BY <1>1 DEF WorkerWait, WorkerMustWait
<1>2. ASSUME NEW w \in Workers, WorkerExit(w) PROVE CoreInv'
  BY <1>2, Zenon DEF WorkerExit
<1>3. ASSUME NEW w \in Workers, WorkerDequeue(w) PROVE CoreInv'
  <2>1. queue # <<>>
    BY <1>3, Zenon DEF WorkerDequeue, WorkerMustWait
  <2>2. /\ Head(queue) \in Items
        /\ Tail(queue) \in Seq(Items)
        /\ Len(Tail(queue)) = Len(queue) - 1
    BY <2>1
  <2>3. /\ submit' \in [Threads -> {"out", "lock", "wait"}]
        /\ \A t \in Threads : submit'[t] = "out" <=> submit[t] = "out"
    BY <1>3 DEF WorkerDequeue, SignalNotFull, NotFullWaiters
  <2>4. TypeOK'
    BY <1>3, <2>2, <2>3, Zenon DEF WorkerDequeue
  <2>5. Control'
    BY <1>3, <2>1, <2>2, <2>3, Zenon DEF WorkerDequeue
  <2>6. ExitMeansDrained' /\ QueueBounded'
    BY <1>3, <2>1, <2>2 DEF WorkerDequeue
  <2> QED
    BY <2>4, <2>5, <2>6, Zenon
<1>4. ASSUME NEW w \in Workers, WorkerFinish(w) PROVE CoreInv'
  BY <1>4 DEF WorkerFinish
<1>5. ASSUME NEW t \in Threads, NEW i \in Items, SubmitCall(t, i)
      PROVE CoreInv'
  BY <1>5 DEF SubmitCall, MayCallSubmit
<1>6. ASSUME NEW t \in Threads, NEW i \in Items, SubmitNoMemory(t, i)
      PROVE CoreInv'
  BY <1>6 DEF SubmitNoMemory
<1>7. ASSUME NEW t \in Threads, SubmitWait(t) PROVE CoreInv'
  BY <1>7, Zenon DEF SubmitWait
<1>8. ASSUME NEW t \in Threads, SubmitReject(t) PROVE CoreInv'
  BY <1>8 DEF SubmitReject
<1>9. ASSUME NEW t \in Threads, SubmitEnqueue(t) PROVE CoreInv'
  <2>1. item[t] \in Items
    BY <1>9, Zenon DEF SubmitEnqueue
  <2>2. /\ Append(queue, item[t]) \in Seq(Items)
        /\ Len(Append(queue, item[t])) = Len(queue) + 1
    BY <2>1
  <2>3. /\ worker' \in [Workers -> {"loop", "wait", "run", "exited"}]
        /\ \A w \in Workers : /\ worker'[w] = "run" <=> worker[w] = "run"
                              /\ worker'[w] = "exited" <=> worker[w] = "exited"
    BY <1>9, ZenonT(60) DEF SubmitEnqueue, SignalNotEmpty, NotEmptyWaiters
  <2>4. TypeOK'
    BY <1>9, <2>2, <2>3, Zenon DEF SubmitEnqueue
  <2>5. Control'
    BY <1>9, <2>3, Zenon DEF SubmitEnqueue
  <2>6. ExitMeansDrained' /\ QueueBounded'
    BY <1>9, <2>2, <2>3 DEF SubmitEnqueue, SubmitMustWait
  <2> QED
    BY <2>4, <2>5, <2>6, Zenon
<1>10. ASSUME NEW w \in Workers, SpuriousWakeWorker(w) PROVE CoreInv'
  BY <1>10 DEF SpuriousWakeWorker
<1>11. ASSUME NEW t \in Threads, SpuriousWakeSubmitter(t) PROVE CoreInv'
  BY <1>11, Zenon DEF SpuriousWakeSubmitter
<1>12. CASE DestroyBegin
  BY <1>12, Zenon DEF DestroyBegin
<1>13. CASE DestroyFree
  BY <1>13, Zenon DEF DestroyFree
<1>14. CASE UNCHANGED vars
  BY <1>14, Zenon DEF vars
<1> QED
  BY <1>1, <1>2, <1>3, <1>4, <1>5, <1>6, <1>7, <1>8, <1>9, <1>10, <1>11,
     <1>12, <1>13, <1>14, Zenon DEF Next, WorkerStep, SubmitStep, Terminated

\* The core invariant holds throughout the life of the pool.
THEOREM CoreCorrect == Spec => []CoreInv
BY InitCore, NextCore, PTL DEF Spec

-----------------------------------------------------------------------------
(* The consequences of the core invariant.                                 *)

\* Type correctness of the whole pool.
THEOREM TypeCorrect == Spec => []TypeOK
BY CoreCorrect, PTL DEF CoreInv

\* The queue never outgrows queue_capacity, whatever the number of submitters
\* that thread_pool_submit has put to sleep and that wake up together.
THEOREM QueueBoundedCorrect == Spec => []QueueBounded
BY CoreCorrect, PTL DEF CoreInv

\* Once a worker has left thread_pool_worker the queue is empty for good: the
\* leftover loop of thread_pool_destroy never finds an item to drop.
THEOREM DrainCorrect == Spec => []ExitMeansDrained
BY CoreCorrect, PTL DEF CoreInv

\* If the application's own threads are out of thread_pool_submit when
\* thread_pool_destroy is called, and stay out, then no thread is inside the
\* pool when it is freed, callbacks that submit from a worker included.
THEOREM LifetimeCorrect ==
    ASSUME ClientsQuiesce
    PROVE  Spec => []PoolOutlivesCalls
<1>1. CoreInv => PoolOutlivesCalls
  BY Zenon DEF CoreInv, Control, PoolOutlivesCalls, Threads
<1> QED
  BY <1>1, CoreCorrect, PTL

-----------------------------------------------------------------------------
(* The pool implements WorkQueue.                                          *)

\* An item is in one place only: in the hands of one submitter, in one cell of
\* the queue, in the hands of one worker, finished, or refused.
ItemInv ==
    /\ \A m, n \in DOMAIN queue : queue[m] = queue[n] => m = n
    /\ \A n \in DOMAIN queue : queue[n] \in used \ (finished \cup refused)
    /\ \A w \in Workers : running[w] \in Items =>
         /\ running[w] \in used \ (finished \cup refused)
         /\ \A n \in DOMAIN queue : queue[n] # running[w]
         /\ \A v \in Workers : running[v] = running[w] => v = w
    /\ \A t \in Threads : item[t] \in Items =>
         /\ item[t] \in used \ (finished \cup refused)
         /\ \A n \in DOMAIN queue : queue[n] # item[t]
         /\ \A w \in Workers : running[w] # item[t]
         /\ \A s \in Threads : item[s] = item[t] => s = t
    /\ finished \cup refused \subseteq used

\* What enqueueing at the tail and dequeueing at the head do to the elements of
\* the queue.
LEMMA QueueSteps ==
    ASSUME NEW S, NEW q \in Seq(S)
    PROVE  /\ DOMAIN q = 1 .. Len(q) /\ Len(q) \in Nat
           /\ \A n \in DOMAIN q : q[n] \in S
           /\ q # <<>> =>
                /\ Len(q) > 0
                /\ Head(q) = q[1]
                /\ Tail(q) \in Seq(S)
                /\ DOMAIN Tail(q) = 1 .. Len(q) - 1
                /\ \A n \in 1 .. Len(q) - 1 : Tail(q)[n] = q[n + 1]
           /\ \A x \in S :
                /\ Append(q, x) \in Seq(S)
                /\ DOMAIN Append(q, x) = 1 .. Len(q) + 1
                /\ \A n \in 1 .. Len(q) : Append(q, x)[n] = q[n]
                /\ Append(q, x)[Len(q) + 1] = x
OBVIOUS

\* The elements of the queue after SubmitEnqueue has put x at its tail.
LEMMA EnqueueSteps ==
    ASSUME queue \in Seq(Items), NEW x \in Items, queue' = Append(queue, x)
    PROVE  /\ DOMAIN queue = 1 .. Len(queue) /\ Len(queue) \in Nat
           /\ DOMAIN queue' = 1 .. Len(queue) + 1
           /\ \A n \in 1 .. Len(queue) : queue'[n] = queue[n]
           /\ queue'[Len(queue) + 1] = x
BY QueueSteps

\* In a new pool no item is anywhere.
LEMMA InitItem == Init => ItemInv
BY ItemsAssumption DEF Init, ItemInv

\* Every critical section moves an item from one place to exactly one other.
LEMMA NextItem == CoreInv /\ ItemInv /\ [Next]_vars => ItemInv'
<1> SUFFICES ASSUME CoreInv, ItemInv, [Next]_vars PROVE ItemInv'
  BY Zenon
<1> USE ItemsAssumption DEF CoreInv, TypeOK, Control, ItemInv
<1>1. ASSUME NEW w \in Workers, WorkerDequeue(w) PROVE ItemInv'
  <2>1. queue # <<>> /\ queue' = Tail(queue)
    BY <1>1, Zenon DEF WorkerDequeue, WorkerMustWait
  <2>2. /\ DOMAIN queue = 1 .. Len(queue) /\ Len(queue) \in Nat
        /\ Len(queue) > 0 /\ Head(queue) = queue[1]
        /\ DOMAIN queue' = 1 .. Len(queue) - 1
        /\ \A n \in 1 .. Len(queue) - 1 : queue'[n] = queue[n + 1]
    BY <2>1, QueueSteps
  <2>3. /\ \A n \in DOMAIN queue' : n + 1 \in DOMAIN queue
        /\ 1 \in DOMAIN queue
        /\ \A n \in DOMAIN queue' : n \in Nat /\ n >= 1
    BY <2>2
  <2>4. \A m, n \in DOMAIN queue' : queue'[m] = queue'[n] => m = n
    <3> SUFFICES ASSUME NEW m \in DOMAIN queue', NEW n \in DOMAIN queue',
                        queue'[m] = queue'[n]
                 PROVE  m = n
      BY Zenon
    <3>1. queue[m + 1] = queue[n + 1]
      BY <2>2, Zenon
    <3>2. m + 1 = n + 1
      BY <3>1, <2>3, Zenon
    <3> QED
      BY <3>2, <2>3
  <2>5. \A n \in DOMAIN queue' : queue'[n] # Head(queue)
    <3> SUFFICES ASSUME NEW n \in DOMAIN queue', queue'[n] = Head(queue)
                 PROVE  FALSE
      BY Zenon
    <3>1. queue[n + 1] = queue[1]
      BY <2>2, Zenon
    <3>2. n + 1 = 1
      BY <3>1, <2>3, Zenon
    <3> QED
      BY <3>2, <2>3
  <2>6. \A n \in DOMAIN queue' : \E m \in DOMAIN queue : queue'[n] = queue[m]
    BY <2>2, <2>3
  <2>7. /\ Head(queue) \in used \ (finished \cup refused)
        /\ \A v \in Workers : running[v] # Head(queue)
        /\ \A t \in Threads : item[t] # Head(queue)
    BY <2>2
  <2>8. /\ running' = [running EXCEPT ![w] = Head(queue)]
        /\ UNCHANGED <<item, used, finished, refused>>
    BY <1>1, Zenon DEF WorkerDequeue
  <2> QED
    BY <2>4, <2>5, <2>6, <2>7, <2>8
<1>2. ASSUME NEW w \in Workers, WorkerFinish(w) PROVE ItemInv'
  BY <1>2 DEF WorkerFinish
<1>3. ASSUME NEW t \in Threads, NEW i \in Items, SubmitCall(t, i)
      PROVE  ItemInv'
  BY <1>3 DEF SubmitCall
<1>4. ASSUME NEW t \in Threads, NEW i \in Items, SubmitNoMemory(t, i)
      PROVE  ItemInv'
  BY <1>4 DEF SubmitNoMemory
<1>5. ASSUME NEW t \in Threads, SubmitReject(t) PROVE ItemInv'
  BY <1>5 DEF SubmitReject
<1>6. ASSUME NEW t \in Threads, SubmitEnqueue(t) PROVE ItemInv'
  <2>0. queue \in Seq(Items)
    BY Zenon DEF CoreInv, TypeOK
  <2>1. /\ item[t] \in Items /\ queue' = Append(queue, item[t])
        /\ item' = [item EXCEPT ![t] = None]
        /\ UNCHANGED <<running, used, finished, refused>>
    BY <1>6, Zenon DEF SubmitEnqueue
  <2>2. /\ DOMAIN queue = 1 .. Len(queue) /\ Len(queue) \in Nat
        /\ DOMAIN queue' = 1 .. Len(queue) + 1
        /\ \A n \in 1 .. Len(queue) : queue'[n] = queue[n]
        /\ queue'[Len(queue) + 1] = item[t]
    BY <2>0, <2>1, EnqueueSteps, Zenon
  <2>3. \A n \in DOMAIN queue' :
            \/ n = Len(queue) + 1 /\ queue'[n] = item[t]
            \/ n \in DOMAIN queue /\ queue'[n] = queue[n]
    BY <2>2
  <2>4. \A n \in DOMAIN queue : queue[n] # item[t]
    BY <2>1, Zenon
  <2>5. \A m, n \in DOMAIN queue' : queue'[m] = queue'[n] => m = n
    BY <2>3, <2>4
  <2> QED
    BY <2>1, <2>3, <2>5
<1>7. CASE DestroyFree
  BY <1>7 DEF DestroyFree
<1>8. CASE UNCHANGED <<queue, running, item, used, finished, refused>>
  BY <1>8
<1> QED
  BY <1>1, <1>2, <1>3, <1>4, <1>5, <1>6, <1>7, <1>8, Zenon
  DEF Next, WorkerStep, SubmitStep, Terminated, vars, WorkerWait, WorkerExit,
      SubmitWait, SpuriousWakeWorker, SpuriousWakeSubmitter, DestroyBegin

\* An item is in one place only: being submitted, queued, running, finished or
\* refused.
THEOREM ItemCorrect == Spec => []ItemInv
BY CoreCorrect, InitItem, NextItem, PTL DEF Spec

\* The abstract set of active items that the refinement mapping gives.
ActiveItems == {running[w] : w \in Workers} \ {None}

\* A new pool is an empty open work queue.
LEMMA RefineInit == Init => WQ!Init
BY DEF Init, WQ!Init

\* Every critical section of the pool is a step of the work queue or none.
LEMMA RefineNext ==
    CoreInv /\ ItemInv /\ CoreInv' /\ [Next]_vars => [WQ!Next]_(WQ!wqVars)
<1> SUFFICES ASSUME CoreInv, ItemInv, CoreInv', [Next]_vars
             PROVE  [WQ!Next]_(WQ!wqVars)
  BY Zenon
<1> USE ItemsAssumption DEF CoreInv, TypeOK, Control, WQ!wqVars
<1>1. ASSUME NEW w \in Workers, WorkerDequeue(w) PROVE WQ!Next
  <2>1. /\ queue # <<>>
        /\ queue' = Tail(queue)
        /\ running' = [running EXCEPT ![w] = Head(queue)]
        /\ running[w] = None
        /\ UNCHANGED <<finished, refused, destroy>>
        /\ destroy # "freed"
    BY <1>1 DEF WorkerDequeue, WorkerMustWait
  <2>2. Head(queue) \in Items
    BY <2>1
  <2>3. ActiveItems' = ActiveItems \cup {Head(queue)}
    BY <2>1, <2>2 DEF ActiveItems
  <2>4. WQ!Start
    BY <2>1, <2>3, Zenon DEF WQ!Start, ActiveItems
  <2> QED
    BY <2>1, <2>4, Zenon DEF WQ!Next
<1>2. ASSUME NEW w \in Workers, WorkerFinish(w) PROVE WQ!Next
  <2>1. PICK i \in Items : i = running[w]
    BY <1>2, Zenon DEF WorkerFinish
  <2>2. /\ running' = [running EXCEPT ![w] = None]
        /\ finished' = finished \cup {i}
        /\ UNCHANGED <<queue, refused, destroy>>
        /\ destroy # "freed"
    BY <1>2, <2>1, Zenon DEF WorkerFinish
  <2>3. ActiveItems' = ActiveItems \ {i}
    BY <2>1, <2>2 DEF ActiveItems, ItemInv
  <2>4. i \in ActiveItems
    BY <2>1 DEF ActiveItems
  <2>5. WQ!Finish(i)
    BY <2>2, <2>3, <2>4, Zenon DEF WQ!Finish, ActiveItems
  <2> QED
    BY <2>5, Zenon DEF WQ!Next
<1>3. ASSUME NEW t \in Threads, NEW i \in Items, SubmitNoMemory(t, i)
      PROVE  WQ!Next
  <2>1. WQ!Fresh(i)
    BY <1>3 DEF SubmitNoMemory, ItemInv, WQ!Fresh, WQ!InQueue
  <2>2. WQ!Refuse(i)
    BY <1>3, <2>1 DEF SubmitNoMemory, MayCallSubmit, WQ!Refuse
  <2> QED
    BY <2>1, <2>2, Zenon DEF WQ!Next
<1>4. ASSUME NEW t \in Threads, SubmitReject(t) PROVE WQ!Next
  <2>1. item[t] \in Items
    BY <1>4, Zenon DEF SubmitReject
  <2>2. WQ!Fresh(item[t])
    BY <2>1 DEF ItemInv, WQ!Fresh, WQ!InQueue
  <2>3. WQ!Refuse(item[t])
    BY <1>4, <2>2 DEF SubmitReject, WQ!Refuse
  <2> QED
    BY <2>1, <2>3, Zenon DEF WQ!Next
<1>5. ASSUME NEW t \in Threads, SubmitEnqueue(t) PROVE WQ!Next
  <2>1. item[t] \in Items
    BY <1>5, Zenon DEF SubmitEnqueue
  <2>2. WQ!Fresh(item[t])
    BY <2>1 DEF ItemInv, WQ!Fresh, WQ!InQueue
  <2>3. WQ!Accept(item[t])
    BY <1>5, <2>2 DEF SubmitEnqueue, WQ!Accept
  <2> QED
    BY <2>1, <2>3, Zenon DEF WQ!Next
<1>6. CASE DestroyBegin
  BY <1>6 DEF DestroyBegin, WQ!Next, WQ!Close
<1>7. ASSUME DestroyFree PROVE WQ!Next
  <2>1. queue = <<>> /\ ActiveItems = {}
    BY <1>7, ThreadsAssumption
    DEF DestroyFree, ExitMeansDrained, ActiveItems
  <2>2. WQ!Dispose
    BY <1>7, <2>1 DEF DestroyFree, WQ!Dispose, ActiveItems
  <2> QED
    BY <2>1, <2>2, Zenon DEF WQ!Next
<1>8. CASE UNCHANGED <<queue, running, finished, refused, destroy>>
  BY <1>8
<1> QED
  BY <1>1, <1>2, <1>3, <1>4, <1>5, <1>6, <1>7, <1>8, Zenon
  DEF Next, WorkerStep, SubmitStep, Terminated, vars, WorkerWait, WorkerExit,
      SubmitCall, SubmitWait, SpuriousWakeWorker, SpuriousWakeSubmitter

\* Every behaviour of the pool is one of WorkQueue: FIFO start order, each
\* accepted item executed exactly once, nothing dropped by a shutdown.
THEOREM RefinementCorrect == Spec => ImplementsWorkQueue
<1>1. Spec => [](CoreInv /\ ItemInv)
  BY CoreCorrect, ItemCorrect, PTL
<1> QED
  BY <1>1, RefineInit, RefineNext, PTL DEF Spec, ImplementsWorkQueue, WQ!Spec

-----------------------------------------------------------------------------
(* The asynchronous calls.  The invariants of the pool carry over, for     *)
(* every step of AsyncOps is a step of the pool or leaves it alone.  The   *)
(* rest is said of each request: what is known of it in each place.        *)

\* What the functions of the asynchronous calls range over.
AsyncType ==
    /\ request \in [Items -> Requests \cup {None}]
    /\ ctx \in [Items -> {"none", "live", "freed", "corrupt"}]
    /\ ret \in [Items -> {"none", "KV_SUCCESS", "KV_ERR_INVALID_PARAM",
                          "KV_ERR_NO_MEMORY", "KV_ERR_IO"}]
    /\ stage \in [Workers -> {"idle", "op", "callback", "skip"}]
    /\ calls \in [Items -> Nat]

\* Worker w is inside async_worker_func exactly while it runs an item.
StageInv == \A w \in Workers : stage[w] = "idle" <=> worker[w] # "run"

Accepted(i, n) == request[i] \in Requests /\ ret[i] = "KV_SUCCESS" /\ calls[i] = n

\* How far the worker that runs request i has got with it.
Performs(w, i) ==
    \/ stage[w] = "op" /\ Accepted(i, 0)
    \/ stage[w] = "callback" /\ Accepted(i, 1) /\ request[i].callback
    \/ stage[w] = "skip" /\ Accepted(i, 0) /\ ~request[i].callback

RequestInv(i) ==
    /\ OwnedBySubmitter(i) => request[i] \in Requests /\ calls[i] = 0
    /\ Queued(i) => Accepted(i, 0)
    /\ \A w \in Workers : running[w] = i => Performs(w, i)
    /\ i \notin used =>
            request[i] = None /\ ctx[i] = "none" /\ ret[i] = "none" /\ calls[i] = 0
    /\ i \in finished => Accepted(i, IF request[i].callback THEN 1 ELSE 0)
    /\ ctx[i] # "corrupt"
    /\ ctx[i] = "live" <=> OwnedBySubmitter(i) \/ Queued(i) \/ OwnedByWorker(i)
    /\ calls[i] = 0 \/ (calls[i] = 1 /\ ret[i] = "KV_SUCCESS")

PoolInvs == CoreInv /\ ItemInv
AsyncInv == PoolInvs /\ AsyncType /\ StageInv /\ \A i \in Items : RequestInv(i)

\* The steps of the pool inside the steps of the asynchronous calls.
LEMMA AsyncSteps == [AsyncNext]_allVars => [Next]_vars
<1> SUFFICES ASSUME [AsyncNext]_allVars PROVE Next \/ UNCHANGED vars
  BY Zenon
<1>1. ASSUME NEW t \in Threads, NEW i \in Items,
             AsyncRefuse(t, i) \/ AsyncCall(t, i) \/ AsyncNoMemory(t, i)
      PROVE  Next
  <2>1. SubmitCall(t, i) \/ SubmitNoMemory(t, i)
    BY <1>1, Zenon DEF AsyncRefuse, AsyncCall, AsyncNoMemory, SubmitNoMemory
  <2> QED
    BY <2>1, Zenon DEF Next
<1>2. ASSUME NEW t \in Threads, AsyncReject(t) \/ AsyncAccept(t) PROVE Next
  BY <1>2, Zenon DEF AsyncReject, AsyncAccept, Next, SubmitStep
<1>3. ASSUME NEW w \in Workers, AsyncWorkerStep(w) PROVE Next \/ UNCHANGED vars
  BY <1>3, Zenon DEF AsyncWorkerStep, AsyncStart, AsyncExecute, AsyncFinish, Next,
       WorkerStep
<1>4. CASE PoolOnly
  BY <1>4, Zenon DEF PoolOnly, Next, WorkerStep, SubmitStep
<1>5. CASE AsyncDestroyFree
  BY <1>5, Zenon DEF AsyncDestroyFree, Next
<1> QED
  BY <1>1, <1>2, <1>3, <1>4, <1>5, Zenon DEF AsyncNext, allVars

\* The asynchronous calls of async_ops.c use the pool as thread_pool.c allows, so
\* what is proved of the pool holds of the composition that TLC checks.
THEOREM AsyncUsesPool == AsyncSpec => Spec
<1>1. AsyncInit => Init
  BY Zenon DEF AsyncInit
<1> QED
  BY <1>1, AsyncSteps, PTL DEF AsyncSpec, Spec

\* The invariants of the pool hold of the composition.
LEMMA PoolNext == PoolInvs /\ [AsyncNext]_allVars => PoolInvs'
BY AsyncSteps, NextCore, NextItem, Zenon DEF PoolInvs

\* No request has been made.
LEMMA InitAsync == AsyncInit => AsyncInv
<1> SUFFICES ASSUME AsyncInit PROVE AsyncInv
  BY Zenon
<1>1. PoolInvs
  BY InitCore, InitItem, Zenon DEF AsyncInit, PoolInvs
<1>2. AsyncType
  BY DEF AsyncInit, AsyncType
<1>3. StageInv
  BY Zenon DEF AsyncInit, Init, StageInv
<1>4. ASSUME NEW i \in Items PROVE RequestInv(i)
  <2>1. /\ None \notin Items /\ DOMAIN queue = {} /\ i \notin used /\ i \notin finished
        /\ request[i] = None /\ ctx[i] = "none" /\ ret[i] = "none" /\ calls[i] = 0
        /\ \A w \in Workers : running[w] = None
        /\ \A t \in Threads : item[t] = None
    BY ItemsAssumption DEF AsyncInit, Init
  <2>2. ~OwnedBySubmitter(i) /\ ~Queued(i) /\ ~OwnedByWorker(i)
    BY <2>1, Zenon DEF OwnedBySubmitter, Queued, OwnedByWorker
  <2> QED
    BY <2>1, <2>2, Zenon DEF RequestInv
<1> QED
  BY <1>1, <1>2, <1>3, <1>4, Zenon DEF AsyncInv

\* A step that does not concern request j.
Kept(j) ==
    /\ OwnedBySubmitter(j)' <=> OwnedBySubmitter(j)
    /\ Queued(j)' <=> Queued(j)
    /\ \A w \in Workers : /\ running'[w] = j <=> running[w] = j
                          /\ running[w] = j => stage'[w] = stage[w]
    /\ (j \in used' <=> j \in used) /\ (j \in finished' <=> j \in finished)
    /\ request'[j] = request[j] /\ ctx'[j] = ctx[j]
    /\ ret'[j] = ret[j] /\ calls'[j] = calls[j]

\* What is known of a request survives the steps that do not concern it.
LEMMA RequestKept ==
    ASSUME NEW j \in Items, RequestInv(j), Kept(j)
    PROVE  RequestInv(j)'
<1>1. \A n : Accepted(j, n)' <=> Accepted(j, n)
  BY Zenon DEF Kept, Accepted
<1>2. \A w \in Workers : running'[w] = j => Performs(w, j)'
  BY <1>1, Zenon DEF Kept, RequestInv, Performs
<1>3. OwnedByWorker(j)' <=> OwnedByWorker(j)
  BY Zenon DEF Kept, OwnedByWorker
<1> QED
  BY <1>1, <1>2, <1>3, Zenon DEF Kept, RequestInv

\* Types that every step needs.
LEMMA Places ==
    ASSUME AsyncInv
    PROVE  /\ \A n \in DOMAIN queue : queue[n] \in Items
           /\ \A w \in Workers : stage[w] # "idle" <=> running[w] \in Items
           /\ \A t \in Threads : submit[t] # "out" <=> item[t] \in Items
           /\ finished \subseteq Items /\ None \notin Items
           /\ item \in [Threads -> Items \cup {None}]
           /\ running \in [Workers -> Items \cup {None}]
           /\ worker \in [Workers -> {"loop", "wait", "run", "exited"}]
           /\ stage \in [Workers -> {"idle", "op", "callback", "skip"}]
           /\ queue \in Seq(Items) /\ used \subseteq Items
<1>1. TypeOK /\ Control /\ AsyncType /\ StageInv
  BY Zenon DEF AsyncInv, PoolInvs, CoreInv
<1>2. /\ queue \in Seq(Items) /\ finished \subseteq Items /\ used \subseteq Items
      /\ item \in [Threads -> Items \cup {None}]
      /\ running \in [Workers -> Items \cup {None}]
      /\ worker \in [Workers -> {"loop", "wait", "run", "exited"}]
  BY <1>1, Zenon DEF TypeOK
<1>3. \A n \in DOMAIN queue : queue[n] \in Items
  BY <1>2, QueueSteps, Zenon
<1>4. None \notin Items
  BY ItemsAssumption, Zenon
<1> QED
  BY <1>1, <1>2, <1>3, <1>4, Zenon DEF Control, StageInv, AsyncType

\* A request is in one place, and in none before it is made.
LEMMA OnePlace ==
    ASSUME AsyncInv, NEW i \in Items
    PROVE  /\ i \notin used => /\ i \notin finished /\ (\A t \in Threads : item[t] # i)
                               /\ \A n \in DOMAIN queue : queue[n] # i
                               /\ \A w \in Workers : running[w] # i
           /\ \A t \in Threads : item[t] = i =>
                /\ i \in used /\ i \notin finished
                /\ \A s \in Threads \ {t} : item[s] # i
                /\ \A n \in DOMAIN queue : queue[n] # i
                /\ \A w \in Workers : running[w] # i
           /\ \A n \in DOMAIN queue : queue[n] = i =>
                /\ i \in used /\ i \notin finished
                /\ \A m \in DOMAIN queue \ {n} : queue[m] # i
                /\ \A t \in Threads : item[t] # i
                /\ \A w \in Workers : running[w] # i
           /\ \A w \in Workers : running[w] = i =>
                /\ i \in used /\ i \notin finished
                /\ \A v \in Workers \ {w} : running[v] # i
                /\ \A t \in Threads : item[t] # i
                /\ \A n \in DOMAIN queue : queue[n] # i
<1> ItemInv
  BY Zenon DEF AsyncInv, PoolInvs
<1>1. i \notin used => /\ i \notin finished /\ (\A t \in Threads : item[t] # i)
                       /\ \A n \in DOMAIN queue : queue[n] # i
                       /\ \A w \in Workers : running[w] # i
  <2> SUFFICES ASSUME i \notin used
               PROVE  /\ i \notin finished /\ (\A t \in Threads : item[t] # i)
                      /\ \A n \in DOMAIN queue : queue[n] # i
                      /\ \A w \in Workers : running[w] # i
    BY Zenon
  <2>1. /\ \A n \in DOMAIN queue : queue[n] \in used \ (finished \cup refused)
        /\ \A w \in Workers : running[w] \in Items => running[w] \in used
        /\ \A t \in Threads : item[t] \in Items => item[t] \in used
        /\ finished \cup refused \subseteq used
    BY Zenon DEF ItemInv
  <2> QED
    BY <2>1
<1>2. ASSUME NEW t \in Threads, item[t] = i
      PROVE  /\ i \in used /\ i \notin finished
             /\ \A s \in Threads \ {t} : item[s] # i
             /\ \A n \in DOMAIN queue : queue[n] # i
             /\ \A w \in Workers : running[w] # i
  BY <1>2, Zenon DEF ItemInv
<1>3. ASSUME NEW n \in DOMAIN queue, queue[n] = i
      PROVE  /\ i \in used /\ i \notin finished
             /\ \A m \in DOMAIN queue \ {n} : queue[m] # i
             /\ \A t \in Threads : item[t] # i
             /\ \A w \in Workers : running[w] # i
  BY <1>3, Zenon DEF ItemInv
<1>4. ASSUME NEW w \in Workers, running[w] = i
      PROVE  /\ i \in used /\ i \notin finished
             /\ \A v \in Workers \ {w} : running[v] # i
             /\ \A t \in Threads : item[t] # i
             /\ \A n \in DOMAIN queue : queue[n] # i
  BY <1>4, Zenon DEF ItemInv
<1> QED
  BY <1>1, <1>2, <1>3, <1>4, Zenon

\* A step that concerns one request only preserves the invariant if it does so
\* for that request.
LEMMA OneRequest ==
    ASSUME AsyncInv, PoolInvs', AsyncType', StageInv', NEW i \in Items,
           RequestInv(i)', \A j \in Items \ {i} : Kept(j)
    PROVE  AsyncInv'
<1>1. \A j \in Items : RequestInv(j)'
  BY RequestKept, Zenon DEF AsyncInv
<1> QED
  BY <1>1, Zenon DEF AsyncInv

-----------------------------------------------------------------------------
(* kv_engine_store_async and its like.                                     *)

\* A new request: it is refused, or its context belongs to the caller.
LEMMA RequestSteps ==
    ASSUME AsyncInv, PoolInvs', NEW t \in Threads, NEW i \in Items,
           AsyncRefuse(t, i) \/ AsyncCall(t, i) \/ AsyncNoMemory(t, i)
    PROVE  AsyncInv'
<1>0. /\ i \notin used /\ used' = used \cup {i} /\ submit[t] = "out"
      /\ UNCHANGED <<queue, running, worker, stage, finished, calls>>
  BY Zenon DEF AsyncRefuse, AsyncCall, AsyncNoMemory, SubmitCall, SubmitNoMemory,
       MayCallSubmit
<1>1. /\ \A s \in Threads : item[s] # i
      /\ \A n \in DOMAIN queue : queue[n] # i
      /\ \A w \in Workers : running[w] # i
      /\ i \notin finished /\ item[t] \notin Items
  BY <1>0, OnePlace, Places, Zenon
<1>2. AsyncType /\ StageInv /\ RequestInv(i)
  BY Zenon DEF AsyncInv
<1>3. calls[i] = 0 /\ ctx[i] = "none" /\ ret[i] = "none"
  BY <1>0, <1>2, Zenon DEF RequestInv
<1>4. /\ AsyncType'
      /\ \A j \in Items \ {i} :
            ctx'[j] = ctx[j] /\ request'[j] = request[j] /\ ret'[j] = ret[j]
      /\ \/ ctx'[i] # "live" /\ ctx'[i] # "corrupt" /\ UNCHANGED item
         \/ ctx'[i] = "live" /\ item' = [item EXCEPT ![t] = i] /\ request'[i] \in Requests
  <2>1. CASE AsyncRefuse(t, i)
    BY <1>2, <1>3, <2>1, Zenon DEF AsyncRefuse, AsyncType
  <2>2. CASE AsyncCall(t, i)
    BY <1>2, <1>3, <2>2, Zenon DEF AsyncCall, SubmitCall, AsyncType, Requests
  <2>3. CASE AsyncNoMemory(t, i)
    BY <1>2, <1>3, <2>3, Zenon DEF AsyncNoMemory, SubmitNoMemory, AsyncType
  <2> QED
    BY <2>1, <2>2, <2>3, Zenon
<1>5. StageInv'
  BY <1>0, <1>2, Zenon DEF StageInv
<1>6. item \in [Threads -> Items \cup {None}]
  BY Places, Zenon
<1>7. ASSUME NEW j \in Items \ {i} PROVE Kept(j)
  <2>1. OwnedBySubmitter(j)' <=> OwnedBySubmitter(j)
    <3>1. CASE UNCHANGED item
      BY <3>1, Zenon DEF OwnedBySubmitter
    <3>2. CASE item' = [item EXCEPT ![t] = i]
      <4>1. \A s \in Threads : item'[s] = j <=> item[s] = j
        BY <1>1, <1>6, <3>2, Zenon
      <4> QED
        BY <4>1, Zenon DEF OwnedBySubmitter
    <3> QED
      BY <1>4, <3>1, <3>2, Zenon
  <2>2. Queued(j)' <=> Queued(j)
    BY <1>0, Zenon DEF Queued
  <2> QED
    BY <1>0, <1>4, <2>1, <2>2, Zenon DEF Kept
<1>8. RequestInv(i)'
  <2>1. ~Queued(i)' /\ ~OwnedByWorker(i)' /\ i \notin finished' /\ i \in used'
        /\ calls'[i] = 0
    BY <1>0, <1>1, <1>3, Zenon DEF Queued, OwnedByWorker
  <2>2. /\ \A w \in Workers : running'[w] # i
        /\ OwnedBySubmitter(i)' => request'[i] \in Requests
        /\ ctx'[i] # "corrupt" /\ (ctx'[i] = "live" <=> OwnedBySubmitter(i)')
    BY <1>0, <1>1, <1>4, <1>6, Zenon DEF OwnedBySubmitter
  <2> QED
    BY <2>1, <2>2, Zenon DEF RequestInv
<1> QED
  BY <1>4, <1>5, <1>7, <1>8, OneRequest, Zenon

\* The pool refuses the item: the caller still owns the context and frees it.
LEMMA RejectStep ==
    ASSUME AsyncInv, PoolInvs', NEW t \in Threads, AsyncReject(t)
    PROVE  AsyncInv'
<1>0. PICK i \in Items : i = item[t]
  BY Places, Zenon DEF AsyncReject, SubmitReject
<1>1. /\ item' = [item EXCEPT ![t] = None]
      /\ UNCHANGED <<queue, running, worker, stage, finished, calls, used, request>>
      /\ ctx' = [j \in Items |-> IF j \in {i} THEN Freed(ctx[j]) ELSE ctx[j]]
      /\ ret' = [ret EXCEPT ![i] = "KV_ERR_IO"]
  BY <1>0, Zenon DEF AsyncReject, SubmitReject, ContextFree
<1>2. /\ \A s \in Threads \ {t} : item[s] # i
      /\ \A n \in DOMAIN queue : queue[n] # i
      /\ \A w \in Workers : running[w] # i
      /\ i \in used /\ i \notin finished
  BY <1>0, OnePlace, Zenon
<1>3. AsyncType /\ StageInv /\ RequestInv(i)
  BY Zenon DEF AsyncInv
<1>4. OwnedBySubmitter(i)
  BY <1>0, Zenon DEF OwnedBySubmitter
<1>5. ctx[i] = "live" /\ calls[i] = 0
  BY <1>3, <1>4, Zenon DEF RequestInv
<1>6. /\ ctx'[i] = "freed" /\ AsyncType'
      /\ \A j \in Items \ {i} : ctx'[j] = ctx[j] /\ ret'[j] = ret[j]
  BY <1>1, <1>3, <1>5, Zenon DEF Freed, AsyncType
<1>7. StageInv'
  BY <1>1, <1>3, Zenon DEF StageInv
<1>8. item \in [Threads -> Items \cup {None}] /\ None \notin Items
  BY Places, Zenon
<1>9. ASSUME NEW j \in Items \ {i} PROVE Kept(j)
  <2>1. \A s \in Threads : item'[s] = j <=> item[s] = j
    BY <1>0, <1>1, <1>8, Zenon
  <2>2. OwnedBySubmitter(j)' <=> OwnedBySubmitter(j)
    BY <2>1, Zenon DEF OwnedBySubmitter
  <2>3. Queued(j)' <=> Queued(j)
    BY <1>1, Zenon DEF Queued
  <2> QED
    BY <1>1, <1>6, <2>2, <2>3, Zenon DEF Kept
<1>10. RequestInv(i)'
  <2>1. ~OwnedBySubmitter(i)' /\ ~Queued(i)' /\ ~OwnedByWorker(i)'
    BY <1>1, <1>2, <1>8, Zenon DEF OwnedBySubmitter, Queued, OwnedByWorker
  <2>2. /\ \A w \in Workers : running'[w] # i
        /\ i \in used' /\ i \notin finished' /\ calls'[i] = 0 /\ ctx'[i] = "freed"
    BY <1>1, <1>2, <1>5, <1>6, Zenon
  <2> QED
    BY <2>1, <2>2, Zenon DEF RequestInv
<1> QED
  BY <1>6, <1>7, <1>9, <1>10, OneRequest, Zenon

\* The pool accepts the item: the context moves from the caller to the queue.
LEMMA AcceptStep ==
    ASSUME AsyncInv, PoolInvs', NEW t \in Threads, AsyncAccept(t)
    PROVE  AsyncInv'
<1>0. PICK i \in Items : i = item[t]
  BY Places, Zenon DEF AsyncAccept, SubmitEnqueue
<1>1. /\ item' = [item EXCEPT ![t] = None] /\ queue' = Append(queue, i)
      /\ UNCHANGED <<running, stage, finished, calls, used, request, ctx>>
      /\ ret' = [ret EXCEPT ![i] = "KV_SUCCESS"] /\ SignalNotEmpty
  BY <1>0, Zenon DEF AsyncAccept, SubmitEnqueue
<1>2. /\ \A s \in Threads \ {t} : item[s] # i
      /\ \A w \in Workers : running[w] # i
      /\ i \in used /\ i \notin finished
  BY <1>0, OnePlace, Zenon
<1>3. AsyncType /\ StageInv /\ RequestInv(i)
  BY Zenon DEF AsyncInv
<1>4. OwnedBySubmitter(i)
  BY <1>0, Zenon DEF OwnedBySubmitter
<1>5. ctx[i] = "live" /\ calls[i] = 0 /\ request[i] \in Requests
  BY <1>3, <1>4, Zenon DEF RequestInv
<1>6. /\ ret'[i] = "KV_SUCCESS" /\ AsyncType'
      /\ \A j \in Items \ {i} : ret'[j] = ret[j]
  BY <1>1, <1>3, Zenon DEF AsyncType
<1>7. /\ item \in [Threads -> Items \cup {None}] /\ None \notin Items
      /\ queue \in Seq(Items) /\ worker \in [Workers -> {"loop", "wait", "run", "exited"}]
  BY Places, Zenon
<1>8. StageInv'
  <2>1. \A w \in Workers : worker'[w] # "run" <=> worker[w] # "run"
    BY <1>1, <1>7, Zenon DEF SignalNotEmpty, NotEmptyWaiters
  <2> QED
    BY <1>1, <1>3, <2>1, Zenon DEF StageInv
<1>9. \A j \in Items : Queued(j)' <=> Queued(j) \/ j = i
  <2>1. /\ DOMAIN queue = 1 .. Len(queue) /\ Len(queue) \in Nat
        /\ DOMAIN queue' = 1 .. Len(queue) + 1
        /\ \A n \in 1 .. Len(queue) : queue'[n] = queue[n]
        /\ queue'[Len(queue) + 1] = i
    BY <1>1, <1>7, EnqueueSteps, Zenon
  <2>2. DOMAIN queue' = DOMAIN queue \cup {Len(queue) + 1}
    BY <2>1
  <2> QED
    BY <2>1, <2>2, Zenon DEF Queued
<1>10. ASSUME NEW j \in Items \ {i} PROVE Kept(j)
  <2>1. \A s \in Threads : item'[s] = j <=> item[s] = j
    BY <1>0, <1>1, <1>7, Zenon
  <2>2. OwnedBySubmitter(j)' <=> OwnedBySubmitter(j)
    BY <2>1, Zenon DEF OwnedBySubmitter
  <2> QED
    BY <1>1, <1>6, <1>9, <2>2, Zenon DEF Kept
<1>11. RequestInv(i)'
  <2>1. ~OwnedBySubmitter(i)' /\ Queued(i)'
    BY <1>1, <1>2, <1>7, <1>9, Zenon DEF OwnedBySubmitter
  <2>2. /\ \A w \in Workers : running'[w] # i
        /\ i \in used' /\ i \notin finished' /\ calls'[i] = 0 /\ ctx'[i] = "live"
        /\ Accepted(i, 0)'
    BY <1>1, <1>2, <1>5, <1>6, Zenon DEF Accepted
  <2> QED
    BY <2>1, <2>2, Zenon DEF RequestInv
<1> QED
  BY <1>6, <1>8, <1>10, <1>11, OneRequest, Zenon

-----------------------------------------------------------------------------
(* async_worker_func.                                                      *)

\* A worker takes the head of the queue and owns its context.
LEMMA StartStep ==
    ASSUME AsyncInv, PoolInvs', NEW w \in Workers, AsyncStart(w)
    PROVE  AsyncInv'
<1>1. queue # <<>> /\ worker[w] = "loop"
  BY Zenon DEF AsyncStart, WorkerDequeue, WorkerMustWait
<1>2. /\ running \in [Workers -> Items \cup {None}] /\ queue \in Seq(Items)
      /\ worker \in [Workers -> {"loop", "wait", "run", "exited"}]
      /\ stage \in [Workers -> {"idle", "op", "callback", "skip"}]
  BY Places, Zenon
<1>3. /\ DOMAIN queue = 1 .. Len(queue) /\ Len(queue) \in Nat /\ Len(queue) > 0
      /\ Head(queue) = queue[1]
      /\ DOMAIN Tail(queue) = 1 .. Len(queue) - 1
      /\ \A n \in 1 .. Len(queue) - 1 : Tail(queue)[n] = queue[n + 1]
  BY <1>1, <1>2, QueueSteps, Zenon
<1>4. 1 \in DOMAIN queue
  BY <1>3
<1>5. PICK i \in Items : i = queue[1]
  BY <1>4, Places, Zenon
<1>6. /\ running' = [running EXCEPT ![w] = i] /\ queue' = Tail(queue)
      /\ stage' = [stage EXCEPT ![w] = "op"]
      /\ worker' = [worker EXCEPT ![w] = "run"]
      /\ UNCHANGED <<item, used, finished, calls, ret, request, ctx>>
  BY <1>3, <1>5, Zenon DEF AsyncStart, WorkerDequeue
<1>7. AsyncType /\ StageInv /\ RequestInv(i)
  BY Zenon DEF AsyncInv
<1>8. AsyncType'
  BY <1>6, <1>7, Zenon DEF AsyncType
<1>9. StageInv'
  BY <1>2, <1>6, <1>7, Zenon DEF StageInv
<1>10. running[w] \notin Items
  BY <1>1, <1>7, Places, Zenon DEF StageInv
<1>11. /\ \A m \in DOMAIN queue \ {1} : queue[m] # i
       /\ i \in used /\ i \notin finished /\ (\A t \in Threads : item[t] # i)
       /\ \A v \in Workers : running[v] # i
  BY <1>4, <1>5, OnePlace, Zenon
<1>12. Queued(i)
  BY <1>4, <1>5, Zenon DEF Queued
<1>13. ctx[i] = "live" /\ Accepted(i, 0)
  BY <1>7, <1>12, Zenon DEF RequestInv
<1>14. ASSUME NEW j \in Items \ {i} PROVE Queued(j)' <=> Queued(j)
  <2>1. ASSUME NEW n \in DOMAIN queue, queue[n] = j PROVE Queued(j)'
    <3>1. n \in 1 .. Len(queue) /\ n # 1
      BY <1>3, <1>5, <2>1, Zenon
    <3>2. PICK m \in 1 .. Len(queue) - 1 : n = m + 1
      <4>1. n - 1 \in 1 .. Len(queue) - 1 /\ n = (n - 1) + 1
        BY <1>3, <3>1
      <4> QED
        BY <4>1, Zenon
    <3>3. m \in DOMAIN queue' /\ queue'[m] = j
      BY <1>3, <1>6, <2>1, <3>2, Zenon
    <3> QED
      BY <3>3, Zenon DEF Queued
  <2>2. ASSUME NEW m \in DOMAIN queue', queue'[m] = j PROVE Queued(j)
    <3>1. m \in 1 .. Len(queue) - 1 /\ queue[m + 1] = j
      BY <1>3, <1>6, <2>2, Zenon
    <3>2. m + 1 \in DOMAIN queue
      BY <1>3, <3>1
    <3> QED
      BY <3>1, <3>2, Zenon DEF Queued
  <2> QED
    BY <2>1, <2>2, Zenon DEF Queued
<1>15. ASSUME NEW j \in Items \ {i} PROVE Kept(j)
  <2>1. OwnedBySubmitter(j)' <=> OwnedBySubmitter(j)
    BY <1>6, Zenon DEF OwnedBySubmitter
  <2>2. \A v \in Workers : /\ running'[v] = j <=> running[v] = j
                           /\ running[v] = j => stage'[v] = stage[v]
    BY <1>2, <1>6, <1>10, Zenon
  <2> QED
    BY <1>6, <1>14, <2>1, <2>2, Zenon DEF Kept
<1>16. RequestInv(i)'
  <2>1. ~OwnedBySubmitter(i)'
    BY <1>6, <1>11, Zenon DEF OwnedBySubmitter
  <2>2. ~Queued(i)'
    <3> SUFFICES ASSUME NEW m \in DOMAIN queue', queue'[m] = i PROVE FALSE
      BY Zenon DEF Queued
    <3>1. m \in 1 .. Len(queue) - 1 /\ queue[m + 1] = i
      BY <1>3, <1>6, Zenon
    <3>2. m + 1 \in DOMAIN queue \ {1}
      BY <1>3, <3>1
    <3> QED
      BY <1>11, <3>1, <3>2, Zenon
  <2>3. OwnedByWorker(i)'
    BY <1>2, <1>6, Zenon DEF OwnedByWorker
  <2>4. Accepted(i, 0)' /\ calls'[i] = 0
    BY <1>6, <1>13, Zenon DEF Accepted
  <2>5. \A v \in Workers : running'[v] = i => Performs(v, i)'
    BY <1>2, <1>6, <1>11, <2>4, Zenon DEF Performs
  <2> QED
    BY <1>6, <1>11, <1>13, <2>1, <2>2, <2>3, <2>4, <2>5, Zenon DEF RequestInv
<1> QED
  BY <1>8, <1>9, <1>15, <1>16, OneRequest, Zenon

\* The operation and the callback: the one step that counts a call.
LEMMA ExecuteStep ==
    ASSUME AsyncInv, PoolInvs', NEW w \in Workers, AsyncExecute(w)
    PROVE  AsyncInv'
<1>0. /\ running \in [Workers -> Items \cup {None}] /\ stage[w] = "op"
      /\ stage \in [Workers -> {"idle", "op", "callback", "skip"}]
  BY Places, Zenon DEF AsyncExecute
<1>1. PICK i \in Items : i = running[w]
  BY <1>0, Places, Zenon
<1>2. AsyncType /\ StageInv /\ RequestInv(i)
  BY Zenon DEF AsyncInv
<1>3. Accepted(i, 0)
  BY <1>0, <1>1, <1>2, Zenon DEF RequestInv, Performs
<1>4. PICK c \in {0, 1} : c = IF request[i].callback THEN 1 ELSE 0
  BY Zenon
<1>5. /\ stage' = [stage EXCEPT ![w] = IF request[i].callback THEN "callback" ELSE "skip"]
      /\ calls' = [calls EXCEPT ![i] = calls[i] + c]
      /\ UNCHANGED <<queue, running, item, worker, used, finished, ret, request, ctx>>
  BY <1>1, <1>4, Zenon DEF AsyncExecute, vars
<1>6. /\ \A v \in Workers \ {w} : running[v] # i
      /\ \A t \in Threads : item[t] # i
      /\ \A n \in DOMAIN queue : queue[n] # i
      /\ i \in used /\ i \notin finished
  BY <1>1, OnePlace, Zenon
<1>7. calls[i] = 0 /\ calls[i] + c = c /\ c \in Nat
  BY <1>3, <1>4 DEF Accepted
<1>8. AsyncType' /\ calls'[i] = c
  BY <1>2, <1>5, <1>7, Zenon DEF AsyncType
<1>9. StageInv'
  BY <1>0, <1>2, <1>5, Zenon DEF StageInv
<1>10. ASSUME NEW j \in Items \ {i} PROVE Kept(j)
  <2>1. (OwnedBySubmitter(j)' <=> OwnedBySubmitter(j)) /\ (Queued(j)' <=> Queued(j))
    BY <1>5, Zenon DEF OwnedBySubmitter, Queued
  <2>2. calls'[j] = calls[j]
    BY <1>2, <1>5, Zenon DEF AsyncType
  <2>3. \A v \in Workers : running[v] = j => stage'[v] = stage[v]
    BY <1>0, <1>1, <1>5, Zenon
  <2> QED
    BY <1>5, <2>1, <2>2, <2>3, Zenon DEF Kept
<1>11. RequestInv(i)'
  <2>1. ~OwnedBySubmitter(i)' /\ ~Queued(i)' /\ OwnedByWorker(i)'
    BY <1>1, <1>5, <1>6, Zenon DEF OwnedBySubmitter, Queued, OwnedByWorker
  <2>2. OwnedByWorker(i)
    BY <1>1, Zenon DEF OwnedByWorker
  <2>3. ctx'[i] = "live" /\ ret'[i] = "KV_SUCCESS" /\ Accepted(i, c)'
    BY <1>2, <1>3, <1>5, <1>8, <2>2, Zenon DEF RequestInv, Accepted
  <2>4. Performs(w, i)'
    BY <1>0, <1>4, <1>5, <2>3, Zenon DEF Performs
  <2>5. \A v \in Workers : running'[v] = i => v = w
    BY <1>5, <1>6, Zenon
  <2> QED
    BY <1>4, <1>5, <1>6, <1>8, <2>1, <2>3, <2>4, <2>5, Zenon DEF RequestInv
<1> QED
  BY <1>8, <1>9, <1>10, <1>11, OneRequest, Zenon

\* The worker frees the context it owns.
LEMMA FinishStep ==
    ASSUME AsyncInv, PoolInvs', NEW w \in Workers, AsyncFinish(w)
    PROVE  AsyncInv'
<1>0. /\ running \in [Workers -> Items \cup {None}] /\ None \notin Items
      /\ stage \in [Workers -> {"idle", "op", "callback", "skip"}]
      /\ worker \in [Workers -> {"loop", "wait", "run", "exited"}]
      /\ stage[w] \in {"callback", "skip"}
  BY Places, Zenon DEF AsyncFinish
<1>1. PICK i \in Items : i = running[w]
  BY <1>0, Places, Zenon
<1>2. /\ stage' = [stage EXCEPT ![w] = "idle"]
      /\ running' = [running EXCEPT ![w] = None]
      /\ worker' = [worker EXCEPT ![w] = "loop"]
      /\ finished' = finished \cup {i}
      /\ ctx' = [j \in Items |-> IF j \in {i} THEN Freed(ctx[j]) ELSE ctx[j]]
      /\ UNCHANGED <<queue, item, used, ret, request, calls>>
  BY <1>1, Zenon DEF AsyncFinish, WorkerFinish, ContextFree
<1>3. AsyncType /\ StageInv /\ RequestInv(i)
  BY Zenon DEF AsyncInv
<1>4. /\ \A v \in Workers \ {w} : running[v] # i
      /\ \A t \in Threads : item[t] # i
      /\ \A n \in DOMAIN queue : queue[n] # i
      /\ i \in used
  BY <1>1, OnePlace, Zenon
<1>5. Accepted(i, IF request[i].callback THEN 1 ELSE 0)
  BY <1>0, <1>1, <1>3, Zenon DEF RequestInv, Performs
<1>6. OwnedByWorker(i)
  BY <1>1, Zenon DEF OwnedByWorker
<1>7. ctx[i] = "live"
  BY <1>3, <1>6, Zenon DEF RequestInv
<1>8. ctx'[i] = "freed" /\ AsyncType' /\ \A j \in Items \ {i} : ctx'[j] = ctx[j]
  BY <1>2, <1>3, <1>7, Zenon DEF Freed, AsyncType
<1>9. StageInv'
  BY <1>0, <1>2, <1>3, Zenon DEF StageInv
<1>10. ASSUME NEW j \in Items \ {i} PROVE Kept(j)
  <2>1. (OwnedBySubmitter(j)' <=> OwnedBySubmitter(j)) /\ (Queued(j)' <=> Queued(j))
    BY <1>2, Zenon DEF OwnedBySubmitter, Queued
  <2>2. \A v \in Workers : /\ running'[v] = j <=> running[v] = j
                           /\ running[v] = j => stage'[v] = stage[v]
    BY <1>0, <1>1, <1>2, Zenon
  <2> QED
    BY <1>2, <1>8, <2>1, <2>2, Zenon DEF Kept
<1>11. RequestInv(i)'
  <2>1. ~OwnedBySubmitter(i)' /\ ~Queued(i)'
    BY <1>2, <1>4, Zenon DEF OwnedBySubmitter, Queued
  <2>2. \A v \in Workers : running'[v] # i
    BY <1>0, <1>2, <1>4, Zenon
  <2>3. ~OwnedByWorker(i)'
    BY <2>2, Zenon DEF OwnedByWorker
  <2>4. /\ Accepted(i, IF request[i].callback THEN 1 ELSE 0)'
        /\ ret'[i] = "KV_SUCCESS" /\ calls'[i] \in {0, 1}
    BY <1>2, <1>5, Zenon DEF Accepted
  <2> QED
    BY <1>2, <1>4, <1>8, <2>1, <2>2, <2>3, <2>4, Zenon DEF RequestInv
<1> QED
  BY <1>8, <1>9, <1>10, <1>11, OneRequest, Zenon

-----------------------------------------------------------------------------
(* The pool's own steps.                                                   *)

\* Waiting, waking and the start of a shutdown move no request.
LEMMA PoolStep ==
    ASSUME AsyncInv, PoolInvs', PoolOnly \/ UNCHANGED allVars
    PROVE  AsyncInv'
<1>1. /\ UNCHANGED <<queue, running, item, used, finished>>
      /\ UNCHANGED <<request, ctx, ret, stage, calls>>
  BY Zenon DEF PoolOnly, WorkerWait, WorkerExit, SpuriousWakeWorker, SubmitWait,
         SpuriousWakeSubmitter, DestroyBegin, Terminated, vars, asyncVars, allVars
<1>2. AsyncType /\ StageInv
  BY Zenon DEF AsyncInv
<1>3. \A w \in Workers : worker'[w] = "run" <=> worker[w] = "run"
  <2>1. worker \in [Workers -> {"loop", "wait", "run", "exited"}]
    BY Places, Zenon
  <2>2. ASSUME NEW v \in Workers,
               WorkerWait(v) \/ WorkerExit(v) \/ SpuriousWakeWorker(v)
        PROVE  \A w \in Workers : worker'[w] = "run" <=> worker[w] = "run"
    BY <2>1, <2>2, Zenon DEF WorkerWait, WorkerExit, SpuriousWakeWorker
  <2>3. CASE DestroyBegin
    BY <2>3, Zenon DEF DestroyBegin
  <2>4. CASE UNCHANGED worker
    BY <2>4, Zenon
  <2> QED
    BY <2>2, <2>3, <2>4, Zenon DEF PoolOnly, SubmitWait, SpuriousWakeSubmitter,
         Terminated, vars, allVars
<1>4. AsyncType'
  BY <1>1, <1>2, Zenon DEF AsyncType
<1>5. StageInv'
  BY <1>1, <1>2, <1>3, Zenon DEF StageInv
<1>6. ASSUME NEW j \in Items PROVE Kept(j)
  BY <1>1, Zenon DEF Kept, OwnedBySubmitter, Queued
<1> QED
  BY <1>4, <1>5, <1>6, RequestKept, Zenon DEF AsyncInv

\* thread_pool_destroy frees the context of every item left in the queue.
LEMMA LeftoverStep ==
    ASSUME AsyncInv, PoolInvs', AsyncDestroyFree
    PROVE  AsyncInv'
<1>1. /\ UNCHANGED <<running, item, worker, used, finished, request, ret, stage, calls>>
      /\ ctx' = [j \in Items |-> IF j \in {queue[n] : n \in DOMAIN queue}
                                 THEN Freed(ctx[j]) ELSE ctx[j]]
  BY Zenon DEF AsyncDestroyFree, DestroyFree, ContextFree
<1>2. DOMAIN queue' = {}
  <2>1. queue' = <<>>
    BY Zenon DEF AsyncDestroyFree, DestroyFree
  <2> QED
    BY <2>1
<1>3. AsyncType /\ StageInv /\ (\A j \in Items : RequestInv(j))
  BY Zenon DEF AsyncInv
<1>4. ASSUME NEW j \in Items
      PROVE  /\ Queued(j) => ctx[j] = "live" /\ ctx'[j] = "freed"
             /\ ~Queued(j) => ctx'[j] = ctx[j]
             /\ ~Queued(j)'
  <2>1. j \in {queue[n] : n \in DOMAIN queue} <=> Queued(j)
    BY Zenon DEF Queued
  <2>2. Queued(j) => ctx[j] = "live"
    BY <1>3, Zenon DEF RequestInv
  <2>3. ~Queued(j)'
    BY <1>2, Zenon DEF Queued
  <2> QED
    BY <1>1, <2>1, <2>2, <2>3, Zenon DEF Freed
<1>5. AsyncType'
  <2>1. \A j \in Items : ctx'[j] \in {"none", "live", "freed", "corrupt"}
    BY <1>3, <1>4, Zenon DEF AsyncType
  <2> QED
    BY <1>1, <1>3, <2>1, Zenon DEF AsyncType
<1>6. StageInv'
  BY <1>1, <1>3, Zenon DEF StageInv
<1>7. ASSUME NEW j \in Items PROVE RequestInv(j)'
  <2>1. /\ OwnedBySubmitter(j)' <=> OwnedBySubmitter(j)
        /\ OwnedByWorker(j)' <=> OwnedByWorker(j)
    BY <1>1, Zenon DEF OwnedBySubmitter, OwnedByWorker
  <2>2. CASE Queued(j)
    <3>1. PICK n \in DOMAIN queue : queue[n] = j
      BY <2>2, Zenon DEF Queued
    <3>2. /\ \A t \in Threads : item[t] # j
          /\ \A w \in Workers : running[w] # j
          /\ j \in used /\ j \notin finished
      BY <3>1, OnePlace, Zenon
    <3>3. ~OwnedBySubmitter(j) /\ ~OwnedByWorker(j)
      BY <3>2, Zenon DEF OwnedBySubmitter, OwnedByWorker
    <3>4. calls[j] = 0 \/ (calls[j] = 1 /\ ret[j] = "KV_SUCCESS")
      BY <1>3, Zenon DEF RequestInv
    <3> QED
      BY <1>1, <1>4, <2>1, <2>2, <3>2, <3>3, <3>4, Zenon DEF RequestInv
  <2>3. CASE ~Queued(j)
    <3>1. Kept(j)
      BY <1>1, <1>4, <2>1, <2>3, Zenon DEF Kept
    <3> QED
      BY <1>3, <3>1, RequestKept, Zenon
  <2> QED
    BY <2>2, <2>3, Zenon
<1> QED
  BY <1>5, <1>6, <1>7, Zenon DEF AsyncInv

-----------------------------------------------------------------------------
(* The theorems about the asynchronous calls.                              *)

\* Every step of the composition preserves the invariant.
LEMMA NextAsync == AsyncInv /\ [AsyncNext]_allVars => AsyncInv'
<1> SUFFICES ASSUME AsyncInv, [AsyncNext]_allVars PROVE AsyncInv'
  BY Zenon
<1>1. PoolInvs'
  BY PoolNext, Zenon DEF AsyncInv
<1> QED
  BY <1>1, RequestSteps, RejectStep, AcceptStep, StartStep, ExecuteStep, FinishStep,
     PoolStep, LeftoverStep, Zenon DEF AsyncNext, AsyncWorkerStep

\* The inductive invariant of the asynchronous calls: the pool's invariants, and
\* what is known of a request by the place it is in (async_context,
\* async_worker_func, thread_pool_submit).
THEOREM AsyncInvCorrect == AsyncSpec => []AsyncInv
BY InitAsync, NextAsync, PTL DEF AsyncSpec

\* The variables of the asynchronous calls keep their types.
THEOREM AsyncTypeCorrect == AsyncSpec => []AsyncTypeOK
<1>1. AsyncInv => AsyncTypeOK
  BY Zenon DEF AsyncInv, PoolInvs, CoreInv, AsyncType, AsyncTypeOK
<1> QED
  BY <1>1, AsyncInvCorrect, PTL

\* Every asynchronous context is live exactly as long as a submitting thread, the
\* queue or a worker owns it, and is freed once, by whichever of the three free
\* sites (submit failure, async_worker_func, leftover loop) ends its life.
THEOREM ContextOwnedCorrect == AsyncSpec => []ContextOwned
<1>1. AsyncInv => ContextOwned
  BY Zenon DEF AsyncInv, RequestInv, ContextOwned
<1> QED
  BY <1>1, AsyncInvCorrect, PTL

\* async_worker_func calls back at most once, never for a request whose call
\* reported an error, and exactly once before a request is finished.
THEOREM CallbackContractCorrect == AsyncSpec => []CallbackContract
<1>1. ASSUME AsyncInv PROVE CallbackContract
  <2> SUFFICES ASSUME NEW i \in Items
               PROVE  /\ calls[i] <= 1
                      /\ calls[i] = 1 => ret[i] = "KV_SUCCESS"
                      /\ i \in finished /\ request[i].callback => calls[i] = 1
    BY Zenon DEF CallbackContract
  <2>1. RequestInv(i)
    BY <1>1, Zenon DEF AsyncInv
  <2>2. calls[i] = 0 \/ (calls[i] = 1 /\ ret[i] = "KV_SUCCESS")
    BY <2>1, Zenon DEF RequestInv
  <2>3. calls[i] <= 1 /\ (calls[i] = 1 => ret[i] = "KV_SUCCESS")
    BY <2>2
  <2> QED
    BY <2>1, <2>3, Zenon DEF RequestInv, Accepted
<1> QED
  BY <1>1, AsyncInvCorrect, PTL
=============================================================================
