----------------------------- MODULE ThreadPool -----------------------------
(***************************************************************************)
(* The bounded work queue and the worker threads of src/utils/thread_pool.c *)
(*                                                                         *)
(* Every function of the pool holds queue_lock from its first access of    *)
(* the queue to its last, except inside pthread_cond_wait.  A critical     *)
(* section is therefore one atomic step, and pthread_cond_wait ends one    *)
(* step and starts another: the thread is in the wait set of the condition *)
(* variable until a signal, a broadcast or a spurious wakeup takes it out, *)
(* and then runs for the lock like any other thread.                       *)
(***************************************************************************)
EXTENDS Integers, Sequences, FiniteSets

CONSTANTS
    Workers,          \* the threads started by thread_pool_create
    Clients,          \* application threads that call thread_pool_submit
    Items,            \* work items, numbered; each is the argument of one submit call
    None,             \* no item
    QueueDepth,       \* the queue_depth argument of thread_pool_create
    MaxFailures,      \* no call fails for want of memory once this many have failed
    CallbacksSubmit,  \* TRUE iff a running item may submit further items
    ClientsQuiesce    \* TRUE iff clients leave the pool before it is destroyed

ASSUME ThreadsAssumption ==
    /\ IsFiniteSet(Workers) /\ Workers # {}
    /\ IsFiniteSet(Clients)
    /\ Workers \cap Clients = {}

ASSUME ItemsAssumption == None \notin Items

ASSUME NumbersAssumption == Items \subseteq Nat

ASSUME DepthAssumption == QueueDepth \in Nat

ASSUME FailuresAssumption == MaxFailures \in Nat

ASSUME UsageAssumption ==
    /\ CallbacksSubmit \in BOOLEAN
    /\ ClientsQuiesce \in BOOLEAN

VARIABLES
    queue,      \* queue_head .. queue_tail; its length is queue_size
    shutdown,   \* the shutdown flag
    worker,     \* where each worker is in thread_pool_worker
    running,    \* the item each worker is executing outside the lock
    submit,     \* where each thread is in thread_pool_submit
    item,       \* the item each thread is submitting
    destroy,    \* where the destroying thread is in thread_pool_destroy
    used,       \* items for which thread_pool_submit was called
    refused,    \* items for which thread_pool_submit returned -1
    finished    \* items whose function returned

vars == <<queue, shutdown, worker, running, submit, item, destroy,
          used, refused, finished>>

Threads == Workers \cup Clients

\* queue_capacity as thread_pool_create computes it.
Capacity == IF QueueDepth > 0 THEN QueueDepth ELSE 128

\* The wait sets of queue_not_empty and queue_not_full.
NotEmptyWaiters == {w \in Workers : worker[w] = "wait"}
NotFullWaiters == {t \in Threads : submit[t] = "wait"}

TypeOK ==
    /\ queue \in Seq(Items)
    /\ shutdown \in BOOLEAN
    /\ worker \in [Workers -> {"loop", "wait", "run", "exited"}]
    /\ running \in [Workers -> Items \cup {None}]
    /\ submit \in [Threads -> {"out", "lock", "wait"}]
    /\ item \in [Threads -> Items \cup {None}]
    /\ destroy \in {"live", "joining", "freed"}
    /\ used \in SUBSET Items
    /\ refused \in SUBSET Items
    /\ finished \in SUBSET Items

Init ==
    /\ queue = <<>>
    /\ shutdown = FALSE
    /\ worker = [w \in Workers |-> "loop"]
    /\ running = [w \in Workers |-> None]
    /\ submit = [t \in Threads |-> "out"]
    /\ item = [t \in Threads |-> None]
    /\ destroy = "live"
    /\ used = {}
    /\ refused = {}
    /\ finished = {}

-----------------------------------------------------------------------------
(* pthread_cond_signal on each condition variable: one waiter, if there is *)
(* any, leaves the wait set.                                               *)

\* Mutant: a signal only for the first queued item.
SignalNotEmpty_FirstOnly ==
    \/ /\ NotEmptyWaiters = {} \/ queue # <<>>
       /\ UNCHANGED worker
    \/ /\ queue = <<>>
       /\ \E w \in NotEmptyWaiters : worker' = [worker EXCEPT ![w] = "loop"]

SignalNotEmpty ==
    \/ /\ NotEmptyWaiters = {}
       /\ UNCHANGED worker
    \/ \E w \in NotEmptyWaiters : worker' = [worker EXCEPT ![w] = "loop"]

\* Mutant: a signal only when the queue was full.
SignalNotFull_FullOnly ==
    \/ /\ NotFullWaiters = {} \/ Len(queue) < Capacity
       /\ UNCHANGED submit
    \/ /\ Len(queue) >= Capacity
       /\ \E t \in NotFullWaiters : submit' = [submit EXCEPT ![t] = "lock"]

SignalNotFull ==
    \/ /\ NotFullWaiters = {}
       /\ UNCHANGED submit
    \/ \E t \in NotFullWaiters : submit' = [submit EXCEPT ![t] = "lock"]

-----------------------------------------------------------------------------
(* thread_pool_worker                                                      *)

\* The loop condition of the wait: no work, and no shutdown.
WorkerMustWait == queue = <<>> /\ ~shutdown

WorkerWait(w) ==
    /\ worker[w] = "loop"
    /\ WorkerMustWait
    /\ worker' = [worker EXCEPT ![w] = "wait"]
    /\ UNCHANGED <<queue, shutdown, running, submit, item, destroy,
                   used, refused, finished>>

\* Mutant: exit on shutdown without looking at the queue.
WorkerExit_NoDrain(w) ==
    /\ worker[w] = "loop"
    /\ shutdown
    /\ worker' = [worker EXCEPT ![w] = "exited"]
    /\ UNCHANGED <<queue, shutdown, running, submit, item, destroy,
                   used, refused, finished>>

\* "If shutting down and queue is empty, exit"
WorkerExit(w) ==
    /\ worker[w] = "loop"
    /\ shutdown /\ queue = <<>>
    /\ worker' = [worker EXCEPT ![w] = "exited"]
    /\ UNCHANGED <<queue, shutdown, running, submit, item, destroy,
                   used, refused, finished>>

\* Dequeue the head and wake a submitter blocked on a full queue.
WorkerDequeue(w) ==
    /\ worker[w] = "loop"
    /\ ~WorkerMustWait
    /\ ~(shutdown /\ queue = <<>>)
    /\ running' = [running EXCEPT ![w] = Head(queue)]
    /\ queue' = Tail(queue)
    /\ worker' = [worker EXCEPT ![w] = "run"]
    /\ SignalNotFull
    /\ UNCHANGED <<shutdown, item, destroy, used, refused, finished>>

\* item->func(item->arg) returns, the item is freed and the loop starts over.
WorkerFinish(w) ==
    /\ worker[w] = "run"
    /\ submit[w] = "out"
    /\ finished' = finished \cup {running[w]}
    /\ running' = [running EXCEPT ![w] = None]
    /\ worker' = [worker EXCEPT ![w] = "loop"]
    /\ UNCHANGED <<queue, shutdown, submit, item, destroy, used, refused>>

-----------------------------------------------------------------------------
(* thread_pool_submit                                                      *)

\* The threads that may call thread_pool_submit: a client, or the worker that
\* runs an item whose callback submits another.
MayCallSubmit(t) ==
    /\ submit[t] = "out"
    /\ destroy # "freed"
    /\ t \in Workers => CallbacksSubmit /\ worker[t] = "run"
    /\ t \in Clients /\ ClientsQuiesce => destroy = "live"

\* Items are numbered in the order of the calls.
InOrder(i) == \A j \in Items \ used : i <= j

\* The work item is allocated; the thread goes for queue_lock.
SubmitCall(t, i) ==
    /\ MayCallSubmit(t)
    /\ i \notin used /\ InOrder(i)
    /\ used' = used \cup {i}
    /\ submit' = [submit EXCEPT ![t] = "lock"]
    /\ item' = [item EXCEPT ![t] = i]
    /\ UNCHANGED <<queue, shutdown, worker, running, destroy, refused,
                   finished>>

\* The bound on failing calls.
MayFail == Cardinality(refused) < MaxFailures

\* Mutant: the failed allocation goes unnoticed.
SubmitNoMemory_Unchecked(t, i) ==
    /\ MayCallSubmit(t)
    /\ i \notin used /\ InOrder(i) /\ MayFail
    /\ used' = used \cup {i}
    /\ submit' = [submit EXCEPT ![t] = "lock"]
    /\ UNCHANGED <<queue, shutdown, worker, running, item, destroy, refused,
                   finished>>

\* The allocation of the work item fails: -1 without touching the queue.
SubmitNoMemory(t, i) ==
    /\ MayCallSubmit(t)
    /\ i \notin used /\ InOrder(i) /\ MayFail
    /\ used' = used \cup {i}
    /\ refused' = refused \cup {i}
    /\ UNCHANGED <<queue, shutdown, worker, running, submit, item, destroy,
                   finished>>

\* Mutant: off by one.
SubmitMustWait_OffByOne == Len(queue) > Capacity /\ ~shutdown

\* The loop condition of the backpressure wait.
SubmitMustWait == Len(queue) >= Capacity /\ ~shutdown

SubmitWait(t) ==
    /\ submit[t] = "lock"
    /\ destroy # "freed"
    /\ SubmitMustWait
    /\ submit' = [submit EXCEPT ![t] = "wait"]
    /\ UNCHANGED <<queue, shutdown, worker, running, item, destroy,
                   used, refused, finished>>

\* Shutdown, seen on entry or after waking: the work item is freed, -1.
SubmitReject(t) ==
    /\ submit[t] = "lock"
    /\ destroy # "freed"
    /\ shutdown
    /\ refused' = refused \cup {item[t]}
    /\ submit' = [submit EXCEPT ![t] = "out"]
    /\ item' = [item EXCEPT ![t] = None]
    /\ UNCHANGED <<queue, shutdown, worker, running, destroy, used, finished>>

\* Mutant: shutdown is not looked at again after waking.
SubmitEnqueue_NoRecheck(t) ==
    /\ submit[t] = "lock"
    /\ destroy # "freed"
    /\ ~SubmitMustWait
    /\ queue' = Append(queue, item[t])
    /\ SignalNotEmpty
    /\ submit' = [submit EXCEPT ![t] = "out"]
    /\ item' = [item EXCEPT ![t] = None]
    /\ UNCHANGED <<shutdown, running, destroy, used, refused, finished>>

\* Enqueue at the tail, wake one worker, return 0.
SubmitEnqueue(t) ==
    /\ submit[t] = "lock"
    /\ destroy # "freed"
    /\ ~SubmitMustWait /\ ~shutdown
    /\ queue' = Append(queue, item[t])
    /\ SignalNotEmpty
    /\ submit' = [submit EXCEPT ![t] = "out"]
    /\ item' = [item EXCEPT ![t] = None]
    /\ UNCHANGED <<shutdown, running, destroy, used, refused, finished>>

-----------------------------------------------------------------------------
(* Spurious wakeups, which pthread_cond_wait permits.                      *)

SpuriousWakeWorker(w) ==
    /\ worker[w] = "wait"
    /\ worker' = [worker EXCEPT ![w] = "loop"]
    /\ UNCHANGED <<queue, shutdown, running, submit, item, destroy,
                   used, refused, finished>>

SpuriousWakeSubmitter(t) ==
    /\ submit[t] = "wait"
    /\ submit' = [submit EXCEPT ![t] = "lock"]
    /\ UNCHANGED <<queue, shutdown, worker, running, item, destroy,
                   used, refused, finished>>

-----------------------------------------------------------------------------
(* thread_pool_destroy                                                     *)

\* Mutant: only the workers are woken.
DestroyBegin_NotEmptyOnly ==
    /\ destroy = "live"
    /\ ClientsQuiesce => \A c \in Clients : submit[c] = "out"
    /\ shutdown' = TRUE
    /\ worker' = [w \in Workers |->
                    IF worker[w] = "wait" THEN "loop" ELSE worker[w]]
    /\ destroy' = "joining"
    /\ UNCHANGED <<queue, running, submit, item, used, refused, finished>>

\* Under the lock: set shutdown and broadcast both condition variables.
DestroyBegin ==
    /\ destroy = "live"
    /\ ClientsQuiesce => \A c \in Clients : submit[c] = "out"
    /\ shutdown' = TRUE
    /\ worker' = [w \in Workers |->
                    IF worker[w] = "wait" THEN "loop" ELSE worker[w]]
    /\ submit' = [t \in Threads |->
                    IF submit[t] = "wait" THEN "lock" ELSE submit[t]]
    /\ destroy' = "joining"
    /\ UNCHANGED <<queue, running, item, used, refused, finished>>

\* Mutant: the join loop stops after the first thread.
DestroyFree_OneJoin ==
    /\ destroy = "joining"
    /\ \E w \in Workers : worker[w] = "exited"
    /\ queue' = <<>>
    /\ destroy' = "freed"
    /\ UNCHANGED <<shutdown, worker, running, submit, item, used, refused,
                   finished>>

\* All workers joined: items left in the queue are dropped through their
\* cleanup function, and the pool is freed.
DestroyFree ==
    /\ destroy = "joining"
    /\ \A w \in Workers : worker[w] = "exited"
    /\ queue' = <<>>
    /\ destroy' = "freed"
    /\ UNCHANGED <<shutdown, worker, running, submit, item, used, refused,
                   finished>>

\* The pool is gone and every thread is out of it.
Terminated ==
    /\ destroy = "freed"
    /\ UNCHANGED vars

-----------------------------------------------------------------------------

WorkerStep(w) ==
    \/ WorkerWait(w)
    \/ WorkerExit(w)
    \/ WorkerDequeue(w)
    \/ WorkerFinish(w)

SubmitStep(t) ==
    \/ SubmitWait(t)
    \/ SubmitReject(t)
    \/ SubmitEnqueue(t)

Next ==
    \/ \E w \in Workers : WorkerStep(w) \/ SpuriousWakeWorker(w)
    \/ \E t \in Threads : SubmitStep(t) \/ SpuriousWakeSubmitter(t)
    \/ \E t \in Threads, i \in Items : SubmitCall(t, i) \/ SubmitNoMemory(t, i)
    \/ DestroyBegin
    \/ DestroyFree
    \/ Terminated

Spec == Init /\ [][Next]_vars

(* Every thread that can make a step of its own eventually makes it: the   *)
(* scheduler runs every thread, queue_lock is held only for bounded        *)
(* critical sections, and items return.  Calls of thread_pool_submit and   *)
(* the call of thread_pool_destroy are the application's choice, and       *)
(* spurious wakeups are never owed: no fairness is assumed of them.        *)
Fairness ==
    /\ \A w \in Workers : WF_vars(WorkerStep(w))
    /\ \A t \in Threads : WF_vars(SubmitStep(t))
    /\ WF_vars(DestroyFree)

FairSpec == Spec /\ Fairness

-----------------------------------------------------------------------------
(* Properties                                                              *)

\* Backpressure: however many submitters wake up together, the queue never
\* holds more than queue_capacity items (the wait loop of thread_pool_submit
\* re-evaluates its condition after every wakeup).
QueueBounded == Len(queue) <= Capacity

\* A worker leaves thread_pool_worker only for good reason and for ever: once
\* one has exited the pool is shutting down and the queue is empty, so the
\* loop of thread_pool_destroy over leftover items finds none.
ExitMeansDrained ==
    (\E w \in Workers : worker[w] = "exited") => shutdown /\ queue = <<>>

\* No wakeup of queue_not_empty is lost: while a worker sleeps, there is for
\* each queued item another worker that is awake and about to look at the
\* queue, and nobody sleeps through the shutdown.
AwakeWorkers == {w \in Workers : worker[w] = "loop"}
NoLostWork ==
    NotEmptyWaiters # {} =>
        /\ ~shutdown
        /\ Len(queue) <= Cardinality(AwakeWorkers)

\* No wakeup of queue_not_full is lost: while a submitter sleeps, there is for
\* each free slot of the queue another submitter that is awake and about to
\* use it, and nobody sleeps through the shutdown.
AwakeSubmitters == {t \in Threads : submit[t] = "lock"}
NoLostSlot ==
    NotFullWaiters # {} =>
        /\ ~shutdown
        /\ Capacity - Len(queue) <= Cardinality(AwakeSubmitters)

\* thread_pool_destroy frees the pool only when no thread is inside one of its
\* functions: the lock and the condition variables it destroys are not in use.
PoolOutlivesCalls ==
    destroy = "freed" =>
        /\ \A w \in Workers : worker[w] = "exited"
        /\ \A t \in Threads : submit[t] = "out"

\* The pool implements WorkQueue: every item is refused or accepted, accepted
\* items start in FIFO order and run exactly once, and the pool is freed only
\* after all of them have run ("Graceful shutdown drains the queue before
\* joining threads").
WQ == INSTANCE WorkQueue WITH
        pending <- queue,
        active <- {running[w] : w \in Workers} \ {None},
        done <- finished,
        state <- CASE destroy = "live" -> "open"
                   [] destroy = "joining" -> "closed"
                   [] destroy = "freed" -> "gone"
ImplementsWorkQueue == WQ!Spec

\* An item that was enqueued is eventually executed, whether or not the pool
\* is destroyed meanwhile.
Queued(i) == \E n \in DOMAIN queue : queue[n] = i
QueuedItemsRun == \A i \in Items : Queued(i) ~> i \in finished

\* thread_pool_destroy returns: the broadcasts reach every sleeping worker and
\* every callback that is blocked on the full queue.
DestroyReturns == destroy = "joining" ~> destroy = "freed"
=============================================================================
