------------------------------ MODULE AsyncOps ------------------------------
(***************************************************************************)
(* src/async/async_ops.c on top of the thread pool.  An asynchronous call  *)
(* copies its arguments into a heap-allocated context, hands the context   *)
(* to the pool and returns; a worker runs the operation, calls the         *)
(* callback and frees the context.  What matters is who owns the context   *)
(* and how often the callback runs.                                        *)
(*                                                                         *)
(* A request is an item of the pool: its context is the argument of the    *)
(* work item.  The operation itself is a choice of result; the modules     *)
(* about the synchronous operations say what it does.                      *)
(***************************************************************************)
EXTENDS ThreadPool

CONSTANT
    NullCallbacks   \* the requests for which the application passes no callback

ASSUME CallbackAssumption == NullCallbacks \subseteq Items

VARIABLES
    request,   \* whether the request of each context has a callback
    ctx,       \* life of the async_context_t of each request
    ret,       \* what the asynchronous call returned for each request
    stage,     \* where each worker is in async_worker_func
    calls      \* how often the callback of each request was invoked

asyncVars == <<request, ctx, ret, stage, calls>>
allVars == <<vars, asyncVars>>

Requests == [callback : BOOLEAN]

AsyncTypeOK ==
    /\ TypeOK
    /\ request \in [Items -> Requests \cup {None}]
    /\ ctx \in [Items -> {"none", "live", "freed", "corrupt"}]
    /\ ret \in [Items -> {"none", "KV_SUCCESS", "KV_ERR_INVALID_PARAM",
                          "KV_ERR_NO_MEMORY", "KV_ERR_IO"}]
    /\ stage \in [Workers -> {"idle", "op", "callback", "skip"}]
    /\ calls \in [Items -> Nat]

AsyncInit ==
    /\ Init
    /\ request = [i \in Items |-> None]
    /\ ctx = [i \in Items |-> "none"]
    /\ ret = [i \in Items |-> "none"]
    /\ stage = [w \in Workers |-> "idle"]
    /\ calls = [i \in Items |-> 0]

\* async_context_free: a second call for one context corrupts the heap.
Freed(c) == IF c = "live" THEN "freed" ELSE "corrupt"
ContextFree(S) == ctx' = [i \in Items |-> IF i \in S THEN Freed(ctx[i]) ELSE ctx[i]]

-----------------------------------------------------------------------------
(* kv_engine_store_async, kv_engine_retrieve_async, kv_engine_delete_async *)

\* A worker calls back into the engine only from a completion callback.
InCallback(t) == t \in Workers => stage[t] = "callback"

\* The parameter checks fail, or async_context_create runs out of memory and
\* frees what it had allocated: nothing is submitted.  (An engine without worker
\* threads has no pool, and every call ends here with KV_ERR_NOT_INITIALIZED.)
AsyncRefuse(t, i) ==
    /\ MayCallSubmit(t) /\ InCallback(t)
    /\ i \notin used /\ InOrder(i) /\ MayFail
    /\ used' = used \cup {i}
    /\ refused' = refused \cup {i}
    /\ \E r \in {"KV_ERR_INVALID_PARAM", "KV_ERR_NO_MEMORY"} :
            ret' = [ret EXCEPT ![i] = r]
    /\ UNCHANGED <<queue, shutdown, worker, running, submit, item, destroy,
                   finished, request, ctx, stage, calls>>

\* The context exists and thread_pool_submit is entered.
AsyncCall(t, i) ==
    /\ InCallback(t)
    /\ SubmitCall(t, i)
    /\ request' = [request EXCEPT ![i] = [callback |-> i \notin NullCallbacks]]
    /\ ctx' = [ctx EXCEPT ![i] = "live"]
    /\ UNCHANGED <<ret, stage, calls>>

\* thread_pool_submit returns -1 for want of memory: the context is freed.
AsyncNoMemory(t, i) ==
    /\ InCallback(t)
    /\ SubmitNoMemory(t, i)
    /\ ret' = [ret EXCEPT ![i] = "KV_ERR_IO"]
    /\ ctx' = [ctx EXCEPT ![i] = "freed"]
    /\ UNCHANGED <<request, stage, calls>>

\* Mutants: the error path forgets the context, or reports the failure through
\* the callback as well.
AsyncReject_Leak(t) ==
    /\ SubmitReject(t)
    /\ ret' = [ret EXCEPT ![item[t]] = "KV_ERR_IO"]
    /\ UNCHANGED <<request, ctx, stage, calls>>
AsyncReject_CallsBack(t) ==
    /\ SubmitReject(t)
    /\ ret' = [ret EXCEPT ![item[t]] = "KV_ERR_IO"]
    /\ calls' = [calls EXCEPT ![item[t]] = @ + 1]
    /\ ContextFree({item[t]})
    /\ UNCHANGED <<request, stage>>

\* thread_pool_submit returns -1 because of a shutdown: likewise.
AsyncReject(t) ==
    /\ SubmitReject(t)
    /\ ret' = [ret EXCEPT ![item[t]] = "KV_ERR_IO"]
    /\ ContextFree({item[t]})
    /\ UNCHANGED <<request, stage, calls>>

\* thread_pool_submit returns 0: the context now belongs to the pool.
AsyncAccept(t) ==
    /\ SubmitEnqueue(t)
    /\ ret' = [ret EXCEPT ![item[t]] = "KV_SUCCESS"]
    /\ UNCHANGED <<request, ctx, stage, calls>>

-----------------------------------------------------------------------------
(* async_worker_func                                                       *)

AsyncStart(w) ==
    /\ WorkerDequeue(w)
    /\ stage' = [stage EXCEPT ![w] = "op"]
    /\ UNCHANGED <<request, ctx, ret, calls>>

\* The synchronous operation runs and the callback, if there is one, is invoked.
AsyncExecute(w) ==
    LET i == running[w]
        r == request[i]
    IN  /\ stage[w] = "op"
        /\ stage' = [stage EXCEPT ![w] = IF r.callback THEN "callback" ELSE "skip"]
        /\ calls' = [calls EXCEPT ![i] = @ + (IF r.callback THEN 1 ELSE 0)]
        /\ UNCHANGED <<vars, request, ctx, ret>>

\* The callback has returned; the context is freed.
AsyncFinish(w) ==
    /\ stage[w] \in {"callback", "skip"}
    /\ WorkerFinish(w)
    /\ ContextFree({running[w]})
    /\ stage' = [stage EXCEPT ![w] = "idle"]
    /\ UNCHANGED <<request, ret, calls>>

-----------------------------------------------------------------------------
(* Steps of the pool that do not concern the contexts, and the destruction *)
(* of the pool, which frees the context of every leftover item.            *)

PoolOnly ==
    /\ \/ \E w \in Workers : \/ WorkerWait(w)
                             \/ WorkerExit(w)
                             \/ SpuriousWakeWorker(w)
       \/ \E t \in Threads : SubmitWait(t) \/ SpuriousWakeSubmitter(t)
       \/ DestroyBegin
       \/ Terminated
    /\ UNCHANGED asyncVars

AsyncDestroyFree ==
    /\ DestroyFree
    /\ ContextFree({queue[n] : n \in DOMAIN queue})
    /\ UNCHANGED <<request, ret, stage, calls>>

AsyncWorkerStep(w) == AsyncStart(w) \/ AsyncExecute(w) \/ AsyncFinish(w)

AsyncNext ==
    \/ \E t \in Threads, i \in Items :
            AsyncRefuse(t, i) \/ AsyncCall(t, i) \/ AsyncNoMemory(t, i)
    \/ \E t \in Threads : AsyncReject(t) \/ AsyncAccept(t)
    \/ \E w \in Workers : AsyncWorkerStep(w)
    \/ PoolOnly
    \/ AsyncDestroyFree

AsyncSpec == AsyncInit /\ [][AsyncNext]_allVars

(* The fairness of the pool, for the composed steps.                       *)
AsyncFairness ==
    /\ \A w \in Workers :
         WF_allVars(AsyncWorkerStep(w)
                    \/ (UNCHANGED asyncVars /\ (WorkerWait(w) \/ WorkerExit(w))))
    /\ \A t \in Threads :
         WF_allVars(AsyncReject(t) \/ AsyncAccept(t)
                    \/ (UNCHANGED asyncVars /\ SubmitWait(t)))
    /\ WF_allVars(AsyncDestroyFree)

AsyncFairSpec == AsyncSpec /\ AsyncFairness

-----------------------------------------------------------------------------
(* Properties                                                              *)

\* Every context has exactly one owner, and is live exactly as long as it has
\* one: a thread inside the asynchronous call, the queue, or the worker that
\* runs it.  So no context is leaked, freed twice, or used after it was freed,
\* whichever of the three free sites (submit failure, worker, leftover loop)
\* ends its life.
OwnedBySubmitter(i) == \E t \in Threads : item[t] = i
OwnedByWorker(i) == \E w \in Workers : running[w] = i
ContextOwned ==
    \A i \in Items :
        /\ ctx[i] # "corrupt"
        /\ ctx[i] = "live" <=>
             OwnedBySubmitter(i) \/ Queued(i) \/ OwnedByWorker(i)

\* The completion contract: no callback for a request whose asynchronous call
\* reported an error, never two, and exactly one once a request that has a
\* callback is finished.
CallbackContract ==
    \A i \in Items :
        /\ calls[i] <= 1
        /\ calls[i] = 1 => ret[i] = "KV_SUCCESS"
        /\ i \in finished /\ request[i].callback => calls[i] = 1

\* An accepted request reaches its callback ("A worker thread later executes
\* the corresponding sync operation and invokes the completion callback"), also
\* when the pool is destroyed meanwhile, unless at some moment all workers
\* are in callbacks that submit to the full queue.
AllWorkersBlocked == Len(queue) >= Capacity /\ \A w \in Workers : submit[w] # "out"
AcceptedCompletes ==
    \A i \in Items :
        ret[i] = "KV_SUCCESS" /\ request[i].callback
            ~> calls[i] = 1 \/ AllWorkersBlocked
=============================================================================
