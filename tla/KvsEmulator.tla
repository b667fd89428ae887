---------------------------- MODULE KvsEmulator ----------------------------
(***************************************************************************)
(* The device behind the engine: the synchronous calls of the kvs library  *)
(* on the emulator it is built with.  A caller takes an I/O context from a *)
(* pool, submits a command and waits; one thread of the submission queue   *)
(* executes commands on the map and passes them to the completion queue,   *)
(* whose one interrupt thread completes them.  Requests the front end      *)
(* refuses for their lengths never get here.                               *)
(***************************************************************************)
EXTENDS Integers, Sequences, FiniteSets, Functions

CONSTANTS
    Callers,        \* threads of the engine that call the library
    Keys, Values, NoValue,
    Size,           \* length of each value
    KeySize,        \* length of a key
    Rooms,          \* buffer sizes a retrieve is made with
    PoolSize,       \* MAX_POOLSIZE
    QueueDepth,     \* queuedepth, of both queues
    MaxCalls        \* bound on the calls made

ASSUME EmulatorAssumption ==
    /\ PoolSize \in Nat \ {0} /\ QueueDepth \in Nat \ {0} /\ IsFiniteSet(Keys)
    /\ MaxCalls \in Nat /\ Rooms \subseteq Nat
    /\ KeySize \in Nat /\ Size \in [Values -> Nat] /\ NoValue \notin Values

VARIABLES
    m_map,      \* kv_emulator::m_map
    used,       \* m_capacity - m_available
    pool,       \* kv_ctx_pool
    context,    \* done_sync and iocb.result of each context
    sq, cq,     \* commands in the two queues
    sqThread,   \* process_submitted_commands: its step and its command
    cqThread,   \* process_interrupts: likewise
    caller,     \* the call each caller is making, its buffers included (answer is
                \* a history variable: what its command was answered when executed)
    driver,     \* how far ~KvEmulator has got
    calls       \* calls made so far

vars == <<m_map, used, pool, context, sq, cq, sqThread, cqThread, caller, driver, calls>>

\* The I/O contexts that init allocates, in this order.
Contexts == 1 .. PoolSize

Idle == [pc |-> "idle"]

\* A command points to its caller's key and value and carries its context.
NoCommand == [caller |-> "none"]

Requests ==
    [kind : {"store"}, key : Keys, arg : Values, flag : BOOLEAN, room : {0}]
    \cup [kind : {"retrieve"}, key : Keys, arg : {NoValue}, flag : BOOLEAN, room : Rooms]
    \cup [kind : {"delete", "exist"}, key : Keys, arg : {NoValue}, flag : {FALSE}, room : {0}]

\* calloc'd, and cleared again by the memset of free_context.
Cleared == [done |-> FALSE, result |-> "none"]

Init ==
    /\ m_map = [k \in Keys |-> NoValue]
    /\ used = 0
    /\ pool = [c \in Contexts |-> c]
    /\ context = [c \in Contexts |-> Cleared]
    /\ sq = <<>> /\ cq = <<>>
    /\ sqThread = [pc |-> "dequeue", cmd |-> NoCommand]
    /\ cqThread = [pc |-> "dequeue", cmd |-> NoCommand]
    /\ caller = [t \in Callers |-> Idle]
    /\ driver = "open"
    /\ calls = 0

-----------------------------------------------------------------------------
(* Callers: store_tuple, retrieve_tuple, delete_tuple and exist_tuple      *)

Call(t) ==
    /\ driver = "open" /\ calls < MaxCalls /\ caller[t] = Idle
    /\ calls' = calls + 1
    /\ \E r \in Requests :
          caller' = [caller EXCEPT ![t] =
              [pc |-> "prepare", req |-> r, ctx |-> "none", res |-> "none", out |-> NoValue,
               answer |-> "none"]]
    /\ UNCHANGED <<m_map, used, pool, context, sq, cq, sqThread, cqThread, driver>>

\* prep_io_context: wait until the pool has a context, and clear done_sync.
Prepare(t) ==
    /\ caller[t].pc = "prepare" /\ pool # <<>>
    /\ pool' = Tail(pool)
    /\ context' = [context EXCEPT ![Head(pool)].done = FALSE]
    /\ caller' = [caller EXCEPT ![t].pc = "submit", ![t].ctx = Head(pool)]
    /\ UNCHANGED <<m_map, used, sq, cq, sqThread, cqThread, driver, calls>>

\* Mutant: a full queue takes one command more.
HasRoom_OffByOne(q) == Len(q) <= QueueDepth

HasRoom(q) == Len(q) < QueueDepth

\* submit_io: enqueue blocks while the submission queue is full.
Submit(t) ==
    /\ caller[t].pc = "submit" /\ HasRoom(sq)
    /\ sq' = Append(sq, [caller |-> t, ctx |-> caller[t].ctx, retcode |-> "none"])
    /\ caller' = [caller EXCEPT ![t].pc = "wait"]
    /\ UNCHANGED <<m_map, used, pool, context, cq, sqThread, cqThread, driver, calls>>

\* code_map, for the codes these commands end with.
convert_return_code(r) ==
    CASE r = "KV_SUCCESS" -> "KVS_SUCCESS"
      [] r = "KV_ERR_KEY_EXIST" -> "KVS_ERR_VALUE_UPDATE_NOT_ALLOWED"
      [] r = "KV_ERR_KEY_NOT_EXIST" -> "KVS_ERR_KEY_NOT_EXIST"
      [] r = "KV_ERR_BUFFER_SMALL" -> "KVS_ERR_BUFFER_SMALL"
      [] r = "KV_ERR_OPTION_INVALID" -> "KVS_ERR_OPTION_INVALID"
      [] OTHER -> r

\* Mutant: one wait, without looking at done_sync again (a spurious wakeup ends it).
Completed_Spurious(t) == TRUE

\* while (ctx->done_sync == 0) done_cond_sync.wait(lock_s);
Completed(t) == context[caller[t].ctx].done

ReadResult(t) ==
    /\ caller[t].pc = "wait" /\ Completed(t)
    /\ caller' = [caller EXCEPT ![t].pc = "free",
                      ![t].res = convert_return_code(context[caller[t].ctx].result)]
    /\ UNCHANGED <<m_map, used, pool, context, sq, cq, sqThread, cqThread, driver, calls>>

\* free_context, and the return to the engine.
FreeContext(t) ==
    /\ caller[t].pc = "free"
    /\ context' = [context EXCEPT ![caller[t].ctx] = Cleared]
    /\ pool' = Append(pool, caller[t].ctx)
    /\ caller' = [caller EXCEPT ![t] = Idle]
    /\ UNCHANGED <<m_map, used, sq, cq, sqThread, cqThread, driver, calls>>

-----------------------------------------------------------------------------
(* The map: kv_emulator, what a command changes and answers                *)

Outcome(code, value, charge, out) ==
    [retcode |-> code, value |-> value, charge |-> charge, out |-> out]

\* Mutant: an overwrite gives the old value's space back and forgets the new one's.
kv_store_Refund(r, old) ==
    IF old = NoValue THEN Outcome("KV_SUCCESS", r.arg, KeySize + Size[r.arg], NoValue)
    ELSE IF ~r.flag THEN Outcome("KV_ERR_KEY_EXIST", old, 0, NoValue)
    ELSE Outcome("KV_SUCCESS", r.arg, -Size[old], NoValue)

\* An overwrite is charged the new and the old length.  (The check for room asks
\* for m_capacity <= 0, and the capacity of a device is positive: it never refuses.)
kv_store(r, old) ==
    IF old = NoValue THEN Outcome("KV_SUCCESS", r.arg, KeySize + Size[r.arg], NoValue)
    ELSE IF ~r.flag THEN Outcome("KV_ERR_KEY_EXIST", old, 0, NoValue)
    ELSE Outcome("KV_SUCCESS", r.arg, Size[r.arg] + Size[old], NoValue)

\* out stands for the bytes copied, and for actual_value_size when they do not fit.
kv_retrieve(r, old) ==
    IF r.flag THEN Outcome("KV_ERR_OPTION_INVALID", old, 0, NoValue)
    ELSE IF old = NoValue THEN Outcome("KV_ERR_KEY_NOT_EXIST", old, 0, NoValue)
    ELSE Outcome(IF r.room < Size[old] THEN "KV_ERR_BUFFER_SMALL" ELSE "KV_SUCCESS",
                 old, 0, old)

\* KV_DELETE_OPT_DEFAULT: deleting an absent key succeeds.
kv_delete(r, old) ==
    Outcome("KV_SUCCESS", NoValue,
            IF old = NoValue THEN 0 ELSE -(KeySize + Size[old]), NoValue)

kv_exist(r, old) ==
    Outcome("KV_SUCCESS", old, 0, IF old = NoValue THEN "no" ELSE "yes")

execute_cmd(r, old) ==
    CASE r.kind = "store" -> kv_store(r, old)
      [] r.kind = "retrieve" -> kv_retrieve(r, old)
      [] r.kind = "delete" -> kv_delete(r, old)
      [] r.kind = "exist" -> kv_exist(r, old)

-----------------------------------------------------------------------------
(* The submission queue's thread: process_submitted_commands               *)

\* terminate() has set the queue's shutdown flag.
SqShutdown == driver \in {"join sq", "stop cq", "join cq", "closed"}
CqShutdown == driver \in {"join cq", "closed"}

\* dequeue and execute_cmd.  One step, since only this thread uses the map and the
\* caller of the command waits.
Execute ==
    LET x == Head(sq)
        r == caller[x.caller].req
        o == execute_cmd(r, m_map[r.key])
    IN  /\ sqThread.pc = "dequeue" /\ ~SqShutdown /\ sq # <<>>
        /\ sq' = Tail(sq)
        /\ m_map' = [m_map EXCEPT ![r.key] = o.value]
        /\ used' = used + o.charge
        /\ caller' = [caller EXCEPT ![x.caller].out = o.out,
                          ![x.caller].answer = convert_return_code(o.retcode)]
        /\ sqThread' = [pc |-> "complete", cmd |-> [x EXCEPT !.retcode = o.retcode]]
        /\ UNCHANGED <<pool, context, cq, cqThread, driver, calls>>

\* Mutant: the completion queue is not waited for, a full one loses the command.
SqComplete_NoWait ==
    /\ sqThread.pc = "complete"
    /\ cq' = IF HasRoom(cq) THEN Append(cq, sqThread.cmd) ELSE cq
    /\ sqThread' = [pc |-> "dequeue", cmd |-> NoCommand]
    /\ UNCHANGED <<m_map, used, pool, context, sq, cqThread, caller, driver, calls>>

\* out->enqueue(cmd), which blocks while the completion queue is full.
SqComplete ==
    /\ sqThread.pc = "complete" /\ HasRoom(cq)
    /\ cq' = Append(cq, sqThread.cmd)
    /\ sqThread' = [pc |-> "dequeue", cmd |-> NoCommand]
    /\ UNCHANGED <<m_map, used, pool, context, sq, cqThread, caller, driver, calls>>

\* Mutant: dequeue does not look at the shutdown flag while the queue is empty.
SqExit_Nonempty ==
    /\ sqThread.pc = "dequeue" /\ SqShutdown /\ sq # <<>>
    /\ sqThread' = [sqThread EXCEPT !.pc = "exited"]
    /\ UNCHANGED <<m_map, used, pool, context, sq, cq, cqThread, caller, driver, calls>>

SqExit ==
    /\ sqThread.pc = "dequeue" /\ SqShutdown
    /\ sqThread' = [sqThread EXCEPT !.pc = "exited"]
    /\ UNCHANGED <<m_map, used, pool, context, sq, cq, cqThread, caller, driver, calls>>

-----------------------------------------------------------------------------
(* The completion queue's thread: process_interrupts and on_io_complete    *)

\* Mutant: done_sync is set before the result is in the context.
CompletionOrder_DoneFirst == <<"done", "result">>

\* on_io_complete writes iocb->result, and then done_sync under lock_sync.
CompletionOrder == <<"result", "done">>

\* The n-th write of on_io_complete for command x.
Written(x, n) ==
    IF CompletionOrder[n] = "result" THEN [context EXCEPT ![x.ctx].result = x.retcode]
    ELSE [context EXCEPT ![x.ctx].done = TRUE]

\* dequeue, the interrupt handler, and on_io_complete up to its first write.
CqDequeue ==
    /\ cqThread.pc = "dequeue" /\ ~CqShutdown /\ cq # <<>>
    /\ cq' = Tail(cq)
    /\ context' = Written(Head(cq), 1)
    /\ cqThread' = [pc |-> "notify", cmd |-> Head(cq)]
    /\ UNCHANGED <<m_map, used, pool, sq, sqThread, caller, driver, calls>>

\* The second write, notify_one, and the command is deleted.
OnIoComplete ==
    /\ cqThread.pc = "notify"
    /\ context' = Written(cqThread.cmd, 2)
    /\ cqThread' = [pc |-> "dequeue", cmd |-> NoCommand]
    /\ UNCHANGED <<m_map, used, pool, sq, cq, sqThread, caller, driver, calls>>

CqExit ==
    /\ cqThread.pc = "dequeue" /\ CqShutdown
    /\ cqThread' = [cqThread EXCEPT !.pc = "exited"]
    /\ UNCHANGED <<m_map, used, pool, context, sq, cq, sqThread, caller, driver, calls>>

-----------------------------------------------------------------------------
(* Closing the device: ~KvEmulator and remove_queue                        *)

\* The engine closes a device when its own threads have stopped using it: the
\* contexts and the interrupt handler go first.
Close ==
    /\ driver = "open" /\ \A t \in Callers : caller[t] = Idle
    /\ pool' = <<>>
    /\ driver' = "stop sq"
    /\ UNCHANGED <<m_map, used, context, sq, cq, sqThread, cqThread, caller, calls>>

\* terminate() of a queue sets shutdown and joins its thread; the submission
\* queue is removed before the completion queue its thread writes to.
Terminate ==
    /\ \/ driver = "stop sq" /\ driver' = "join sq"
       \/ driver = "join sq" /\ sqThread.pc = "exited" /\ driver' = "stop cq"
       \/ driver = "stop cq" /\ driver' = "join cq"
       \/ driver = "join cq" /\ cqThread.pc = "exited" /\ driver' = "closed"
    /\ UNCHANGED <<m_map, used, pool, context, sq, cq, sqThread, cqThread, caller, calls>>

Closed == driver = "closed" /\ UNCHANGED vars

CallerStep(t) == Prepare(t) \/ Submit(t) \/ ReadResult(t) \/ FreeContext(t)
SqStep == Execute \/ SqComplete \/ SqExit
CqStep == CqDequeue \/ OnIoComplete \/ CqExit

Next ==
    \/ \E t \in Callers : Call(t) \/ CallerStep(t)
    \/ SqStep \/ CqStep
    \/ Close \/ Terminate \/ Closed

\* The two threads and the callers keep running: a waiter is notified, or looks
\* again every 10 microseconds.  That callers competing for a context or for room
\* in the queue are not starved need not be assumed while calls are bounded.
Fairness ==
    /\ WF_vars(SqStep) /\ WF_vars(CqStep) /\ WF_vars(Terminate)
    /\ \A t \in Callers : WF_vars(CallerStep(t))

Spec == Init /\ [][Next]_vars /\ Fairness

-----------------------------------------------------------------------------
(* Properties                                                              *)

\* Every command between its submission and the end of on_io_complete.
InFlight ==
    {x \in Range(sq) \cup Range(cq) \cup {sqThread.cmd, cqThread.cmd} : x # NoCommand}

TypeOK ==
    /\ m_map \in [Keys -> Values \cup {NoValue}]
    /\ Range(pool) \subseteq Contexts /\ IsInjective(pool)
    /\ Len(sq) <= QueueDepth /\ Len(cq) <= QueueDepth
    /\ sqThread.pc \in {"dequeue", "complete", "exited"}
    /\ cqThread.pc \in {"dequeue", "notify", "exited"}
    /\ \A t \in Callers :
          caller[t].pc \in {"idle", "prepare", "submit", "wait", "free"}

HasContext(t) == caller[t].pc \in {"submit", "wait", "free"}

\* The pool's protocol (malloc_context, free_context): a context has one owner, the
\* pool or one call, and none is lost; and a command in flight belongs to a caller
\* that still waits, with that context not yet done.  So on_io_complete and the map
\* never write into a context or a buffer whose call has returned.
ContextsOwned ==
    /\ \A t, u \in Callers :
          HasContext(t) =>
              /\ caller[t].ctx \notin Range(pool)
              /\ (HasContext(u) /\ caller[u].ctx = caller[t].ctx) => t = u
    /\ driver = "open" =>
          Contexts = Range(pool) \cup {caller[t].ctx : t \in {u \in Callers : HasContext(u)}}
    /\ \A x \in InFlight :
          /\ caller[x.caller].pc = "wait" /\ caller[x.caller].ctx = x.ctx
          /\ ~context[x.ctx].done

\* What a key takes, with its value, and the bytes that the map holds.
Footprint(value) == IF value = NoValue THEN 0 ELSE KeySize + Size[value]
StoredBytes == UNION {{k} \X (1 .. Footprint(m_map[k])) : k \in Keys}

\* kvs_get_device_utilization, which the health probe samples, is computed from
\* m_available: it never reports less than the device holds.  (It can report more:
\* an overwrite is charged for the value it replaces, and that is never given back.)
SpaceNotUnderstated == used >= Cardinality(StoredBytes)

\* A call is applied when its command has been executed.  What it returns is then
\* the command's answer, and in the end the result read from the context.
AbstractOp(c) ==
    IF c = Idle THEN [phase |-> "idle"]
    ELSE [phase |-> IF c.answer = "none" THEN "pending" ELSE "applied",
          kind |-> c.req.kind, key |-> c.req.key, arg |-> c.req.arg, flag |-> c.req.flag,
          room |-> c.req.room, out |-> c.out,
          res |-> IF c.pc = "free" THEN c.res ELSE c.answer]
AbstractCall == [t \in Callers |-> AbstractOp(caller[t])]

AD == INSTANCE AtomicDevice WITH map <- m_map, call <- AbstractCall

\* Through pool, queues, threads and completion, a call of the library acts on the
\* map at one instant while it runs and returns the result and the data of that
\* instant, never those of another call that used the same context: what KvEngine's
\* one-step device operations take for granted.
ImplementsAtomicDevice == AD!Spec

\* However few contexts and however short the queues, every call returns.
CallsReturn == \A t \in Callers : (caller[t] # Idle) ~> (caller[t] = Idle)

\* Closing a device (kvs_close_device) returns: both threads notice the shutdown.
CloseReturns == (driver # "open") ~> (driver = "closed")

=============================================================================
