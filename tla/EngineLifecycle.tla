--------------------------- MODULE EngineLifecycle ---------------------------
(***************************************************************************)
(* The life of an engine: kv_engine_init with each of its error paths      *)
(* (kv_engine.c), the creation of the worker threads (thread_pool.c), the  *)
(* probe thread (kv_engine_health.c), asynchronous work and                *)
(* kv_engine_add_device while the engine is in use, and kv_engine_cleanup. *)
(* The application does all of this from one thread, as kv_engine.h        *)
(* demands; the workers and the probe run beside it.                       *)
(*                                                                         *)
(* The subject is which parts of the engine exist when somebody uses them, *)
(* and what is left when init fails or cleanup returns.  What the workers  *)
(* and the probe do with the parts is the subject of the other modules.    *)
(***************************************************************************)
EXTENDS Integers, Sequences

CONSTANTS
    NumWorkers,    \* config->num_worker_threads, if the pool is wanted
    MaxDevices,    \* KV_MAX_DEVICES
    MaxWork        \* bound on the number of queued items

ASSUME LifecycleAssumption ==
    /\ NumWorkers \in Nat \ {0}
    /\ MaxDevices \in Nat \ {0}
    /\ MaxWork \in Nat

VARIABLES
    config,        \* the part of the configuration that names the devices
    app,           \* where the application thread is
    initialized,   \* engine->initialized
    todo,          \* the parts still to be set up, or to be torn down
    life,          \* the life of each part of the engine
    count,         \* effective_count of kv_engine_init
    num_devices,   \* engine->num_devices
    slot,          \* the state of each element of engine->devices
    worker,        \* where each worker is in thread_pool_worker
    shutdown,      \* pool->shutdown
    work,          \* pool->queue_size
    probe,         \* where the probe thread is
    running,       \* probe->running
    index          \* the loop variable of the probe's sweep

poolVars == <<worker, shutdown, work>>
deviceVars == <<count, num_devices, slot>>
probeVars == <<probe, running, index>>
vars == <<config, app, initialized, todo, life, deviceVars, poolVars, probeVars>>

Slots == 0 .. MaxDevices - 1
Workers == 1 .. NumWorkers
Parts == {"engine", "strings", "paths", "devices", "mem_pool", "workers",
          "stats_lock", "buffer_pool", "table", "probe"}

\* device_paths are the indices of the non-NULL elements of that array.
Configs == [num_devices : 0 .. MaxDevices + 1, device_path : BOOLEAN,
            device_paths : SUBSET Slots]

TypeOK ==
    /\ config \in Configs
    /\ app \in {"init", "broadcast", "join_created", "ready", "adding",
                "teardown", "join_workers", "signal", "join_probe", "end"}
    /\ initialized \in BOOLEAN
    /\ todo \in Seq(Parts)
    /\ life \in [Parts -> {"absent", "live", "released"}]
    /\ count \in 0 .. MaxDevices
    /\ num_devices \in 0 .. MaxDevices
    /\ slot \in [Slots -> {"closed", "opening", "open"}]
    /\ worker \in [Workers -> {"none", "lock", "checked", "wait", "run", "exited"}]
    /\ shutdown \in BOOLEAN
    /\ work \in 0 .. MaxWork
    /\ probe \in {"none", "check", "lock", "wait", "recheck", "next", "visit", "exit"}
    /\ running \in BOOLEAN
    /\ index \in 0 .. MaxDevices

\* The parts in the order in which kv_engine_init sets them up.
InitOrder == <<"engine", "strings", "paths", "devices", "mem_pool", "workers",
               "stats_lock", "buffer_pool", "table", "probe">>

Init ==
    /\ config \in Configs
    /\ app = "init"
    /\ initialized = FALSE
    /\ todo = InitOrder
    /\ life = [p \in Parts |-> "absent"]
    /\ count = 0 /\ num_devices = 0
    /\ slot = [d \in Slots |-> "closed"]
    /\ worker = [w \in Workers |-> "none"]
    /\ shutdown = FALSE
    /\ work = 0
    /\ probe = "none"
    /\ running = FALSE
    /\ index = 0

-----------------------------------------------------------------------------
(* kv_engine_init                                                          *)

\* Mutant: the error path of the memory pool leaves the devices open.
Undo_KeepsDevices(p) ==
    CASE p \in {"devices", "paths", "mem_pool"} -> <<"engine">>
      [] p = "workers" -> <<"mem_pool", "devices", "engine">>
      [] p = "table" -> <<"buffer_pool", "workers", "mem_pool", "devices",
                          "strings", "stats_lock", "engine">>
      [] OTHER -> <<>>

\* What the error path of each part releases, in order.
Undo(p) ==
    CASE p = "paths" -> <<"engine">>
      [] p \in {"devices", "mem_pool"} -> <<"devices", "engine">>
      [] p = "workers" -> <<"mem_pool", "devices", "engine">>
      [] p = "table" -> <<"buffer_pool", "workers", "mem_pool", "devices",
                          "strings", "stats_lock", "engine">>
      [] OTHER -> <<>>

\* The application is about to set up part p in kv_engine_init.
SettingUp(p) == app = "init" /\ todo # <<>> /\ Head(todo) = p

SetLife(p, l) == life' = [life EXCEPT ![p] = l]

\* The part exists now, and the next one is due.
Done(p) == SetLife(p, "live") /\ todo' = Tail(todo)

\* The error path of part p is entered.
Unwind(p) == app' = "teardown" /\ todo' = Undo(p)

\* Parts that are there at once: the structure, the copies of the strings, the
\* memory pool, the statistics, the table, and the buffer pool if there is one.
SetUp(p) ==
    /\ p \in {"engine", "strings", "mem_pool", "stats_lock", "buffer_pool", "table"}
    /\ SettingUp(p)
    /\ Done(p)
    /\ UNCHANGED <<config, app, initialized, deviceVars, poolVars, probeVars>>

SetUpFails(p) ==
    /\ p \in {"engine", "mem_pool", "table"}
    /\ SettingUp(p)
    /\ Unwind(p)
    /\ UNCHANGED <<config, initialized, life, deviceVars, poolVars, probeVars>>

\* Parts the engine does without: no workers or buffer pool are wanted, or the
\* buffer pool or the probe could not be created.
DoWithout(p) ==
    /\ p \in {"workers", "buffer_pool", "probe"}
    /\ SettingUp(p)
    /\ life[p] = "absent"
    /\ todo' = Tail(todo)
    /\ UNCHANGED <<config, app, initialized, life, deviceVars, poolVars, probeVars>>

\* Mutant: num_devices may exceed KV_MAX_DEVICES.
PathsValid_Unbounded ==
    IF config.num_devices > 0
    THEN \A d \in Slots : d < config.num_devices => d \in config.device_paths
    ELSE config.device_path

\* kv_engine_resolve_device_paths
PathsValid ==
    IF config.num_devices > 0
    THEN /\ config.num_devices <= MaxDevices
         /\ \A d \in Slots : d < config.num_devices => d \in config.device_paths
    ELSE config.device_path

\* The configuration is not looked at again afterwards.
ResolvePaths ==
    /\ SettingUp("paths")
    /\ IF PathsValid
       THEN /\ count' = IF config.num_devices > 0 THEN config.num_devices ELSE 1
            /\ todo' = Tail(todo)
            /\ UNCHANGED app
       ELSE Unwind("paths") /\ UNCHANGED count
    /\ config' = [num_devices |-> 0, device_path |-> FALSE, device_paths |-> {}]
    /\ UNCHANGED <<initialized, life, num_devices, slot, poolVars, probeVars>>

\* The loop that opens the devices ends.
DevicesOpened ==
    /\ SettingUp("devices")
    /\ num_devices = count
    /\ Done("devices")
    /\ UNCHANGED <<config, app, initialized, deviceVars, poolVars, probeVars>>

\* kv_engine_init returns KV_SUCCESS.
InitReturn ==
    /\ app = "init"
    /\ todo = <<>>
    /\ app' = "ready"
    /\ initialized' = TRUE
    /\ UNCHANGED <<config, todo, life, deviceVars, poolVars, probeVars>>

-----------------------------------------------------------------------------
(* kv_engine_open_device, in the loop of kv_engine_init and in             *)
(* kv_engine_add_device, which kv_engine.h allows before the first write   *)
(* and while no operation is in progress.                                  *)

NextSlot(s) == num_devices < MaxDevices /\ slot[num_devices] = s
SetSlot(s) == slot' = [slot EXCEPT ![num_devices] = s]

OpenDevice ==
    /\ SettingUp("devices") /\ num_devices < count
    /\ NextSlot("closed")
    /\ SetSlot("opening")
    /\ UNCHANGED <<config, app, initialized, todo, life, count, num_devices,
                   poolVars, probeVars>>

AddDevice ==
    /\ app = "ready"
    /\ work = 0 /\ \A w \in Workers : worker[w] # "run"
    /\ NextSlot("closed")
    /\ SetSlot("opening")
    /\ app' = "adding"
    /\ UNCHANGED <<config, initialized, todo, life, count, num_devices,
                   poolVars, probeVars>>

\* The device or its key space cannot be opened or created; what was opened is
\* closed.
OpenFails ==
    /\ NextSlot("opening")
    /\ SetSlot("closed")
    /\ IF app = "init" THEN Unwind("devices")
                       ELSE app' = "ready" /\ UNCHANGED todo
    /\ UNCHANGED <<config, initialized, life, count, num_devices, poolVars, probeVars>>

\* Mutant: the count is published before the slot is initialized.
OpenSucceeds_PublishFirst ==
    /\ NextSlot("opening")
    /\ num_devices' = num_devices + 1
    /\ app' = IF app = "adding" THEN "ready" ELSE app
    /\ UNCHANGED <<config, initialized, todo, life, count, slot, poolVars, probeVars>>

\* The slot is complete.
OpenSucceeds ==
    /\ NextSlot("opening")
    /\ SetSlot("open")
    /\ UNCHANGED <<config, app, initialized, todo, life, count, num_devices,
                   poolVars, probeVars>>

\* num_devices is incremented.
Publish ==
    /\ NextSlot("open")
    /\ num_devices' = num_devices + 1
    /\ app' = IF app = "adding" THEN "ready" ELSE app
    /\ UNCHANGED <<config, initialized, todo, life, count, slot, poolVars, probeVars>>

-----------------------------------------------------------------------------
(* thread_pool_create                                                      *)

AppStays == UNCHANGED <<config, initialized, deviceVars, probeVars>>

\* The structure and its array of threads are allocated, or are not.
CreatePool ==
    /\ SettingUp("workers")
    /\ life["workers"] = "absent"
    /\ \/ SetLife("workers", "live") /\ UNCHANGED <<app, todo>>
       \/ Unwind("workers") /\ UNCHANGED life
    /\ AppStays /\ UNCHANGED poolVars

Created == {w \in Workers : worker[w] # "none"}
NextWorker == CHOOSE w \in Workers \ Created : \A v \in Workers \ Created : w <= v

CreateWorker ==
    /\ SettingUp("workers")
    /\ life["workers"] = "live"
    /\ Created # Workers
    /\ worker' = [worker EXCEPT ![NextWorker] = "lock"]
    /\ AppStays /\ UNCHANGED <<app, todo, life, shutdown, work>>

WorkersCreated ==
    /\ SettingUp("workers")
    /\ Created = Workers
    /\ todo' = Tail(todo)
    /\ AppStays /\ UNCHANGED <<app, life, poolVars>>

\* pthread_create fails: "shut down already-created threads".  The flag is set
\* and the broadcast is made without queue_lock.
CreateWorkerFails ==
    /\ SettingUp("workers")
    /\ life["workers"] = "live"
    /\ Created # Workers
    /\ shutdown' = TRUE
    /\ app' = "broadcast"
    /\ AppStays /\ UNCHANGED <<todo, life, worker, work>>

\* A broadcast on queue_not_empty.
Awake == [w \in Workers |-> IF worker[w] = "wait" THEN "lock" ELSE worker[w]]

\* Mutant: the created threads are not woken.
Broadcast_Missing ==
    /\ app = "broadcast"
    /\ app' = "join_created"
    /\ AppStays /\ UNCHANGED <<todo, life, poolVars>>

Broadcast ==
    /\ app = "broadcast"
    /\ worker' = Awake
    /\ app' = "join_created"
    /\ AppStays /\ UNCHANGED <<todo, life, shutdown, work>>

AllExited == \A w \in Created : worker[w] = "exited"

JoinCreated ==
    /\ app = "join_created"
    /\ AllExited
    /\ SetLife("workers", "released")
    /\ Unwind("workers")
    /\ AppStays /\ UNCHANGED poolVars

-----------------------------------------------------------------------------
(* The workers.  A worker that found nothing to do holds queue_lock until  *)
(* pthread_cond_wait releases it.  The items are asynchronous requests of  *)
(* the application; the queue has room for them (ThreadPool is about the   *)
(* backpressure).                                                          *)

LockFree == \A w \in Workers : worker[w] # "checked"
SetWorker(w, pc) == worker' = [worker EXCEPT ![w] = pc]
WorkerStays == UNCHANGED <<config, app, initialized, todo, life, deviceVars, probeVars>>

WorkerCheck(w) ==
    /\ worker[w] = "lock"
    /\ LockFree
    /\ SetWorker(w, CASE work > 0 -> "run"
                      [] work = 0 /\ shutdown -> "exited"
                      [] OTHER -> "checked")
    /\ work' = IF work > 0 THEN work - 1 ELSE work
    /\ WorkerStays /\ UNCHANGED shutdown

WorkerWait(w) ==
    /\ worker[w] = "checked"
    /\ SetWorker(w, "wait")
    /\ WorkerStays /\ UNCHANGED <<shutdown, work>>

\* The operation is executed, its callback has returned.
WorkerFinish(w) ==
    /\ worker[w] = "run"
    /\ SetWorker(w, "lock")
    /\ WorkerStays /\ UNCHANGED <<shutdown, work>>

SpuriousWake(w) ==
    /\ worker[w] = "wait"
    /\ SetWorker(w, "lock")
    /\ WorkerStays /\ UNCHANGED <<shutdown, work>>

\* thread_pool_submit wakes one waiting worker, if there is any.
Submit ==
    /\ app = "ready"
    /\ life["workers"] = "live"
    /\ LockFree
    /\ work < MaxWork
    /\ work' = work + 1
    /\ \/ /\ \A w \in Workers : worker[w] # "wait"
          /\ UNCHANGED worker
       \/ \E w \in Workers : worker[w] = "wait" /\ SetWorker(w, "lock")
    /\ WorkerStays /\ UNCHANGED shutdown

-----------------------------------------------------------------------------
(* The probe thread                                                        *)

\* health_probe_create
CreateProbe ==
    /\ SettingUp("probe")
    /\ Done("probe")
    /\ running' = TRUE
    /\ probe' = "check"
    /\ UNCHANGED <<config, app, initialized, deviceVars, poolVars, index>>

ProbeMoves(from, to) == probe = from /\ probe' = to
ProbeStays == UNCHANGED <<config, app, initialized, todo, life, deviceVars, poolVars, running>>

\* while (running)
ProbeCheck ==
    /\ ProbeMoves("check", IF running THEN "lock" ELSE "exit")
    /\ ProbeStays /\ UNCHANGED index

\* Take the mutex and wait.
ProbeWait ==
    /\ ProbeMoves("lock", "wait")
    /\ ProbeStays /\ UNCHANGED index

\* Mutant: pthread_cond_wait instead of pthread_cond_timedwait.
ProbeTimeout_Untimed == FALSE /\ UNCHANGED vars

\* The deadline passes.
ProbeTimeout ==
    /\ ProbeMoves("wait", "recheck")
    /\ ProbeStays /\ UNCHANGED index

\* if (!running) break
ProbeRecheck ==
    /\ ProbeMoves("recheck", IF running THEN "next" ELSE "exit")
    /\ index' = 0
    /\ ProbeStays

\* i < num_devices
ProbeNext ==
    /\ ProbeMoves("next", IF index < num_devices THEN "visit" ELSE "check")
    /\ ProbeStays /\ UNCHANGED index

\* Use devices[i]: its health fields and its device handle.
ProbeVisit ==
    /\ ProbeMoves("visit", "next")
    /\ index' = index + 1
    /\ ProbeStays

-----------------------------------------------------------------------------
(* kv_engine_cleanup and the error paths of kv_engine_init                 *)

\* Mutant: the devices are closed before the workers have drained the queue.
CleanupOrder_DevicesFirst ==
    <<"probe", "devices", "workers", "buffer_pool", "mem_pool", "table",
      "strings", "stats_lock", "engine">>

\* The parts in the order in which kv_engine_cleanup releases them.
CleanupOrder ==
    <<"probe", "workers", "buffer_pool", "mem_pool", "devices", "table",
      "strings", "stats_lock", "engine">>

\* The application may still have asynchronous work in the queue.
Cleanup ==
    /\ app = "ready"
    /\ app' = "teardown"
    /\ todo' = CleanupOrder
    /\ UNCHANGED <<config, initialized, life, deviceVars, poolVars, probeVars>>

TearingDown(p) == app = "teardown" /\ todo # <<>> /\ Head(todo) = p

Released(p) ==
    /\ SetLife(p, IF life[p] = "live" THEN "released" ELSE life[p])
    /\ todo' = Tail(todo)

\* A part that nobody has to be waited for; the optional ones may be absent.
Release(p) ==
    /\ TearingDown(p)
    /\ p \in {"workers", "probe"} => life[p] # "live"
    /\ p # "devices"
    /\ Released(p)
    /\ UNCHANGED <<config, app, initialized, deviceVars, poolVars, probeVars>>

\* kv_engine_close_device for devices 0 .. num_devices - 1.
CloseDevices ==
    /\ TearingDown("devices")
    /\ slot' = [d \in Slots |-> IF d < num_devices THEN "closed" ELSE slot[d]]
    /\ Released("devices")
    /\ UNCHANGED <<config, app, initialized, count, num_devices, poolVars, probeVars>>

\* thread_pool_destroy: set the flag and wake everybody, under the lock.
StopWorkers ==
    /\ TearingDown("workers")
    /\ life["workers"] = "live"
    /\ LockFree
    /\ shutdown' = TRUE
    /\ worker' = Awake
    /\ app' = "join_workers"
    /\ AppStays /\ UNCHANGED <<todo, life, work>>

JoinWorkers ==
    /\ app = "join_workers"
    /\ AllExited
    /\ Released("workers")
    /\ app' = "teardown"
    /\ AppStays /\ UNCHANGED poolVars

\* health_probe_destroy: atomic_store(&probe->running, false)
StopProbe ==
    /\ TearingDown("probe")
    /\ life["probe"] = "live"
    /\ running' = FALSE
    /\ app' = "signal"
    /\ UNCHANGED <<config, initialized, todo, life, deviceVars, poolVars, probe, index>>

\* The critical section with pthread_cond_signal, lost if nobody waits.
SignalProbe ==
    /\ app = "signal"
    /\ probe' = IF probe = "wait" THEN "recheck" ELSE probe
    /\ app' = "join_probe"
    /\ UNCHANGED <<config, initialized, todo, life, deviceVars, poolVars, running, index>>

\* pthread_join, and the probe is freed.
JoinProbe ==
    /\ app = "join_probe"
    /\ probe = "exit"
    /\ Released("probe")
    /\ app' = "teardown"
    /\ UNCHANGED <<config, initialized, deviceVars, poolVars, probeVars>>

\* kv_engine_cleanup, or kv_engine_init with an error, returns.
TeardownReturn ==
    /\ app = "teardown"
    /\ todo = <<>>
    /\ app' = "end"
    /\ UNCHANGED <<config, initialized, todo, life, deviceVars, poolVars, probeVars>>

Terminated == app = "end" /\ UNCHANGED vars

-----------------------------------------------------------------------------

\* Steps of a call that the application thread is in.
InitStep ==
    \/ \E p \in Parts : SetUp(p) \/ SetUpFails(p) \/ DoWithout(p)
    \/ ResolvePaths \/ DevicesOpened \/ InitReturn
    \/ OpenDevice \/ OpenFails \/ OpenSucceeds \/ Publish
    \/ CreatePool \/ CreateWorker \/ WorkersCreated
    \/ CreateWorkerFails \/ Broadcast \/ JoinCreated
    \/ CreateProbe

TeardownStep ==
    \/ \E p \in Parts : Release(p)
    \/ CloseDevices
    \/ StopWorkers \/ JoinWorkers
    \/ StopProbe \/ SignalProbe \/ JoinProbe
    \/ TeardownReturn

WorkerStep(w) == WorkerCheck(w) \/ WorkerWait(w) \/ WorkerFinish(w)

ProbeStep ==
    \/ ProbeCheck \/ ProbeWait \/ ProbeTimeout \/ ProbeRecheck
    \/ ProbeNext \/ ProbeVisit

Next ==
    \/ InitStep \/ TeardownStep
    \/ AddDevice \/ Submit \/ Cleanup
    \/ \E w \in Workers : WorkerStep(w) \/ SpuriousWake(w)
    \/ ProbeStep
    \/ Terminated

Spec == Init /\ [][Next]_vars

\* Threads are scheduled, mutexes are granted, operations and device calls
\* return and deadlines pass.  Spurious wakeups are never owed, and what the
\* application calls when is its own choice.
Fairness ==
    /\ WF_vars(InitStep) /\ SF_vars(TeardownStep)
    /\ \A w \in Workers : SF_vars(WorkerStep(w))
    /\ WF_vars(ProbeStep)

FairSpec == Spec /\ Fairness

-----------------------------------------------------------------------------
(* Properties                                                              *)

\* The probe only ever uses devices that are fully open, and an engine and a
\* probe structure that exist: kv_engine_add_device publishes a slot after
\* opening it, and kv_engine_cleanup joins the probe before it closes any.
VisitsOpenDevices ==
    /\ probe = "visit" => slot[index] = "open"
    /\ probe \notin {"none", "exit"} => life["engine"] = "live" /\ life["probe"] = "live"

\* A worker that runs a request finds every part a synchronous operation uses,
\* also while kv_engine_cleanup is on its way: all devices open, table,
\* statistics and engine there, and the buffer pool not yet destroyed.
WorkersFindParts ==
    \A w \in Workers :
        /\ worker[w] \notin {"none", "exited"} => life["workers"] = "live"
        /\ worker[w] = "run" =>
            /\ \A d \in 0 .. num_devices - 1 : slot[d] = "open"
            /\ \A p \in {"engine", "table", "stats_lock"} : life[p] = "live"
            /\ life["buffer_pool"] # "released"

\* Nothing is left behind: when kv_engine_cleanup returns every part has been
\* released, all devices are closed and all threads have ended, and so it is
\* when kv_engine_init returns an error, at whichever part it failed, but for
\* the copies of the configuration strings.
NothingLeft ==
    app = "end" =>
        /\ \A p \in Parts : life[p] = "live" => p = "strings" /\ ~initialized
        /\ \A d \in Slots : slot[d] = "closed"
        /\ AllExited /\ probe \in {"none", "exit"}

\* kv_engine_cleanup and the error paths return: the probe, wherever it is, notices that it is to
\* stop, though the signal is lost if it was not yet waiting, and the workers
\* drain the queue and exit.
CleanupReturns == app = "teardown" ~> app = "end"

\* kv_engine_init returns, unless a worker that had found nothing to do before
\* the shutdown flag was set starts to wait only after the broadcast.
MissedBroadcast == app = "join_created" /\ \E w \in Workers : worker[w] = "checked"
InitReturnsUnlessMissed == app = "init" ~> app \in {"ready", "end"} \/ MissedBroadcast

\* kv_engine_init returns ("Partial failure: shut down already-created
\* threads", says thread_pool_create).
InitReturns == app = "init" ~> app \in {"ready", "end"}
=============================================================================
