# Verification of nvme-kv-engine

TLA+ models of the engine in `src/` and of the part of the emulated KVSSD device
it runs on, checked with TLC on small instances, with TLAPS proofs, for every
instance, of the safety properties that TLC checks.

## The system

An application thread calls store, retrieve, delete and exists directly
(`kv_engine.c`), or through asynchronous variants (`async_ops.c`) that queue the
call on a pool of worker threads (`thread_pool.c`). A call hashes its key to one
of the open devices (`kv_engine_multi_device.c`), is refused if that device is
marked unhealthy, updates a table of keys (`hashTable.h`), calls the KVSSD
library, and records the outcome in the health counters of the device and in the
statistics. A background thread (`kv_engine_health.c`) probes unhealthy devices
and marks them healthy again. Buffers come from a pool of aligned buffers
(`dma_pool.c`); a bump allocator (`memory_pool.c`) is created and destroyed with
the engine but not used by its operations. The KVSSD library, as built here,
passes a call to an emulated device: the call takes an I/O context, queues a
command, and waits until one thread has executed it on a map and another has
delivered its completion.

## Modules

| Module | Code | State and actions |
|---|---|---|
| `WorkQueue` | - | abstract: FIFO queue whose items run exactly once |
| `ThreadPool` | `thread_pool.c` | queue, wait sets of both condition variables, position of every thread; one action per critical section |
| `AsyncOps` | `async_ops.c` | composes with `ThreadPool` (each of its steps is a step of the pool or none): contexts, requests and callbacks |
| `AtomicKV` | - | abstract: each call takes effect at one instant, on the map that the number of devices in use finds, and says truly whether the key was there; devices added, crashes; keys that existence checks may miss |
| `KvEngine` | `kv_engine.c`, sharding, `hashTable.h`, add_device, reset_stats, the length checks of `cfrontend.cpp` | table, device contents, `write_ops`, and the operation each thread is in; steps: route, table, device, table, statistics, return; device faults, refused lengths, failing allocations, restarts |
| `Fnv1a` | `kv_engine_shard_for_key` | the 32-bit hash of a sequence of bytes |
| `DeviceHealth` | `device_record_result`, probe sweep, snapshot | each atomic load or store of one device's counters is a step |
| `EngineLifecycle` | `kv_engine_init`, `kv_engine_cleanup`, `thread_pool_create`, probe thread, add_device | which parts of the engine exist; each part may fail, each error path releases what it releases; workers, probe and application beside each other |
| `DmaPool` | `dma_pool.c`, `dma_alloc.c`, buffers in store and retrieve, alloc/free_buffer | the buffer stack, who holds what, and how much of the heap is in use |
| `MemoryPool` | `memory_pool.c` | bump allocation with arithmetic modulo the range of `size_t` |
| `AtomicDevice` | - | abstract: a map on which each call acts at one instant, with its answer |
| `KvsEmulator` | `kvemuldriver.cpp`, `queue.cpp`, `kv_device.cpp`, `kv_emulator.cpp`, `io_cmd.cpp` | callers, the pool of I/O contexts, submission and completion queue with their threads, map and space account, closing |
| `MCKvEngine`, `MCKvsEmulator` | - | symmetry and constant values for TLC |
| `*Proofs` | - | theorems about the module of that name; `ThreadPoolProofs` also those about `AsyncOps`, and `WakeupProofs` those about the wakeups of the pool |

A mutex-protected section is one step where every access to its data holds the
mutex. `pthread_cond_wait` is modelled by a wait set; spurious wakeups are
actions. In `KvEngine` a call into the device library is one atomic step that may
fail, with or without its effect; `KvsEmulator` shows that a call on the emulated
device is indeed one. Whether a device is healthy is a free choice in `KvEngine`
and the subject of `DeviceHealth`; where buffers come from is the subject of
`DmaPool`. Operators named `X_Y` preceded by "Mutant" are plausible bugs in `X`,
kept to show that the properties notice them; no specification uses them.

`KvEngine` keeps the results of the device library as it returns them until
`map_kvs_result` translates them, so a buffer that is too small and a device error
stay apart although both become `KV_ERR_IO`. add_device has the guard of the code,
`write_ops = 0`, and no other: it may follow a reset of the statistics or a
restart, and a restart opens as many devices as its configuration lists.

`KvEngine` and `AtomicKV` carry history fields. `written` holds slot and key of
the writes that `write_ops` counts or is about to count. `alone` says that no other
call for the key has been in progress since this one began; `loose` holds the
keys that existence checks may miss though they are stored, because calls for the
key overlapped, a delete failed on the device (which drops its key from the table
nevertheless), memory for the table ran out, the engine was restarted over
devices that hold keys, or an added device brought other content to light. An update that has its key to itself ends that.
`MCKvEngine` gives the hash of two keys as literal numbers and has TLC confirm
that they are what `Fnv1a` computes from their bytes.

## Runs

Passing runs, with the number of distinct states:

| Run | States | Shows |
|---|---|---|
| `async` | 113 184 | bounded queue, drain before exit, no lost wakeup on either condition variable, the pool outlives its calls, one owner per context, the callback contract, `ThreadPool` implements `WorkQueue`, destroy returns, accepted requests complete |
| `kv_concurrent` | 408 820 | linearizable operations, counted writes that stay on their shard and a second retrieve attempt that suffices, with faults, failing allocations, refused lengths, resets of the statistics, a restart at any moment and an added device |
| `health` | 473 094 | no threshold crossing dropped, bounded overshoot, no streak carried over, plausible snapshots, recovery |
| `lifecycle` | 28 651 | from init, failing anywhere or succeeding, to cleanup: probe and workers find the parts they use, nothing is left behind, init and cleanup return |
| `dma_pool` | 26 438 | every buffer is in exactly one place, and every allocated one is freed once, on all paths of retrieve and store |
| `memory_pool` | 1 388 | blocks are aligned, inside the pool and disjoint, unless a request larger than the pool was granted, which takes a sum that wraps `size_t` |
| `emulator` | 269 056 | contexts have one owner, a call is one atomic step on the map, space is never understated, calls and the closing of the device return |

Runs that show a disagreement between the code and what its text says (quoted
under `findings` in `PROJECT.json`):

| Run | What happens |
|---|---|
| `pool_callbacks` | all workers block in callbacks that submit to a full queue, and queued items never run |
| `kv_reset_then_add` | resetting the statistics disarms the guard of add_device, and the engine no longer finds a stored key |
| `kv_restart_then_add` | the guard counts the writes of one process: after a restart over a device that holds keys a device can be added, and the engine no longer finds them |
| `kv_exists_race` | a store between the two halves of a delete leaves a stored key that exists denies until it is stored again |
| `create_partial` | `thread_pool_create` fails half-way and broadcasts without the lock; a worker about to wait misses it, and init never returns |

`AcceptedCompletes` makes an exception of the situation that `pool_callbacks`
reaches, `InitReturnsUnlessMissed` of the one `create_partial` reaches.
`PoolOutlivesCalls` holds for clients that quiesce (`ClientsQuiesce = TRUE`):
thread_pool_destroy joins only the workers, and a client it wakes from the full
queue may otherwise find the pool freed. `Linearizable` holds
with devices added whenever the code lets them be: adding one then exchanges the
map for that of the new number of devices, and what that may lose is the subject
of `AddKeepsData`, which the two violations above are about. `RoutedHome` is what
the guard of add_device does achieve: writes counted since `write_ops` was last 0
stay where the hash looks for them, though a store is counted only after its
device has been written and also when it failed. A call that answers that the key
is absent or present is right about it; existence checks never report an absent
key, and miss a stored one only while it is `loose`.

Seen while modelling, and not covered by a run (the hazards in `PROJECT.json`
give the lines):

- a retrieve without callback drops its value;
- the stop signal of the probe is lost if it comes before the wait, and cleanup
  then takes up to one probe interval (`CleanupReturns` depends on the deadline);
- a `dma_pool_create` that fails half-way frees array elements it has not
  initialized (`CreateFails` ends the model's behaviour there);
- the error paths of init before the table leave the copies of the configuration
  strings (`NothingLeft` excepts them);
- for sizes close to the largest `size_t`, `ALIGN_UP` or the sum after it wraps
  and `memory_pool_alloc` grants the request, where `memory_pool.h:30` says NULL;
  later blocks may then overlap. `BlocksDisjoint` has this as its only exception;
  the engine allocates nothing from the memory pool;
- in `kv_store` of the emulated device the check for room never refuses, since it
  asks for a capacity of 0 (`kv_emulator.cpp:86`);
- the emulated device charges an overwrite with the length of the new value plus
  that of the old one, so utilization is overstated and may exceed the 0-10000 of
  `kv_engine.h:125`; `SpaceNotUnderstated` is the half that holds;
- the largest value of the vendored library is as long as the first buffer of a
  retrieve (2 MiB, `kv_engine_internal.h:16` and `kvs_const.h:45`), so the second
  attempt is for libraries with longer values only. There the front end would
  refuse it for lengths that are no multiple of four (`cfrontend.cpp:1540`), and
  such a value could not be retrieved: `SecondAttemptSuffices` says that this, and
  a value that another call changed meanwhile, are the only ways a retrieve fails
  for its length.

### Bounds

Two workers suffice for one to take the item another was woken for. With a queue
of two and callbacks that submit, six items are the fewest with which both
workers block on the full queue, which is what the second broadcast of destroy is
for; the client makes a third submitter. Items are numbered in the order of the
calls, since nothing depends on their names, and once a call has failed none
fails for its arguments or for want of memory (`MaxFailures = 1`); one request has
no callback (`NullCallbacks`). Two threads race on one key: a promise about one
map is one about each key, and the proof covers any set of them; the runs about
add_device have two keys, which part ways when a second device is added. Of four
values one fits the first buffer of a retrieve, one needs a second attempt, one
has a length the front end refuses there, and one is too long to be stored
(lengths stay below 2^32, to which the engine truncates them). `MaxCalls = 3` covers a store, a conflicting call and
an observer, `MaxRestarts = 1` a crash between any two steps of them. In
`DeviceHealth` a threshold of 2 and six operations reach the exact bound of
`OvershootBounded`; an application that also takes snapshots makes three
operations (`MaxMonitoredOps`), one for each counter to move between loads. In
`EngineLifecycle` two workers let the creation fail with one of them running, and
three slots let a device be added to two. Four clients share a pool of three
buffers, so one finds it empty. Three callers share two contexts and queues of
length one, so callers wait for a context, for room and for completions.
`SizeMod = 96` keeps the arithmetic of `size_t` with a pool of 36 bytes, which is
no multiple of the alignment, and sizes up to 95. Symmetry is used for safety only.

### Fairness

Threads that can make a step of their own make it (weak fairness): critical
sections are bounded, device calls and callbacks return, and deadlines pass. In
the emulator a waiter is notified or looks again after 10 microseconds, and both
queue threads look at their queue again after a timeout. `EngineLifecycle`
assumes strong fairness where a step needs a mutex that workers take in turn: it
is granted in the end. Nothing is assumed of calls by the application, of
spurious wakeups or of changes in a device.

## Proofs

The theorems hold for all values of the constants that satisfy the assumptions of
the modules: any finite number of threads, clients, callers and contexts, any
sets of keys, values and items, any number of devices and buffers, any queue
depth, threshold, hash and bound on the number of calls. All have the form of an
inductive invariant, from which the properties follow.

- `ThreadPoolProofs`, the pool: type correctness, `QueueBounded`,
  `ExitMeansDrained`, `PoolOutlivesCalls` (assuming `ClientsQuiesce`) and
  `ImplementsWorkQueue`. `CoreInv` ties the position of a thread to the item it
  holds and the shutdown flag to the progress of destroy; without it an exited
  worker could be submitting, and a drained queue could grow again. `ItemInv`
  says that an item is in one place, which gives the freshness `WorkQueue`
  demands of accepted items.
- `ThreadPoolProofs`, the asynchronous calls: `AsyncTypeOK`, `ContextOwned`,
  `CallbackContract`. Every step is a step of the pool or leaves it alone
  (`AsyncSteps`), so a behaviour of the composition is one of the pool
  (`AsyncUsesPool`) and what is proved of the pool holds of it. `RequestInv`
  adds what is known of one request in each place: with its submitter, in the
  queue, with a worker before, during and after the callback, and finished. A
  step moves one request (`OneRequest`) and keeps what is known of the others
  (`RequestKept`).
- `WakeupProofs`: `NoLostWork` and `NoLostSlot`. They count awake threads: a
  signal moves one thread from asleep to awake, and a thread that takes an item
  or a slot was awake, so both sides of the inequality move together.
- `KvEngineProofs`: `TypeOK`, `RoutedHome`, `SecondAttemptSuffices` and
  `Linearizable`, a refinement of `AtomicKV`. `RouteInv` says that an operation
  under way is routed where its key belongs now, and that `write_ops = 0` with no
  store between writing and counting means that `written` is empty, which is what
  add_device relies on. `LooseInv` says when the table has a stored key: unless
  the key is loose, or a call on its way is about to list it. It also says that the
  buffer of a retrieve's second attempt has room for the stored value as long as the
  call has the key to itself. `LengthInv` says that neither a stored value
  nor a buffer is longer than the library allows, and that only a second attempt
  is refused. The linearization point
  is the last call into the device library. A write acts on the maps of all
  numbers of devices that route its key alike.
  The bound of `TypeOK` on `write_ops` needs `CountInv`: counted writes and calls
  in progress together are at most the calls made, so a call is counted once.
- `DeviceHealthProofs`: `TypeOK`, `CrossingNotDropped`, `OvershootBounded`,
  `StreakStartsAtZero`, `SnapshotPlausible`. `Accounting` says that the threads
  between two updates account for the difference of two counters. For the
  overshoot, `OvershootInv` adds the threads that may still add an error before
  they see the mark; the probe's window between marking and resetting admits
  every thread once more. `SnapshotInv` compares loaded fields with counters that
  have grown since.
- `EngineLifecycleProofs`: `TypeOK`, `VisitsOpenDevices`, `WorkersFindParts`,
  `NothingLeft`. What is still to be done is a suffix of the order of init, of an
  error path or of cleanup (`TodoInv`); the parts that live follow from it
  (`LifeInv`), and so do the open devices (`SlotInv`) and the threads
  (`ThreadInv`). The order of cleanup then gives the two properties of the
  threads, and the contents of each error path the third.
- `DmaPoolProofs`: `TypeOK`, `BuffersConserved`, `HeapBalanced`. `Places` says
  without counting that a buffer is in the stack or with one client, `Holding`
  what a client holds at each point of retrieve and store. That a release finds
  room on the stack (`Room`) follows by counting: distinct buffers of which one is
  missing do not fill it (`NotFull`).
- `MemoryPoolProofs`: `TypeOK`, `BlocksDisjoint`, from: `used` is a multiple of the
  alignment and, unless a request larger than the pool was granted, no block
  reaches past it. Sizes are any `size_t`; the assumption is that the pool takes
  less than half of the address space.
- `KvsEmulatorProofs`: `TypeOK`, `ContextsOwned`, `SpaceNotUnderstated` and
  `ImplementsAtomicDevice`, a refinement of `AtomicDevice`. `FlightInv` says that
  a command is in one place only, that its caller waits with the context it
  names, not yet done, and that from its execution on it carries the caller's
  answer; `OwnInv` that contexts
  are with the pool or one caller. The call acts when the submission thread
  executes its command. Stored space is the cardinality of a set of numbered bytes
  rather than a sum, so that one key's part of it can be split off
  (`BytesSplit`): a command changes one key and is charged at least what it adds.

So every invariant and every refinement that a passing run checks is also proved.
Only model-checked are the liveness properties (`DestroyReturns`,
`AcceptedCompletes`, `Recovers`, `CleanupReturns`, `InitReturnsUnlessMissed`,
`CallsReturn`, `CloseReturns`), since fairness and ENABLED are out of the
prover's reach, and the values of the hash, whose definition is recursive: the
theorems hold for every hash.

## Not modelled

- Code under `src/lib` beyond the emulator's path of the four calls. The vendored
  trees (SPDK, DPDK, KVSSD with its drivers, tools and tests) are almost all of
  the repository's lines; the engine's build with the emulator runs little of it,
  and a share of the whole says nothing about the engine. Within the library:
  iterators, key groups, asynchronous calls, key space management, the kernel and
  SPDK drivers, the timing model of the emulator and its persistence (the engine
  opens it without; restarts over devices that hold keys are about real devices).
- Checks of parameters that return before anything changes, and an engine without
  worker threads, whose asynchronous calls all return `KV_ERR_NOT_INITIALIZED`.
- A submission while the emulated device shuts down: an application closes it
  after its calls have returned.
- The bytes of values, and statistics other than `write_ops`, which influence
  nothing.
- `kv_engine_add_device` racing with operations, which `kv_engine.h` forbids.
- `AsyncOps` on top of `KvEngine`: a worker calls the synchronous operation like
  any other thread, so the composition is `KvEngine` with the workers among its
  threads.
- Examples and benchmarks.
