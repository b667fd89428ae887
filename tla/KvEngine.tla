------------------------------ MODULE KvEngine ------------------------------
(***************************************************************************)
(* The synchronous operations of src/core/kv_engine.c, called by any       *)
(* number of threads (application threads and pool workers alike), against *)
(* the devices that kv_engine_multi_device.c shards the keys over.         *)
(*                                                                         *)
(* An operation is a sequence of steps: route the key (num_devices never   *)
(* changes while an operation is in progress); one critical section of     *)
(* hash_lock; one call into the device library; one critical section of    *)
(* stats_lock.  Between any two of them other threads may run.  Whether    *)
(* check_device_health lets the operation through is a free choice here:   *)
(* DeviceHealth models the counters behind it.  Buffers appear only as     *)
(* sizes and as allocations that may fail; DmaPool says where they go.     *)
(* Results of the device library are kept as it returns them until         *)
(* map_kvs_result translates them for the caller.                          *)
(***************************************************************************)
EXTENDS Integers, FiniteSets

CONSTANTS
    Threads, Keys, Values, NoValue,
    Hash,             \* the FNV-1a hash of each key
    Size,             \* the size of each value
    RetrieveSize,     \* KV_ENGINE_RETRIEVE_SIZE, the size of the first buffer
    MaxValueLength,   \* KVS_MAX_VALUE_LENGTH of the device library
    LengthUnit,       \* KVS_VALUE_LENGTH_ALIGNMENT_UNIT of the device library
    InitialDevices,   \* devices opened by the first kv_engine_init
    MaxDevices,       \* KV_MAX_DEVICES
    MaxCalls,         \* bound on the number of calls of a behaviour
    DeviceErrors,     \* the device errors with which calls into the library may fail
    AllocFaults,      \* TRUE iff memory allocations may fail
    RetrieveDeletes,  \* the slots whose device supports delete-on-retrieve
    StatsResets,      \* TRUE iff the application calls kv_engine_reset_stats
    MaxRestarts       \* bound on the number of restarts of a behaviour

\* The results for which is_device_error holds.
IsDeviceError == {"KVS_ERR_SYS_IO", "KVS_ERR_DEV_NOT_EXIST", "KVS_ERR_DEV_NOT_OPENED",
                  "KVS_ERR_DEV_CAPAPCITY", "KVS_ERR_KS_CAPACITY"}

ASSUME EngineAssumption ==
    /\ Hash \in [Keys -> Nat]
    /\ Size \in [Values -> Nat]
    /\ NoValue \notin Values
    /\ LengthUnit \in Nat \ {0} /\ MaxValueLength \in Nat
    /\ RetrieveSize \in 0 .. MaxValueLength /\ RetrieveSize % LengthUnit = 0
    /\ InitialDevices \in 1 .. MaxDevices
    /\ MaxDevices \in Nat
    /\ {MaxCalls, MaxRestarts} \subseteq Nat
    /\ RetrieveDeletes \subseteq 0 .. MaxDevices - 1
    /\ DeviceErrors \subseteq IsDeviceError
    /\ {AllocFaults, StatsResets} \subseteq BOOLEAN

VARIABLES
    num_devices,   \* engine->num_devices
    device,        \* content of the key space of each device slot
    key_table,     \* engine->key_table, the hash table of keys
    write_ops,     \* engine->stats.write_ops
    op,            \* the operation each thread is in
    calls,         \* number of calls so far
    restarts,      \* number of restarts so far
    loose,         \* history: keys the table may miss though they are stored
    written        \* history: slot and key of the writes write_ops counts or will count

bounds == <<calls, restarts>>
history == <<loose, written>>
vars == <<num_devices, device, key_table, write_ops, op, bounds, history>>

Slots == 0 .. MaxDevices - 1
Kinds == {"store", "retrieve", "delete", "exists"}

\* The results of the device library other than device errors, and those that
\* the engine returns without asking the device.
KvsResults == IsDeviceError \cup
    {"KVS_SUCCESS", "KVS_ERR_KEY_NOT_EXIST", "KVS_ERR_VALUE_UPDATE_NOT_ALLOWED",
     "KVS_ERR_BUFFER_SMALL", "KVS_ERR_OPTION_INVALID", "KVS_ERR_PARAM_INVALID",
     "KVS_ERR_VALUE_LENGTH_INVALID"}
EngineResults == {"KV_ERR_NO_MEMORY", "KV_ERR_DEVICE_DEGRADED"}

\* flag is overwrite for a store and delete_value for a retrieve; out is the
\* value retrieved, and for exists the value found if the answer is 1; listed
\* says whether the table has the key, and alone that no other call for the key
\* has been in progress since this one began.
OpRecords ==
    [pc : {"table", "device", "unlist", "stats", "done"},
     kind : Kinds, key : Keys, arg : Values \cup {NoValue}, flag : BOOLEAN,
     slot : Slots, capacity : Nat, listed : BOOLEAN, alone : BOOLEAN,
     res : KvsResults \cup EngineResults \cup {"none"}, out : Values \cup {NoValue}]

NoOp == [pc |-> "idle"]
Outside(t) == op[t].pc = "idle"
KeysInUse == {op[t].key : t \in {s \in Threads : ~Outside(s)}}

TypeOK ==
    /\ num_devices \in 1 .. MaxDevices
    /\ device \in [Slots -> [Keys -> Values \cup {NoValue}]]
    /\ key_table \in SUBSET Keys
    /\ write_ops \in 0 .. MaxCalls
    /\ op \in [Threads -> OpRecords \cup {NoOp}]
    /\ calls \in 0 .. MaxCalls
    /\ restarts \in 0 .. MaxRestarts
    /\ loose \in SUBSET Keys
    /\ written \in SUBSET (Slots \X Keys)

Init ==
    /\ num_devices = InitialDevices
    /\ device = [d \in Slots |-> [k \in Keys |-> NoValue]]
    /\ key_table = {}
    /\ write_ops = 0
    /\ op = [t \in Threads |-> NoOp]
    /\ calls = 0
    /\ restarts = 0
    /\ loose = {}
    /\ written = {}

-----------------------------------------------------------------------------
(* Entry                                                                   *)

\* kv_engine_shard_for_key
ShardForKey(k, n) == Hash[k] % n

FirstStep(kind) == IF kind \in {"store", "exists"} THEN "table" ELSE "device"

\* An operation before its first step, routed to a device.
Begun(kind, k, v, flag) ==
    [pc |-> FirstStep(kind), kind |-> kind, key |-> k,
     arg |-> IF kind = "store" THEN v ELSE NoValue,
     flag |-> flag, slot |-> ShardForKey(k, num_devices),
     capacity |-> RetrieveSize, listed |-> FALSE, alone |-> k \notin KeysInUse,
     res |-> "none", out |-> NoValue]

\* The operation of thread s when another one for key k begins.
Joined(s, k) ==
    IF ~Outside(s) /\ op[s].key = k THEN [op[s] EXCEPT !.alone = FALSE] ELSE op[s]

\* A call with valid parameters; the others return KV_ERR_INVALID_PARAM and
\* change nothing.
Call(t) ==
    /\ Outside(t)
    /\ calls < MaxCalls
    /\ calls' = calls + 1
    /\ \E kind \in Kinds, k \in Keys, v \in Values, flag \in BOOLEAN :
        /\ kind \in {"delete", "exists"} => ~flag
        /\ op' = [s \in Threads |->
                    IF s = t THEN Begun(kind, k, v, flag) ELSE Joined(s, k)]
        /\ loose' = loose \cup ({k} \cap KeysInUse)
    /\ UNCHANGED <<num_devices, device, key_table, write_ops, restarts, written>>

\* The device is degraded, or there is no memory for the aligned copy of the
\* value of a store or for the first buffer of a retrieve.
Refuse(t) ==
    /\ ~Outside(t)
    /\ op[t].pc = FirstStep(op[t].kind) /\ op[t].capacity = RetrieveSize
    /\ \E r \in {"KV_ERR_DEVICE_DEGRADED", "KV_ERR_NO_MEMORY"} :
        /\ r = "KV_ERR_DEVICE_DEGRADED" => DeviceErrors # {}
        /\ r = "KV_ERR_NO_MEMORY" =>
                AllocFaults /\ op[t].kind \in {"store", "retrieve"}
        /\ op' = [op EXCEPT ![t].res = r, ![t].pc = "done"]
    /\ UNCHANGED <<num_devices, device, key_table, write_ops, bounds, history>>

-----------------------------------------------------------------------------
(* The critical sections of hash_lock before the device is called.         *)

\* store: add the key to the table; add_key gives up silently without memory.
StoreTable(t) ==
    /\ op[t].pc = "table" /\ op[t].kind = "store"
    /\ \E added \in BOOLEAN :
        /\ added \/ AllocFaults
        /\ key_table' = IF added THEN key_table \cup {op[t].key} ELSE key_table
        /\ op' = [op EXCEPT ![t].pc = "device",
                            ![t].listed = op[t].key \in key_table']
    /\ UNCHANGED <<num_devices, device, write_ops, bounds, history>>

\* exists: look the key up.
ExistsTable(t) ==
    /\ op[t].pc = "table" /\ op[t].kind = "exists"
    /\ op' = [op EXCEPT ![t].listed = op[t].key \in key_table,
                        ![t].pc = "device"]
    /\ UNCHANGED <<num_devices, device, key_table, write_ops, bounds, history>>

-----------------------------------------------------------------------------
(* The calls into the device library.  The device executes each call       *)
(* atomically.                                                             *)

Stored(t) == device[op[t].slot][op[t].key]
Write(t, v) == [device EXCEPT ![op[t].slot][op[t].key] = v]
Wrote(t) == written \cup {<<op[t].slot, op[t].key>>}

\* The operation continues at pc with result r and output v.
Goto(t, pc, r, v) ==
    op' = [op EXCEPT ![t].pc = pc, ![t].res = r, ![t].out = v]

\* What the call does to the history: table and device agree about its key if
\* agree holds and no other call interferes, and may disagree otherwise.
Settle(t, agree) ==
    loose' = CASE ~agree -> loose \cup {op[t].key}
               [] agree /\ op[t].alone -> loose \ {op[t].key}
               [] OTHER -> loose

\* The lengths that the front end of the library lets through to the device.
Accepted(t) ==
    CASE op[t].kind = "store" -> Size[op[t].arg] <= MaxValueLength
      [] op[t].kind = "retrieve" ->
            op[t].capacity <= MaxValueLength /\ op[t].capacity % LengthUnit = 0
      [] OTHER -> TRUE

\* It refuses the others without asking the device.
FrontEnd(t) ==
    /\ op[t].pc = "device" /\ ~Accepted(t)
    /\ Goto(t, "stats",
            IF op[t].kind = "retrieve" /\ op[t].capacity <= MaxValueLength
            THEN "KVS_ERR_PARAM_INVALID" ELSE "KVS_ERR_VALUE_LENGTH_INVALID", NoValue)
    /\ UNCHANGED <<num_devices, device, key_table, write_ops, bounds, history>>

\* kvs_store_kvp: KVS_STORE_POST overwrites, KVS_STORE_NOOVERWRITE does not.
StoreDevice(t) ==
    /\ op[t].pc = "device" /\ op[t].kind = "store" /\ Accepted(t)
    /\ IF op[t].flag \/ Stored(t) = NoValue
       THEN /\ device' = Write(t, op[t].arg) /\ written' = Wrote(t)
            /\ Goto(t, "stats", "KVS_SUCCESS", NoValue)
            /\ Settle(t, op[t].listed)
       ELSE /\ UNCHANGED <<device, history>>
            /\ Goto(t, "stats", "KVS_ERR_VALUE_UPDATE_NOT_ALLOWED", NoValue)
    /\ UNCHANGED <<num_devices, key_table, write_ops, bounds>>

\* A device without delete-on-retrieve, such as the emulator of lib/KVSSD,
\* answers KVS_ERR_OPTION_INVALID.
DeleteUnsupported(t) == op[t].flag /\ op[t].slot \notin RetrieveDeletes

RetrieveOption(t) ==
    /\ op[t].pc = "device" /\ op[t].kind = "retrieve" /\ Accepted(t)
    /\ DeleteUnsupported(t)
    /\ Goto(t, "stats", "KVS_ERR_OPTION_INVALID", NoValue)
    /\ UNCHANGED <<num_devices, device, key_table, write_ops, bounds, history>>

\* kvs_retrieve_kvp with a buffer that is large enough.
RetrieveDevice(t) ==
    /\ op[t].pc = "device" /\ op[t].kind = "retrieve" /\ Accepted(t)
    /\ ~DeleteUnsupported(t)
    /\ IF Stored(t) = NoValue
       THEN /\ UNCHANGED <<device, loose>>
            /\ Goto(t, "stats", "KVS_ERR_KEY_NOT_EXIST", NoValue)
       ELSE /\ Size[Stored(t)] <= op[t].capacity
            /\ IF op[t].flag THEN device' = Write(t, NoValue) /\ Settle(t, TRUE)
                             ELSE UNCHANGED <<device, loose>>
            /\ Goto(t, IF op[t].flag THEN "unlist" ELSE "stats",
                    "KVS_SUCCESS", Stored(t))
    /\ UNCHANGED <<num_devices, key_table, write_ops, bounds, written>>

\* Mutant: the second attempt is made with the old length.
RetrieveSmall_OldLength(t) ==
    /\ op[t].pc = "device" /\ op[t].kind = "retrieve" /\ Accepted(t)
    /\ ~DeleteUnsupported(t)
    /\ Stored(t) # NoValue
    /\ Size[Stored(t)] > op[t].capacity
    /\ Goto(t, "stats", "KVS_ERR_BUFFER_SMALL", NoValue)
    /\ UNCHANGED <<num_devices, device, key_table, write_ops, bounds, history>>

\* KVS_ERR_BUFFER_SMALL.  The first time, a buffer of actual_value_size is
\* allocated and the retrieve repeated, or KV_ERR_NO_MEMORY is returned at
\* once; the second time, the value having grown meanwhile, it is an error.
\* (With the vendored library no value is longer than the first buffer.)
RetrieveSmall(t) ==
    /\ op[t].pc = "device" /\ op[t].kind = "retrieve" /\ Accepted(t)
    /\ ~DeleteUnsupported(t)
    /\ Stored(t) # NoValue
    /\ Size[Stored(t)] > op[t].capacity
    /\ \/ /\ op[t].capacity = RetrieveSize
          /\ op' = [op EXCEPT ![t].capacity = Size[Stored(t)]]
       \/ /\ op[t].capacity = RetrieveSize /\ AllocFaults
          /\ Goto(t, "done", "KV_ERR_NO_MEMORY", NoValue)
       \/ /\ op[t].capacity # RetrieveSize
          /\ Goto(t, "stats", "KVS_ERR_BUFFER_SMALL", NoValue)
    /\ UNCHANGED <<num_devices, device, key_table, write_ops, bounds, history>>

\* kvs_delete_kvp without KVS_ERR_KEY_NOT_EXIST (kvs_delete_error = false).
DeleteDevice(t) ==
    /\ op[t].pc = "device" /\ op[t].kind = "delete"
    /\ device' = Write(t, NoValue)
    /\ Goto(t, "unlist", "KVS_SUCCESS", NoValue)
    /\ Settle(t, TRUE)
    /\ UNCHANGED <<num_devices, key_table, write_ops, bounds, written>>

\* Mutant: the answer comes from the table alone.
ExistsDevice_TableOnly(t) ==
    /\ op[t].pc = "device" /\ op[t].kind = "exists"
    /\ \E v \in Values :
            Goto(t, "done", "KVS_SUCCESS", IF op[t].listed THEN v ELSE NoValue)
    /\ UNCHANGED <<num_devices, device, key_table, write_ops, bounds, history>>

\* kvs_exist_kv_pairs; the answer is 1 iff the device has the key and the key
\* was in the table.
ExistsDevice(t) ==
    /\ op[t].pc = "device" /\ op[t].kind = "exists"
    /\ Goto(t, "done", "KVS_SUCCESS", IF op[t].listed THEN Stored(t) ELSE NoValue)
    /\ UNCHANGED <<num_devices, device, key_table, write_ops, bounds, history>>

\* The device fails the call; a store, a delete or a retrieve that deletes may
\* have taken effect nevertheless.
DeviceFault(t) ==
    /\ op[t].pc = "device" /\ Accepted(t)
    /\ \/ UNCHANGED <<device, written>>
       \/ /\ op[t].kind = "store" /\ (op[t].flag \/ Stored(t) = NoValue)
          /\ device' = Write(t, op[t].arg) /\ written' = Wrote(t)
       \/ /\ \/ op[t].kind = "delete"
             \/ op[t].kind = "retrieve" /\ op[t].flag /\ ~DeleteUnsupported(t)
          /\ device' = Write(t, NoValue) /\ UNCHANGED written
    /\ \E r \in DeviceErrors :
            Goto(t, CASE op[t].kind = "delete" -> "unlist"
                      [] op[t].kind = "exists" -> "done"
                      [] OTHER -> "stats", r, NoValue)
    /\ loose' = IF op[t].kind = "delete" \/ (op[t].kind = "store" /\ ~op[t].listed)
                THEN loose \cup {op[t].key} ELSE loose
    /\ UNCHANGED <<num_devices, key_table, write_ops, bounds>>

-----------------------------------------------------------------------------
(* After the device: the table, the statistics and the return.             *)

\* delete, and a retrieve that deleted the value: delete_key.
Unlist(t) ==
    /\ op[t].pc = "unlist"
    /\ key_table' = key_table \ {op[t].key}
    /\ op' = [op EXCEPT ![t].pc = "stats"]
    /\ UNCHANGED <<num_devices, device, write_ops, bounds, history>>

\* Mutant: a store that failed is not counted as a write.
Counted_SuccessOnly(t) == op[t].kind = "store" /\ op[t].res = "KVS_SUCCESS"

\* A store counts as a write whatever its result.
Counted(t) == op[t].kind = "store"

\* map_kvs_result, for the results that the four calls can get.
map_kvs_result(r) ==
    CASE r = "KVS_SUCCESS" -> "KV_SUCCESS"
      [] r \in {"KVS_ERR_PARAM_INVALID", "KVS_ERR_OPTION_INVALID"} -> "KV_ERR_INVALID_PARAM"
      [] r = "KVS_ERR_VALUE_LENGTH_INVALID" -> "KV_ERR_VALUE_LENGTH"
      [] r = "KVS_ERR_KEY_NOT_EXIST" -> "KV_ERR_KEY_NOT_FOUND"
      [] r = "KVS_ERR_VALUE_UPDATE_NOT_ALLOWED" -> "KV_ERR_KEY_ALREADY_EXISTS"
      [] r \in {"KVS_ERR_DEV_CAPAPCITY", "KVS_ERR_KS_CAPACITY"} -> "KV_ERR_DEVICE_FULL"
      [] r \in {"KVS_ERR_DEV_NOT_EXIST", "KVS_ERR_DEV_NOT_OPENED"} -> "KV_ERR_DEVICE_NOT_FOUND"
      [] OTHER -> "KV_ERR_IO"

\* What a call returns, or will return once it has come that far.
Returned(r) == IF r \in EngineResults THEN r ELSE map_kvs_result(r)

\* update_stats, after which the result is returned.
UpdateStats(t) ==
    /\ op[t].pc = "stats"
    /\ write_ops' = IF Counted(t) THEN write_ops + 1 ELSE write_ops
    /\ op' = [op EXCEPT ![t] = NoOp]
    /\ UNCHANGED <<num_devices, device, key_table, bounds, history>>

\* The return of a call that updates no statistics.
Return(t) ==
    /\ op[t].pc = "done"
    /\ op' = [op EXCEPT ![t] = NoOp]
    /\ UNCHANGED <<num_devices, device, key_table, write_ops, bounds, history>>

-----------------------------------------------------------------------------
(* The engine as a whole.                                                  *)

\* What an engine with n devices finds for each key.
View(n) == [k \in Keys |-> device[ShardForKey(k, n)][k]]
Found == View(num_devices)

\* Mutant: the limit is off by one.
AddDevice_OffByOne ==
    /\ \A t \in Threads : Outside(t)
    /\ num_devices <= MaxDevices
    /\ write_ops = 0
    /\ num_devices' = num_devices + 1
    /\ loose' = Keys
    /\ UNCHANGED <<device, key_table, write_ops, op, bounds, written>>

\* kv_engine_add_device: refused when all slots are in use or after a write.
\* kv_engine.h allows it only while no operation is in progress.  The table may
\* miss what the new number of devices brings to light.
AddDevice ==
    /\ \A t \in Threads : Outside(t)
    /\ num_devices < MaxDevices
    /\ write_ops = 0
    /\ num_devices' = num_devices + 1
    /\ loose' = loose \cup {k \in Keys : View(num_devices')[k] # Found[k]}
    /\ UNCHANGED <<device, key_table, write_ops, op, bounds, written>>

\* A store that has been to its device and is still to be counted.
Uncounted(t) == op[t].pc = "stats" /\ op[t].kind = "store"

\* kv_engine_reset_stats, at any time: only stores that are still to be counted
\* leave a trace in write_ops.
ResetStats ==
    /\ StatsResets
    /\ write_ops' = 0
    /\ written' = written \cap {<<op[t].slot, op[t].key>> : t \in {s \in Threads : Uncounted(s)}}
    /\ UNCHANGED <<num_devices, device, key_table, op, bounds, loose>>

\* The process ends, at any moment, and kv_engine_init opens the devices of its
\* configuration, as many as it lists, with what they hold: table and statistics
\* are empty.
Restart ==
    /\ restarts < MaxRestarts
    /\ restarts' = restarts + 1
    /\ num_devices' \in 1 .. MaxDevices
    /\ key_table' = {}
    /\ write_ops' = 0 /\ written' = {}
    /\ op' = [t \in Threads |-> NoOp]
    /\ loose' = Keys
    /\ UNCHANGED <<device, calls>>

\* The application makes no further call.
Quiet ==
    /\ calls = MaxCalls
    /\ \A t \in Threads : Outside(t)
    /\ UNCHANGED vars

ThreadStep(t) ==
    \/ Refuse(t) \/ StoreTable(t) \/ ExistsTable(t)
    \/ FrontEnd(t) \/ StoreDevice(t)
    \/ RetrieveOption(t) \/ RetrieveDevice(t) \/ RetrieveSmall(t)
    \/ DeleteDevice(t) \/ ExistsDevice(t) \/ DeviceFault(t)
    \/ Unlist(t) \/ UpdateStats(t) \/ Return(t)

Next ==
    \/ \E t \in Threads : Call(t) \/ ThreadStep(t)
    \/ AddDevice \/ ResetStats \/ Restart
    \/ Quiet

Spec == Init /\ [][Next]_vars

-----------------------------------------------------------------------------
(* Properties                                                              *)

\* Hash-mod-N routing finds what it stored: the writes that write_ops has counted
\* since it was last 0, or is about to count, went to the device that the hash
\* selects among those now in use.  Adding a device makes none of them appear
\* missing, though they are counted only after the device has been written.
RoutedHome == \A p \in written : p[1] = ShardForKey(p[2], num_devices)

\* kv_engine_add_device, where it succeeds, changes nothing of what the engine
\* finds: it is "ONLY valid before any keys have been written (write_ops == 0)".
AddKeepsData == [][AddDevice => Found' = Found]_vars

\* The refinement mapping to AtomicKV: a map for each number of devices, and a
\* call takes effect with its last call into the device library.
AbstractMap == [n \in 1 .. MaxDevices |-> View(n)]

Answer(r) ==
    CASE r = "KV_SUCCESS" -> "done"
      [] r = "KV_ERR_KEY_NOT_FOUND" -> "absent"
      [] r = "KV_ERR_KEY_ALREADY_EXISTS" -> "present"
      [] OTHER -> "error"

AbstractOp(r) ==
    IF r.pc = "idle" THEN [phase |-> "idle"]
    ELSE [phase |-> IF r.pc \in {"table", "device"} THEN "pending" ELSE "applied",
          kind |-> r.kind, key |-> r.key, arg |-> r.arg, flag |-> r.flag,
          alone |-> r.alone, out |-> r.out, answer |-> Answer(Returned(r.res))]

AbstractCall == [t \in Threads |-> AbstractOp(op[t])]

AKV == INSTANCE AtomicKV WITH
        Counts <- 1 .. MaxDevices,
        map <- AbstractMap, devices <- num_devices, call <- AbstractCall

\* Concurrent calls are linearizable: stores, retrieves and deletes behave as
\* if each took effect at one instant, whatever the interleaving of table,
\* device and statistics steps, and with device faults, failing allocations,
\* devices being added and restarts with any number of devices.  A call reports
\* a key as absent or present only if it is.  Existence checks never report an
\* absent key, and miss a stored one only if calls for the key overlapped, a
\* delete failed, memory ran out, the engine was restarted or another number of
\* devices brought the key to light since the last update of the key that had it
\* to itself.
Linearizable == AKV!Spec

\* The buffer of actual_value_size is large enough for the second attempt of a
\* retrieve: it is too small only if another call changed the value, its length
\* is never above the limit of the library, and with a first buffer of the
\* largest length, as in the vendored library, no retrieve fails for its length.
SecondAttemptSuffices ==
    \A t \in Threads :
        ~Outside(t) /\ op[t].kind = "retrieve" =>
            /\ op[t].res = "KVS_ERR_BUFFER_SMALL" => ~op[t].alone
            /\ op[t].res # "KVS_ERR_VALUE_LENGTH_INVALID"
            /\ op[t].res \in {"KVS_ERR_BUFFER_SMALL", "KVS_ERR_PARAM_INVALID"} =>
                    RetrieveSize < MaxValueLength

\* The existence flag of kv_engine_exists ("1=exists, 0=not exists") is right
\* for a call made while nothing else is going on: every key that a retrieve
\* would find is in the table.
ExistsAccurate ==
    (\A t \in Threads : Outside(t)) =>
        \A k \in Keys : Found[k] # NoValue => k \in key_table
=============================================================================
