--------------------------- MODULE KvEngineProofs ---------------------------
(***************************************************************************)
(* Proofs about KvEngine for any number of threads, keys, values and       *)
(* devices and any hash: routing is never invalidated, and the operations  *)
(* implement AtomicKV.                                                     *)
(***************************************************************************)
EXTENDS KvEngine, TLAPS

-----------------------------------------------------------------------------
(* Types.  The bounds of the model on the number of calls play no role.    *)

TypeInv ==
    /\ num_devices \in 1 .. MaxDevices
    /\ device \in [Slots -> [Keys -> Values \cup {NoValue}]]
    /\ key_table \in SUBSET Keys
    /\ write_ops \in Nat
    /\ op \in [Threads -> OpRecords \cup {NoOp}]
    /\ restarts \in Nat
    /\ loose \in SUBSET Keys
    /\ written \in SUBSET (Slots \X Keys)

\* Routing selects a slot in use.
LEMMA ShardInRange ==
    ASSUME NEW k \in Keys, NEW n \in 1 .. MaxDevices
    PROVE  ShardForKey(k, n) \in 0 .. n - 1 /\ ShardForKey(k, n) \in Slots
<1>1. Hash[k] \in Nat /\ n \in Nat \ {0} /\ n <= MaxDevices /\ MaxDevices \in Nat
  BY EngineAssumption
<1>2. Hash[k] % n \in 0 .. n - 1
  BY <1>1
<1> QED
  BY <1>1, <1>2 DEF ShardForKey, Slots

\* The lengths are numbers, and the first buffer has a legal length.
LEMMA LengthFacts ==
    /\ RetrieveSize \in Nat /\ MaxValueLength \in Nat /\ RetrieveSize <= MaxValueLength
    /\ \A v \in Values : Size[v] \in Nat
BY EngineAssumption

\* A thread is inside a call or outside, and its record says which.
LEMMA Inside ==
    ASSUME op \in [Threads -> OpRecords \cup {NoOp}], NEW t \in Threads
    PROVE  /\ Outside(t) <=> op[t] = NoOp
           /\ ~Outside(t) <=> op[t] \in OpRecords
<1>1. \A r \in OpRecords : r.pc # "idle"
  BY Zenon DEF OpRecords
<1> QED
  BY <1>1 DEF Outside, NoOp

\* What a step of a call in progress may change: nothing of other calls, and of
\* its own not what was asked for.
SameCall(t) ==
    /\ op' \in [Threads -> OpRecords \cup {NoOp}]
    /\ op'[t] \in OpRecords
    /\ \A s \in Threads \ {t} : op'[s] = op[s]
    /\ op'[t].kind = op[t].kind /\ op'[t].key = op[t].key
    /\ op'[t].arg = op[t].arg /\ op'[t].flag = op[t].flag
    /\ op'[t].slot = op[t].slot /\ op'[t].alone = op[t].alone

\* The results, and how the callers of AtomicKV would read them.
LEMMA ResultFacts ==
    /\ {"KVS_SUCCESS", "KVS_ERR_KEY_NOT_EXIST", "KVS_ERR_VALUE_UPDATE_NOT_ALLOWED",
        "KVS_ERR_BUFFER_SMALL", "KVS_ERR_OPTION_INVALID", "KVS_ERR_PARAM_INVALID",
        "KVS_ERR_VALUE_LENGTH_INVALID", "KV_ERR_NO_MEMORY", "KV_ERR_DEVICE_DEGRADED"}
           \subseteq KvsResults \cup EngineResults
    /\ IsDeviceError \subseteq KvsResults \cup EngineResults
    /\ \A r \in IsDeviceError :
         r \notin {"KVS_ERR_BUFFER_SMALL", "KVS_ERR_PARAM_INVALID", "KVS_ERR_VALUE_LENGTH_INVALID"}
BY Zenon DEF KvsResults, EngineResults, IsDeviceError

\* The effect of Goto, field by field.
LEMMA GotoEffect ==
    ASSUME TypeInv, NEW t \in Threads, op[t] \in OpRecords,
           NEW pc \in {"unlist", "stats", "done"}, NEW r \in KvsResults \cup EngineResults,
           NEW v \in Values \cup {NoValue}, Goto(t, pc, r, v)
    PROVE  /\ SameCall(t)
           /\ op'[t].pc = pc /\ op'[t].res = r /\ op'[t].out = v
           /\ op'[t].listed = op[t].listed /\ op'[t].capacity = op[t].capacity
<1>1. op'[t] = [op[t] EXCEPT !.pc = pc, !.res = r, !.out = v]
  BY Zenon DEF Goto, TypeInv
<1>2. op'[t] \in OpRecords
  BY <1>1, ZenonT(60) DEF OpRecords
<1>3. \A s \in Threads \ {t} : op'[s] = op[s]
  BY Zenon DEF Goto, TypeInv
<1>4. op' \in [Threads -> OpRecords \cup {NoOp}]
  BY <1>2, <1>3, Zenon DEF Goto, TypeInv
<1> QED
  BY <1>1, <1>2, <1>3, <1>4 DEF SameCall, OpRecords

-----------------------------------------------------------------------------
(* The steps of a call, by what they do to map, table and history.         *)

Keep(t) == UNCHANGED <<device, history>> /\ op'[t].listed = op[t].listed

\* The call is over without an answer from the map.
Failed(t) == Answer(Returned(op'[t].res)) = "error"

\* The statistics have been updated, or need not be, and the call returns.
Leaves(t) ==
    /\ op[t].pc \in {"stats", "done"}
    /\ op'[t] = NoOp /\ (\A s \in Threads \ {t} : op'[s] = op[s])
    /\ op' \in [Threads -> OpRecords \cup {NoOp}]
    /\ write_ops' \in Nat /\ write_ops' >= write_ops /\ write_ops' <= write_ops + 1
    /\ op[t].pc = "stats" /\ op[t].kind = "store" => write_ops' > 0
    /\ UNCHANGED <<device, key_table, history>>

\* The table has been updated or read.
ToDevice(t) ==
    /\ op[t].pc = "table" /\ op'[t].pc = "device"
    /\ op[t].kind \in {"store", "exists"}
    /\ op'[t].res = op[t].res /\ op'[t].out = op[t].out
    /\ op'[t].capacity = op[t].capacity
    /\ op'[t].listed = (op[t].key \in key_table')
    /\ key_table' \in {key_table, key_table \cup {op[t].key}}
    /\ UNCHANGED <<device, history>>

\* A retrieve is repeated with a larger buffer.
Retries(t) ==
    /\ op[t].pc = "device" /\ op[t].kind = "retrieve" /\ op'[t].pc = "device"
    /\ op'[t].res = op[t].res /\ op'[t].out = op[t].out
    /\ Stored(t) # NoValue /\ Size[Stored(t)] > op[t].capacity
    /\ op'[t].capacity = Size[Stored(t)]
    /\ Keep(t) /\ UNCHANGED key_table

\* The call fails before the device has done anything.
Refused(t) ==
    /\ op[t].pc \in {"table", "device"} /\ op'[t].pc \in {"stats", "done"}
    /\ Failed(t) /\ op'[t].out \in {op[t].out, NoValue}
    /\ op'[t].res = "KVS_ERR_BUFFER_SMALL" =>
            op[t].capacity # RetrieveSize /\ Stored(t) # NoValue
                /\ Size[Stored(t)] > op[t].capacity
    /\ op[t].kind = "retrieve" /\ op'[t].res = "KVS_ERR_PARAM_INVALID" =>
            op[t].capacity # RetrieveSize
    /\ op[t].kind = "retrieve" /\ op'[t].res = "KVS_ERR_VALUE_LENGTH_INVALID" =>
            op[t].capacity > MaxValueLength
    /\ op'[t].capacity = op[t].capacity
    /\ Keep(t) /\ UNCHANGED key_table

\* The call has its answer from the device, which is unchanged.
Answered(t) ==
    /\ op[t].pc = "device" /\ op'[t].pc \in {"stats", "done"}
    /\ \/ /\ op[t].kind = "store" /\ ~op[t].flag /\ Stored(t) # NoValue
          /\ op'[t].res = "KVS_ERR_VALUE_UPDATE_NOT_ALLOWED" /\ op'[t].out = NoValue
       \/ /\ op[t].kind = "retrieve" /\ Stored(t) = NoValue
          /\ op'[t].res = "KVS_ERR_KEY_NOT_EXIST" /\ op'[t].out = NoValue
       \/ /\ op[t].kind = "retrieve" /\ ~op[t].flag /\ Stored(t) # NoValue
          /\ op'[t].res = "KVS_SUCCESS" /\ op'[t].out = Stored(t)
       \/ /\ op[t].kind = "exists" /\ op'[t].res = "KVS_SUCCESS"
          /\ op'[t].out = IF op[t].listed THEN Stored(t) ELSE NoValue
    /\ op'[t].capacity = op[t].capacity
    /\ Keep(t) /\ UNCHANGED key_table

Stores(t) ==
    /\ op[t].pc = "device" /\ op[t].kind = "store"
    /\ op[t].flag \/ Stored(t) = NoValue
    /\ Size[op[t].arg] <= MaxValueLength
    /\ device' = Write(t, op[t].arg) /\ written' = Wrote(t)
    /\ op'[t].pc = "stats" /\ op'[t].res = "KVS_SUCCESS" /\ op'[t].out = NoValue
    /\ op'[t].capacity = op[t].capacity
    /\ Settle(t, op[t].listed) /\ UNCHANGED key_table

Removes(t) ==
    /\ op[t].pc = "device"
    /\ \/ op[t].kind = "delete" /\ op'[t].out = NoValue
       \/ /\ op[t].kind = "retrieve" /\ op[t].flag /\ Stored(t) # NoValue
          /\ op'[t].out = Stored(t)
    /\ device' = Write(t, NoValue) /\ UNCHANGED written
    /\ op'[t].pc = "unlist" /\ op'[t].res = "KVS_SUCCESS"
    /\ op'[t].capacity = op[t].capacity
    /\ Settle(t, TRUE) /\ UNCHANGED key_table

\* The device reports a fault; the effect may have happened.
Faults(t) ==
    /\ op[t].pc = "device"
    /\ \/ UNCHANGED <<device, written>>
       \/ /\ op[t].kind = "store" /\ (op[t].flag \/ Stored(t) = NoValue)
          /\ Size[op[t].arg] <= MaxValueLength
          /\ device' = Write(t, op[t].arg) /\ written' = Wrote(t)
       \/ /\ op[t].kind = "delete" \/ (op[t].kind = "retrieve" /\ op[t].flag)
          /\ device' = Write(t, NoValue) /\ UNCHANGED written
    /\ op'[t].pc = IF op[t].kind = "delete" THEN "unlist"
                   ELSE IF op[t].kind = "exists" THEN "done" ELSE "stats"
    /\ op'[t].res \in IsDeviceError /\ op'[t].out = NoValue
    /\ op'[t].capacity = op[t].capacity
    /\ loose' = IF op[t].kind = "delete" \/ (op[t].kind = "store" /\ ~op[t].listed)
                THEN loose \cup {op[t].key} ELSE loose
    /\ UNCHANGED key_table

Unlists(t) ==
    /\ op[t].pc = "unlist" /\ op'[t].pc = "stats"
    /\ op'[t].res = op[t].res /\ op'[t].out = op[t].out
    /\ op'[t].capacity = op[t].capacity
    /\ key_table' = key_table \ {op[t].key}
    /\ Keep(t)

InCall(t) ==
    /\ SameCall(t) /\ UNCHANGED write_ops
    /\ \/ ToDevice(t) \/ Retries(t) \/ Refused(t) \/ Answered(t)
       \/ Stores(t) \/ Removes(t) \/ Faults(t) \/ Unlists(t)

\* Every step of a call is one of these.
LEMMA StepEffect ==
    ASSUME TypeInv, NEW t \in Threads, ThreadStep(t)
    PROVE  /\ op[t] \in OpRecords /\ ~Outside(t)
           /\ UNCHANGED <<num_devices, bounds>>
           /\ InCall(t) \/ Leaves(t)
<1>0. /\ op \in [Threads -> OpRecords \cup {NoOp}] /\ NoOp.pc = "idle"
      /\ op[t] \in OpRecords <=> op[t].pc # "idle"
      /\ Outside(t) <=> op[t].pc = "idle"
      /\ op[t] \in OpRecords <=> ~Outside(t)
  BY Inside, Zenon DEF TypeInv, NoOp, Outside
<1>1. op[t].pc # "idle"
  BY <1>0, Zenon DEF ThreadStep, Refuse, StoreTable, ExistsTable, FrontEnd, StoreDevice,
       RetrieveOption, RetrieveDevice, RetrieveSmall, DeleteDevice, ExistsDevice, DeviceFault, Unlist,
       UpdateStats, Return
<1>2. op[t] \in OpRecords /\ ~Outside(t)
  BY <1>0, <1>1, Zenon
<1>3. UNCHANGED <<num_devices, bounds>>
  BY Zenon DEF ThreadStep, Refuse, StoreTable, ExistsTable, FrontEnd, StoreDevice,
       RetrieveOption, RetrieveDevice, RetrieveSmall, DeleteDevice, ExistsDevice, DeviceFault, Unlist,
       UpdateStats, Return
<1>4. /\ op[t].key \in Keys /\ op[t].kind \in Kinds /\ op[t].slot \in Slots
      /\ op[t].pc \in {"table", "device", "unlist", "stats", "done"}
      /\ op[t].listed \in BOOLEAN /\ op[t].capacity \in Nat
  BY <1>2, Zenon DEF OpRecords
<1>5. Stored(t) \in Values \cup {NoValue}
  BY <1>4 DEF Stored, TypeInv
<1>6. CASE Refuse(t)
  <2>1. PICK r \in {"KV_ERR_DEVICE_DEGRADED", "KV_ERR_NO_MEMORY"} :
            op' = [op EXCEPT ![t].res = r, ![t].pc = "done"]
    BY <1>6, Zenon DEF Refuse
  <2>2. op'[t] = [op[t] EXCEPT !.res = r, !.pc = "done"] /\ r \in KvsResults \cup EngineResults
    BY <1>0, <2>1, ResultFacts, Zenon
  <2>3. op'[t] \in OpRecords /\ op'[t].pc = "done" /\ op'[t].res = r
        /\ op'[t].out = op[t].out /\ op'[t].listed = op[t].listed
        /\ op'[t].capacity = op[t].capacity
    BY <1>2, <2>2, ZenonT(60) DEF OpRecords
  <2>4. SameCall(t)
    BY <1>0, <1>2, <2>1, <2>2, <2>3 DEF SameCall, OpRecords
  <2>5. Refused(t)
    <3>1. Failed(t)
      BY <2>1, <2>3, Zenon DEF Failed, Answer, Returned, EngineResults
    <3> QED
      BY <1>4, <1>6, <2>1, <2>3, <3>1, Zenon DEF Refuse, Refused, FirstStep, Keep
  <2> QED
    BY <1>2, <1>3, <1>6, <2>4, <2>5, Zenon DEF Refuse, InCall
<1>7. CASE StoreTable(t) \/ ExistsTable(t)
  <2> DEFINE b == op[t].key \in key_table'
  <2>1. op' = [op EXCEPT ![t] = [op[t] EXCEPT !.pc = "device", !.listed = b]]
    <3>1. CASE StoreTable(t)
      BY <1>0, <3>1, Zenon DEF StoreTable
    <3>2. CASE ExistsTable(t)
      BY <1>0, <1>2, <3>2, Zenon DEF ExistsTable, OpRecords
    <3> QED
      BY <1>7, <3>1, <3>2, Zenon
  <2>2. b \in BOOLEAN
    OBVIOUS
  <2> HIDE DEF b
  <2>3. op'[t] \in OpRecords /\ op'[t].pc = "device" /\ op'[t].listed = b
        /\ op'[t].res = op[t].res /\ op'[t].out = op[t].out
        /\ op'[t].capacity = op[t].capacity
    BY <1>0, <1>2, <2>1, <2>2, Zenon DEF OpRecords
  <2>4. SameCall(t)
    BY <1>0, <1>2, <2>1, <2>3 DEF SameCall, OpRecords
  <2>5. ToDevice(t)
    BY <1>7, <2>1, <2>3, Zenon DEF StoreTable, ExistsTable, ToDevice, b
  <2> QED
    BY <1>2, <1>3, <1>7, <2>4, <2>5, Zenon DEF StoreTable, ExistsTable, InCall
<1> USE <1>2, <1>3, <1>4, <1>5
<1>8. CASE StoreDevice(t)
  <2>0. Size[op[t].arg] <= MaxValueLength
    BY <1>8, Zenon DEF StoreDevice, Accepted
  <2>1. CASE op[t].flag \/ Stored(t) = NoValue
    <3>1. Goto(t, "stats", "KVS_SUCCESS", NoValue)
      BY <1>8, <2>1, Zenon DEF StoreDevice
    <3>2. SameCall(t) /\ op'[t].pc = "stats" /\ op'[t].res = "KVS_SUCCESS"
          /\ op'[t].out = NoValue /\ op'[t].capacity = op[t].capacity
      BY <3>1, GotoEffect, ResultFacts
    <3> QED
      BY <1>8, <2>0, <2>1, <3>2, Zenon DEF StoreDevice, Stores, InCall
  <2>2. CASE ~(op[t].flag \/ Stored(t) = NoValue)
    <3>1. Goto(t, "stats", "KVS_ERR_VALUE_UPDATE_NOT_ALLOWED", NoValue)
      BY <1>8, <2>2, Zenon DEF StoreDevice
    <3>2. /\ SameCall(t) /\ op'[t].pc = "stats"
          /\ op'[t].res = "KVS_ERR_VALUE_UPDATE_NOT_ALLOWED" /\ op'[t].out = NoValue
          /\ op'[t].capacity = op[t].capacity /\ op'[t].listed = op[t].listed
      BY <3>1, GotoEffect, ResultFacts
    <3> QED
      BY <1>8, <2>2, <3>2, Zenon DEF StoreDevice, Answered, Keep, InCall
  <2> QED
    BY <2>1, <2>2, Zenon
<1>17. ASSUME NEW pc \in {"stats", "done"},
              NEW r \in {"KVS_ERR_OPTION_INVALID", "KVS_ERR_BUFFER_SMALL",
                         "KVS_ERR_PARAM_INVALID", "KVS_ERR_VALUE_LENGTH_INVALID",
                         "KV_ERR_NO_MEMORY"},
              op[t].pc = "device", Goto(t, pc, r, NoValue),
              r = "KVS_ERR_BUFFER_SMALL" =>
                op[t].capacity # RetrieveSize /\ Stored(t) # NoValue
                    /\ Size[Stored(t)] > op[t].capacity,
              op[t].kind = "retrieve" /\ r = "KVS_ERR_PARAM_INVALID" =>
                op[t].capacity # RetrieveSize,
              op[t].kind = "retrieve" /\ r = "KVS_ERR_VALUE_LENGTH_INVALID" =>
                op[t].capacity > MaxValueLength,
              UNCHANGED <<num_devices, device, key_table, write_ops, bounds, history>>
       PROVE  InCall(t)
  <2>1. /\ SameCall(t) /\ op'[t].pc = pc /\ op'[t].res = r /\ op'[t].out = NoValue
        /\ op'[t].capacity = op[t].capacity /\ op'[t].listed = op[t].listed
    BY <1>17, GotoEffect, ResultFacts
  <2>2. Failed(t)
    BY <1>17, <2>1, Zenon DEF Failed, Answer, Returned, EngineResults, map_kvs_result
  <2>3. Refused(t)
    BY <1>17, <2>1, <2>2, Zenon DEF Refused, Keep
  <2> QED
    BY <1>17, <2>1, <2>3, Zenon DEF InCall
<1>18. CASE FrontEnd(t)
  <2>1. op[t].kind \in {"store", "retrieve"} /\ op[t].pc = "device"
    BY <1>18, Zenon DEF FrontEnd, Accepted
  <2>2. CASE op[t].kind = "retrieve" /\ op[t].capacity <= MaxValueLength
    <3>1. op[t].capacity % LengthUnit # 0
      BY <1>18, <2>2, Zenon DEF FrontEnd, Accepted
    <3>2. op[t].capacity # RetrieveSize
      BY <3>1, EngineAssumption, Zenon
    <3>3. Goto(t, "stats", "KVS_ERR_PARAM_INVALID", NoValue)
      BY <1>18, <2>2, Zenon DEF FrontEnd
    <3> QED
      BY <1>17, <1>18, <2>1, <3>2, <3>3, Zenon DEF FrontEnd
  <2>3. CASE ~(op[t].kind = "retrieve" /\ op[t].capacity <= MaxValueLength)
    <3>1. Goto(t, "stats", "KVS_ERR_VALUE_LENGTH_INVALID", NoValue)
      BY <1>18, <2>3, Zenon DEF FrontEnd
    <3>2. op[t].kind = "retrieve" => op[t].capacity > MaxValueLength
      BY <2>3, EngineAssumption
    <3> QED
      BY <1>17, <1>18, <2>1, <3>1, <3>2, Zenon DEF FrontEnd
  <2> QED
    BY <2>2, <2>3, Zenon
<1>9. CASE RetrieveOption(t)
  BY <1>9, <1>17, Zenon DEF RetrieveOption
<1>10. CASE RetrieveDevice(t)
  <2>1. CASE Stored(t) = NoValue
    <3>1. Goto(t, "stats", "KVS_ERR_KEY_NOT_EXIST", NoValue)
      BY <1>10, <2>1, Zenon DEF RetrieveDevice
    <3>2. /\ SameCall(t) /\ op'[t].pc = "stats"
          /\ op'[t].res = "KVS_ERR_KEY_NOT_EXIST" /\ op'[t].out = NoValue
          /\ op'[t].capacity = op[t].capacity /\ op'[t].listed = op[t].listed
      BY <3>1, GotoEffect, ResultFacts
    <3> QED
      BY <1>10, <2>1, <3>2, Zenon DEF RetrieveDevice, Answered, Keep, InCall, history
  <2>2. CASE Stored(t) # NoValue /\ op[t].flag
    <3>1. Goto(t, "unlist", "KVS_SUCCESS", Stored(t))
      BY <1>10, <2>2, Zenon DEF RetrieveDevice
    <3>2. /\ SameCall(t) /\ op'[t].pc = "unlist" /\ op'[t].res = "KVS_SUCCESS"
          /\ op'[t].out = Stored(t) /\ op'[t].capacity = op[t].capacity
      BY <3>1, GotoEffect, ResultFacts
    <3> QED
      BY <1>10, <2>2, <3>2, Zenon DEF RetrieveDevice, Removes, InCall
  <2>3. CASE Stored(t) # NoValue /\ ~op[t].flag
    <3>1. Goto(t, "stats", "KVS_SUCCESS", Stored(t))
      BY <1>10, <2>3, Zenon DEF RetrieveDevice
    <3>2. /\ SameCall(t) /\ op'[t].pc = "stats" /\ op'[t].res = "KVS_SUCCESS"
          /\ op'[t].out = Stored(t) /\ op'[t].capacity = op[t].capacity
          /\ op'[t].listed = op[t].listed
      BY <3>1, GotoEffect, ResultFacts
    <3> QED
      BY <1>10, <2>3, <3>2, Zenon DEF RetrieveDevice, Answered, Keep, InCall, history
  <2> QED
    BY <2>1, <2>2, <2>3, Zenon
<1>11. CASE RetrieveSmall(t)
  <2>1. CASE op' = [op EXCEPT ![t].capacity = Size[Stored(t)]]
    <3>1. op'[t] = [op[t] EXCEPT !.capacity = Size[Stored(t)]] /\ Size[Stored(t)] \in Nat
      BY <1>0, <1>11, <2>1, EngineAssumption, Zenon DEF RetrieveSmall
    <3>2. op'[t] \in OpRecords /\ op'[t].capacity = Size[Stored(t)]
          /\ op'[t].pc = op[t].pc /\ op'[t].listed = op[t].listed
          /\ op'[t].res = op[t].res /\ op'[t].out = op[t].out
      BY <3>1 DEF OpRecords
    <3>3. SameCall(t)
      BY <1>0, <2>1, <3>1, <3>2 DEF SameCall, OpRecords
    <3> QED
      BY <1>11, <3>2, <3>3, Zenon DEF RetrieveSmall, Retries, Keep, InCall
  <2>2. CASE Goto(t, "done", "KV_ERR_NO_MEMORY", NoValue)
    BY <1>11, <1>17, <2>2, Zenon DEF RetrieveSmall
  <2>3. CASE op[t].capacity # RetrieveSize /\ Goto(t, "stats", "KVS_ERR_BUFFER_SMALL", NoValue)
    BY <1>11, <1>17, <2>3, Zenon DEF RetrieveSmall
  <2> QED
    BY <1>11, <2>1, <2>2, <2>3, Zenon DEF RetrieveSmall
<1>12. CASE DeleteDevice(t)
  <2>1. /\ SameCall(t) /\ op'[t].pc = "unlist" /\ op'[t].res = "KVS_SUCCESS"
        /\ op'[t].out = NoValue /\ op'[t].capacity = op[t].capacity
    BY <1>12, GotoEffect, ResultFacts DEF DeleteDevice
  <2> QED
    BY <1>12, <2>1, Zenon DEF DeleteDevice, Removes, InCall
<1>13. CASE ExistsDevice(t)
  <2>1. PICK v \in Values \cup {NoValue} : v = IF op[t].listed THEN Stored(t) ELSE NoValue
    BY Zenon
  <2>2. /\ SameCall(t) /\ op'[t].pc = "done" /\ op'[t].res = "KVS_SUCCESS"
        /\ op'[t].out = v /\ op'[t].capacity = op[t].capacity
        /\ op'[t].listed = op[t].listed
    BY <1>13, <2>1, GotoEffect, ResultFacts DEF ExistsDevice
  <2> QED
    BY <1>13, <2>1, <2>2, Zenon DEF ExistsDevice, Answered, Keep, InCall
<1>14. CASE DeviceFault(t)
  <2>1. PICK pc \in {"unlist", "stats", "done"} :
            pc = IF op[t].kind = "delete" THEN "unlist"
                 ELSE IF op[t].kind = "exists" THEN "done" ELSE "stats"
    BY Zenon
  <2>2. PICK r \in DeviceErrors : Goto(t, pc, r, NoValue)
    BY <1>14, <2>1, Zenon DEF DeviceFault
  <2>3. r \in IsDeviceError /\ r \in KvsResults \cup EngineResults
    BY EngineAssumption, ResultFacts, Zenon
  <2>4. SameCall(t) /\ op'[t].pc = pc /\ op'[t].res \in IsDeviceError
        /\ op'[t].out = NoValue /\ op'[t].capacity = op[t].capacity
    BY <2>2, <2>3, GotoEffect
  <2>5. op[t].kind = "store" => Size[op[t].arg] <= MaxValueLength
    BY <1>14, Zenon DEF DeviceFault, Accepted
  <2> QED
    BY <1>14, <2>1, <2>4, <2>5, Zenon DEF DeviceFault, Faults, InCall
<1>15. CASE Unlist(t)
  <2>1. op'[t] = [op[t] EXCEPT !.pc = "stats"]
    BY <1>0, <1>15, Zenon DEF Unlist
  <2>2. op'[t] \in OpRecords /\ op'[t].pc = "stats" /\ op'[t].listed = op[t].listed
        /\ op'[t].res = op[t].res /\ op'[t].out = op[t].out
        /\ op'[t].capacity = op[t].capacity
    BY <2>1, Zenon DEF OpRecords
  <2>3. SameCall(t)
    BY <1>0, <1>15, <2>1, <2>2 DEF Unlist, SameCall, OpRecords
  <2> QED
    BY <1>15, <2>2, <2>3, Zenon DEF Unlist, Unlists, Keep, InCall
<1>16. CASE UpdateStats(t) \/ Return(t)
  <2>1. op' = [op EXCEPT ![t] = NoOp]
    BY <1>16, Zenon DEF UpdateStats, Return
  <2>2. op'[t] = NoOp /\ (\A s \in Threads \ {t} : op'[s] = op[s])
        /\ op' \in [Threads -> OpRecords \cup {NoOp}]
    BY <1>0, <2>1, Zenon
  <2>3. write_ops' \in Nat /\ write_ops' >= write_ops /\ write_ops' <= write_ops + 1
        /\ (op[t].pc = "stats" /\ op[t].kind = "store" => write_ops' > 0)
    BY <1>16 DEF UpdateStats, Return, Counted, TypeInv
  <2> QED
    BY <1>16, <2>2, <2>3, Zenon DEF UpdateStats, Return, Leaves
<1> QED
  BY <1>6, <1>7, <1>8, <1>9, <1>10, <1>11, <1>12, <1>13, <1>14, <1>15, <1>16,
     <1>18, Zenon DEF ThreadStep

\* A new call for key k by thread t: calls for the same key are no longer alone.
Enters(t, k) ==
    /\ op[t] = NoOp /\ op'[t] \in OpRecords
    /\ op'[t].key = k /\ op'[t].slot = ShardForKey(k, num_devices)
    /\ op'[t].pc = IF op'[t].kind \in {"store", "exists"} THEN "table" ELSE "device"
    /\ op'[t].capacity = RetrieveSize
    /\ op'[t].alone = (k \notin KeysInUse)
    /\ op'[t].res = "none" /\ op'[t].out = NoValue
    /\ op' \in [Threads -> OpRecords \cup {NoOp}]
    /\ \A s \in Threads \ {t} :
        IF op[s] \in OpRecords /\ op[s].key = k
        THEN op'[s] = [op[s] EXCEPT !.alone = FALSE] ELSE op'[s] = op[s]
    /\ loose' = loose \cup ({k} \cap KeysInUse)
    /\ UNCHANGED <<num_devices, device, key_table, write_ops, restarts, written>>

\* What Call does, without the choice of its arguments.
LEMMA CallEffect ==
    ASSUME TypeInv, NEW t \in Threads, Call(t)
    PROVE  \E k \in Keys : Enters(t, k)
<1>0. op \in [Threads -> OpRecords \cup {NoOp}] /\ op[t] = NoOp
  BY Inside, Zenon DEF TypeInv, Call
<1>1. PICK kind \in Kinds, k \in Keys, v \in Values, flag \in BOOLEAN :
        /\ op' = [s \in Threads |->
                    IF s = t THEN Begun(kind, k, v, flag) ELSE Joined(s, k)]
        /\ loose' = loose \cup ({k} \cap KeysInUse)
  BY DEF Call
<1>2. ShardForKey(k, num_devices) \in Slots
  BY ShardInRange, Zenon DEF TypeInv
<1>3. FirstStep(kind) = IF kind \in {"store", "exists"} THEN "table" ELSE "device"
  BY Zenon DEF FirstStep
<1>4. /\ op'[t] \in OpRecords /\ op'[t].kind = kind /\ op'[t].pc = FirstStep(kind)
      /\ op'[t].key = k /\ op'[t].slot = ShardForKey(k, num_devices)
      /\ op'[t].capacity = RetrieveSize
      /\ op'[t].alone = (k \notin KeysInUse)
      /\ op'[t].res = "none" /\ op'[t].out = NoValue
  BY <1>1, <1>2, <1>3, LengthFacts, Zenon DEF Begun, OpRecords
<1>5. ASSUME NEW s \in Threads \ {t}
      PROVE  /\ IF op[s] \in OpRecords /\ op[s].key = k
                THEN op'[s] = [op[s] EXCEPT !.alone = FALSE] ELSE op'[s] = op[s]
             /\ op'[s] \in OpRecords \cup {NoOp}
  <2>1. op[s] \in OpRecords <=> ~Outside(s)
    BY <1>0, Inside, Zenon
  <2>2. op[s] \in OpRecords => [op[s] EXCEPT !.alone = FALSE] \in OpRecords
    BY Zenon DEF OpRecords
  <2> QED
    BY <1>0, <1>1, <2>1, <2>2, Zenon DEF Joined
<1>6. op' \in [Threads -> OpRecords \cup {NoOp}]
  BY <1>1, <1>4, <1>5, Zenon
<1>7. Enters(t, k)
  BY <1>0, <1>1, <1>3, <1>4, <1>5, <1>6, Zenon DEF Enters, Call
<1> QED
  BY <1>7, Zenon

\* A new call leaves the others as they are, but for alone.
LEMMA OthersEffect ==
    ASSUME TypeInv, NEW t \in Threads, NEW k \in Keys, Enters(t, k), NEW s \in Threads \ {t}
    PROVE  /\ op'[s] \in OpRecords <=> op[s] \in OpRecords
           /\ op[s] \in OpRecords =>
                /\ op'[s].pc = op[s].pc /\ op'[s].kind = op[s].kind
                /\ op'[s].key = op[s].key /\ op'[s].arg = op[s].arg
                /\ op'[s].flag = op[s].flag /\ op'[s].slot = op[s].slot
                /\ op'[s].capacity = op[s].capacity /\ op'[s].listed = op[s].listed
                /\ op'[s].res = op[s].res /\ op'[s].out = op[s].out
                /\ op'[s].alone = (op[s].alone /\ op[s].key # k)
           /\ op[s] \notin OpRecords => op'[s] = op[s]
<1>1. CASE op[s] \in OpRecords /\ op[s].key = k
  <2>1. op'[s] = [op[s] EXCEPT !.alone = FALSE]
    BY <1>1, Zenon DEF Enters
  <2>2. op'[s] \in OpRecords /\ op[s].alone \in BOOLEAN
    BY <1>1, <2>1, Zenon DEF OpRecords
  <2> QED
    BY <1>1, <2>1, <2>2, Zenon DEF OpRecords
<1>2. CASE ~(op[s] \in OpRecords /\ op[s].key = k)
  <2>1. op'[s] = op[s]
    BY <1>2, Zenon DEF Enters
  <2>2. op[s] \in OpRecords => op[s].alone \in BOOLEAN
    BY Zenon DEF OpRecords
  <2> QED
    BY <1>2, <2>1, <2>2, Zenon
<1> QED
  BY <1>1, <1>2, Zenon

\* Writing a value changes one key of one device.
LEMMA WriteEffect ==
    ASSUME TypeInv, NEW t \in Threads, op[t] \in OpRecords,
           NEW v \in Values \cup {NoValue}, device' = Write(t, v)
    PROVE  /\ device' \in [Slots -> [Keys -> Values \cup {NoValue}]]
           /\ \A d \in Slots, k \in Keys :
                device'[d][k] = IF d = op[t].slot /\ k = op[t].key THEN v
                                ELSE device[d][k]
<1>1. op[t].slot \in Slots /\ op[t].key \in Keys
  BY Zenon DEF OpRecords
<1> QED
  BY <1>1, Zenon DEF TypeInv, Write

\* A step inside a call touches at most its own key on its own device: it keeps
\* it, removes it or stores the value it was asked to store.
LEMMA DeviceEffect ==
    ASSUME TypeInv, NEW t \in Threads, op[t] \in OpRecords, InCall(t)
    PROVE  /\ device' \in [Slots -> [Keys -> Values \cup {NoValue}]]
           /\ \E v \in {Stored(t), NoValue, op[t].arg} :
                /\ \A d \in Slots, k \in Keys :
                    device'[d][k] = IF d = op[t].slot /\ k = op[t].key THEN v
                                    ELSE device[d][k]
                /\ v \notin {Stored(t), NoValue} =>
                        op[t].kind = "store" /\ op'[t].pc = "stats"
                /\ v # Stored(t) => op[t].pc = "device"
<1>1. op[t].arg \in Values \cup {NoValue}
  BY Zenon DEF OpRecords
<1>2. CASE UNCHANGED device
  BY <1>2, Zenon DEF TypeInv, Stored
<1>3. CASE device' = Write(t, op[t].arg) /\ op[t].kind = "store" /\ op'[t].pc = "stats"
           /\ op[t].pc = "device"
  BY <1>1, <1>3, WriteEffect
<1>4. CASE device' = Write(t, NoValue) /\ op[t].pc = "device"
  BY <1>4, WriteEffect
<1> QED
  BY <1>2, <1>3, <1>4, Zenon DEF InCall, ToDevice, Retries, Refused, Answered, Stores,
     Removes,
       Faults, Unlists, Keep

\* A step inside a call writes at most the pair of its slot and key, and then
\* the call is a store that has been to its device.
LEMMA WrittenEffect ==
    ASSUME NEW t \in Threads, InCall(t)
    PROVE  \/ UNCHANGED written
           \/ /\ written' = written \cup {<<op[t].slot, op[t].key>>}
              /\ op[t].kind = "store" /\ op[t].pc = "device" /\ op'[t].pc = "stats"
BY Zenon DEF InCall, ToDevice, Retries, Refused, Answered, Stores, Removes, Faults,
   Unlists, Keep, Wrote, history

-----------------------------------------------------------------------------
(* Types are preserved.                                                    *)

\* A new engine is well typed.
LEMMA InitType == Init => TypeInv
BY EngineAssumption DEF Init, TypeInv, Slots

\* So is every state an operation, a restart or an added device leads to.
LEMMA NextType == TypeInv /\ [Next]_vars => TypeInv'
<1> SUFFICES ASSUME TypeInv, [Next]_vars PROVE TypeInv'
  BY Zenon
<1>1. ASSUME NEW t \in Threads, Call(t) PROVE TypeInv'
  <2>1. PICK k \in Keys : Enters(t, k)
    BY <1>1, CallEffect, Zenon
  <2> QED
    BY <2>1, Zenon DEF Enters, TypeInv
<1>2. ASSUME NEW t \in Threads, ThreadStep(t) PROVE TypeInv'
  <2>1. /\ op[t] \in OpRecords /\ op[t].key \in Keys /\ op[t].slot \in Slots
        /\ UNCHANGED <<num_devices, bounds>> /\ (InCall(t) \/ Leaves(t))
    BY <1>2, StepEffect, Zenon DEF OpRecords
  <2>2. CASE Leaves(t)
    BY <2>1, <2>2, Zenon DEF Leaves, TypeInv, bounds, history
  <2>3. CASE InCall(t)
    <3>1. device' \in [Slots -> [Keys -> Values \cup {NoValue}]]
      BY <2>1, <2>3, DeviceEffect, Zenon
    <3>2. key_table' \in SUBSET Keys
      BY <2>1, <2>3, Zenon DEF InCall, ToDevice, Retries, Refused, Answered, Stores,
         Removes,
           Faults, Unlists, Keep, TypeInv
    <3>3. loose' \in SUBSET Keys
      BY <2>1, <2>3, Zenon DEF InCall, ToDevice, Retries, Refused, Answered, Stores,
         Removes,
           Faults, Unlists, Keep, Settle, TypeInv, history
    <3>4. written' \in SUBSET (Slots \X Keys)
      <4>1. <<op[t].slot, op[t].key>> \in Slots \X Keys
        BY <2>1
      <4> QED
        BY <2>3, <4>1, WrittenEffect DEF TypeInv
    <3> QED
      BY <2>1, <2>3, <3>1, <3>2, <3>3, <3>4, Zenon DEF InCall, SameCall, TypeInv, bounds
  <2> QED
    BY <2>1, <2>2, <2>3, Zenon
<1>3. CASE AddDevice
  BY <1>3, EngineAssumption DEF AddDevice, TypeInv, bounds
<1>4. CASE Restart
  BY <1>4 DEF Restart, TypeInv
<1>5. CASE UNCHANGED vars
  BY <1>5, Zenon DEF vars, bounds, history, TypeInv
<1>6. CASE ResetStats
  BY <1>6 DEF ResetStats, bounds, TypeInv
<1> QED
  BY <1>1, <1>2, <1>3, <1>4, <1>5, <1>6, Zenon DEF Next, Quiet

-----------------------------------------------------------------------------
(* Routing.  RoutedHome is not inductive: adding a device moves keys, which *)
(* is harmless to the writes of this session only because write_ops,       *)
(* counted after the device was written, still shows whether there were    *)
(* any.                                                                    *)

RouteInv ==
    /\ \A t \in Threads :
        op[t] \in OpRecords => op[t].slot = ShardForKey(op[t].key, num_devices)
    /\ RoutedHome
    /\ write_ops = 0 /\ (\A t \in Threads : ~Uncounted(t)) => written = {}

\* Nothing is written in a new engine.
LEMMA InitRoute == Init => RouteInv
<1>1. NoOp \notin OpRecords
  BY Zenon DEF NoOp, OpRecords
<1> QED
  BY <1>1, Zenon DEF Init, RouteInv, RoutedHome

\* Routing survives every step, AddDevice, ResetStats and Restart included.
LEMMA NextRoute == TypeInv /\ RouteInv /\ [Next]_vars => RouteInv'
<1> SUFFICES ASSUME TypeInv, RouteInv, [Next]_vars PROVE RouteInv'
  BY Zenon
<1>0. NoOp \notin OpRecords /\ NoOp.pc = "idle"
  BY Zenon DEF NoOp, OpRecords
<1>1. ASSUME NEW t \in Threads, Call(t) PROVE RouteInv'
  <2>1. PICK k \in Keys : Enters(t, k)
    BY <1>1, CallEffect, Zenon
  <2>2. \A s \in Threads \ {t} :
            op'[s] \in OpRecords => /\ op[s] \in OpRecords
                                    /\ op'[s].slot = op[s].slot /\ op'[s].key = op[s].key
    BY <2>1, OthersEffect
  <2>3. \A s \in Threads \ {t} : Uncounted(s)' <=> Uncounted(s)
    BY <2>1, OthersEffect DEF Uncounted
  <2>4. ~Uncounted(t)
    BY <1>0, <2>1, Zenon DEF Uncounted, Enters
  <2>5. \A s \in Threads :
            op'[s] \in OpRecords => op'[s].slot = ShardForKey(op'[s].key, num_devices')
    BY <2>1, <2>2, Zenon DEF Enters, RouteInv
  <2> QED
    BY <2>1, <2>3, <2>4, <2>5, Zenon DEF Enters, RouteInv, RoutedHome
<1>2. ASSUME NEW t \in Threads, ThreadStep(t) PROVE RouteInv'
  <2>1. /\ op[t] \in OpRecords /\ op[t].key \in Keys /\ op[t].slot \in Slots
        /\ UNCHANGED <<num_devices, bounds>> /\ (InCall(t) \/ Leaves(t))
    BY <1>2, StepEffect, Zenon DEF OpRecords
  <2>2. CASE Leaves(t)
    <3>1. \A s \in Threads \ {t} : Uncounted(s)' <=> Uncounted(s)
      BY <2>2, Zenon DEF Leaves, Uncounted
    <3>2. write_ops' = 0 => write_ops = 0 /\ ~Uncounted(t)
      BY <2>2 DEF Leaves, Uncounted, TypeInv
    <3>3. UNCHANGED written
      BY <2>2, Zenon DEF Leaves, history
    <3> QED
      BY <1>0, <2>1, <2>2, <3>1, <3>2, <3>3, ZenonT(60) DEF Leaves, RouteInv, RoutedHome
  <2>3. CASE InCall(t)
    <3>1. \A s \in Threads :
            op'[s] \in OpRecords => op'[s].slot = ShardForKey(op'[s].key, num_devices')
      BY <2>1, <2>3 DEF InCall, SameCall, RouteInv
    <3>2. \A s \in Threads \ {t} : Uncounted(s)' <=> Uncounted(s)
      BY <2>3, Zenon DEF InCall, SameCall, Uncounted
    <3>3. ~Uncounted(t)
      BY <2>3, Zenon DEF InCall, ToDevice, Retries, Refused, Answered, Stores, Removes,
           Faults, Unlists, Uncounted
    <3>4. CASE UNCHANGED written
      BY <2>1, <2>3, <3>1, <3>2, <3>3, <3>4, Zenon DEF InCall, RouteInv, RoutedHome
    <3>5. CASE /\ written' = written \cup {<<op[t].slot, op[t].key>>}
               /\ op[t].kind = "store" /\ op'[t].pc = "stats"
      <4>1. Uncounted(t)'
        BY <2>3, <3>5, Zenon DEF InCall, SameCall, Uncounted
      <4>2. op[t].slot = ShardForKey(op[t].key, num_devices)
        BY <2>1, Zenon DEF RouteInv
      <4>3. RoutedHome'
        BY <2>1, <3>5, <4>2 DEF RoutedHome, RouteInv, ShardForKey
      <4> QED
        BY <3>1, <4>1, <4>3, Zenon DEF RouteInv
    <3> QED
      BY <2>3, <3>4, <3>5, WrittenEffect, Zenon
  <2> QED
    BY <2>1, <2>2, <2>3, Zenon
<1>3. CASE AddDevice
  <2>1. \A t \in Threads : op[t] = NoOp
    BY <1>3, Inside, Zenon DEF AddDevice, TypeInv
  <2>2. written = {}
    BY <1>0, <1>3, <2>1, Zenon DEF AddDevice, RouteInv, Uncounted
  <2> QED
    BY <1>0, <1>3, <2>1, <2>2, Zenon DEF AddDevice, RouteInv, RoutedHome
<1>4. CASE Restart
  BY <1>0, <1>4, Zenon DEF Restart, RouteInv, RoutedHome
<1>5. CASE UNCHANGED vars
  BY <1>5, Zenon DEF vars, bounds, history, RouteInv, RoutedHome, Uncounted
<1>6. CASE ResetStats
  <2>1. UNCHANGED <<num_devices, op>> /\ written' \subseteq written
    BY <1>6, Zenon DEF ResetStats
  <2>2. (\A t \in Threads : ~Uncounted(t)) => written' = {}
    BY <1>6, Zenon DEF ResetStats
  <2> QED
    BY <2>1, <2>2, Zenon DEF RouteInv, RoutedHome, Uncounted
<1> QED
  BY <1>1, <1>2, <1>3, <1>4, <1>5, <1>6, Zenon DEF Next, Quiet

\* The writes that write_ops stands for stay on the devices that
\* kv_engine_shard_for_key selects, for any number of devices, threads and
\* restarts: for them the guard of kv_engine_add_device suffices, although
\* write_ops is updated late.  (Of writes before a restart or a reset of the
\* statistics it says nothing; the runs of AddKeepsData show why.)
THEOREM RoutedHomeCorrect == Spec => []RoutedHome
<1>1. RouteInv => RoutedHome
  BY Zenon DEF RouteInv
<1> QED
  BY <1>1, InitType, NextType, InitRoute, NextRoute, PTL DEF Spec

-----------------------------------------------------------------------------
(* Table and device.  A call that has its key to itself finds table and    *)
(* device as it left them; every other call makes its key loose.           *)

\* The record of one call: what it knows about its key while it is alone.
CallInv(t) ==
    /\ ~op[t].alone => op[t].key \in loose
    /\ op[t].pc = "device" /\ op[t].kind \in {"store", "exists"} /\ op[t].alone =>
            (op[t].listed <=> op[t].key \in key_table)
    /\ op[t].pc = "unlist" /\ op[t].key \notin loose => Found[op[t].key] = NoValue
    /\ op[t].pc \in {"table", "device"} => op[t].out = NoValue /\ op[t].res = "none"
    /\ op[t].alone =>
        /\ op[t].res # "KVS_ERR_BUFFER_SMALL"
        /\ op[t].pc \in {"table", "device"} /\ op[t].capacity # RetrieveSize
                /\ Found[op[t].key] # NoValue =>
             Size[Found[op[t].key]] <= op[t].capacity

LooseInv ==
    /\ \A t, s \in Threads :
        op[t] \in OpRecords /\ op[s] \in OpRecords /\ t # s /\ op[t].key = op[s].key =>
            ~op[t].alone
    /\ \A t \in Threads : op[t] \in OpRecords => CallInv(t)
    /\ \A k \in Keys \ loose : Found[k] # NoValue => k \in key_table

\* The map has values, and an operation finds the value of its key in it.
LEMMA MapFacts ==
    ASSUME TypeInv
    PROVE  /\ Found \in [Keys -> Values \cup {NoValue}]
           /\ RouteInv => \A t \in Threads :
                op[t] \in OpRecords => Stored(t) = Found[op[t].key]
<1>1. \A k \in Keys : ShardForKey(k, num_devices) \in Slots
  BY ShardInRange, Zenon DEF TypeInv
<1>2. Found \in [Keys -> Values \cup {NoValue}]
  BY <1>1, Zenon DEF Found, View, TypeInv
<1>3. \A t \in Threads : op[t] \in OpRecords => op[t].key \in Keys
  BY Zenon DEF OpRecords
<1> QED
  BY <1>2, <1>3, Zenon DEF RouteInv, Found, View, Stored

\* A write to the device is a write to the view of some numbers of devices.
LEMMA ViewWrite ==
    ASSUME TypeInv, NEW t \in Threads, op[t] \in OpRecords,
           NEW v \in Values \cup {NoValue}, device' = Write(t, v), NEW n \in 1 .. MaxDevices
    PROVE  View(n)' = IF ShardForKey(op[t].key, n) = op[t].slot
                      THEN [View(n) EXCEPT ![op[t].key] = v] ELSE View(n)
<1>1. \A k \in Keys : ShardForKey(k, n) \in Slots
  BY ShardInRange, Zenon
<1>2. op[t].key \in Keys
  BY Zenon DEF OpRecords
<1>3. \A d \in Slots, k \in Keys :
        device'[d][k] = IF d = op[t].slot /\ k = op[t].key THEN v ELSE device[d][k]
  BY WriteEffect
<1>4. View(n)' = [k \in Keys |-> device'[ShardForKey(k, n)][k]]
  BY Zenon DEF View, ShardForKey
<1>5. \A k \in Keys : device'[ShardForKey(k, n)][k] =
                        IF ShardForKey(k, n) = op[t].slot /\ k = op[t].key THEN v
                        ELSE device[ShardForKey(k, n)][k]
  BY <1>1, <1>3, Zenon
<1> QED
  BY <1>2, <1>4, <1>5, Zenon DEF View

\* A write to the device is a write to the map.
LEMMA MapWrite ==
    ASSUME TypeInv, RouteInv, NEW t \in Threads, op[t] \in OpRecords,
           NEW v \in Values \cup {NoValue}, device' = Write(t, v), UNCHANGED num_devices
    PROVE  Found' = [Found EXCEPT ![op[t].key] = v]
<1>1. op[t].slot = ShardForKey(op[t].key, num_devices) /\ num_devices \in 1 .. MaxDevices
  BY Zenon DEF RouteInv, TypeInv
<1>2. PICK n \in 1 .. MaxDevices : n = num_devices
  BY <1>1, Zenon
<1>3. View(n)' = [View(n) EXCEPT ![op[t].key] = v]
  BY <1>1, <1>2, ViewWrite, Zenon
<1>4. Found' = [k \in Keys |-> device'[ShardForKey(k, n)][k]]
  BY <1>2, Zenon DEF Found, View, ShardForKey
<1>5. View(n)' = [k \in Keys |-> device'[ShardForKey(k, n)][k]]
  BY Zenon DEF View, ShardForKey
<1> QED
  BY <1>2, <1>3, <1>4, <1>5, Zenon DEF Found

\* The map stays the same if the devices do.
LEMMA MapSame ==
    ASSUME UNCHANGED <<device, num_devices>>
    PROVE  Found' = Found
BY Zenon DEF Found, View, ShardForKey

\* What a step inside a call does to the map, the table and the history.
LEMMA KeyEffect ==
    ASSUME TypeInv, RouteInv, NEW t \in Threads, op[t] \in OpRecords, InCall(t),
           UNCHANGED num_devices
    PROVE  /\ \A k \in Keys \ {op[t].key} :
                /\ Found'[k] = Found[k]
                /\ k \in key_table' <=> k \in key_table
                /\ k \in loose' <=> k \in loose
           /\ op[t].key \in loose /\ ~op[t].alone => op[t].key \in loose'
<1>1. op[t].key \in Keys /\ op[t].arg \in Values \cup {NoValue}
  BY Zenon DEF OpRecords
<1>2. Found \in [Keys -> Values \cup {NoValue}]
  BY MapFacts, Zenon
<1>3. \A k \in Keys \ {op[t].key} : Found'[k] = Found[k]
  <2>1. CASE UNCHANGED device
    BY <2>1, MapSame, Zenon
  <2>2. CASE device' = Write(t, op[t].arg)
    BY <1>1, <1>2, <2>2, MapWrite
  <2>3. CASE device' = Write(t, NoValue)
    BY <1>1, <1>2, <2>3, MapWrite, Zenon
  <2> QED
    BY <2>1, <2>2, <2>3, Zenon DEF InCall, ToDevice, Retries, Refused, Answered, Stores,
       Removes,
         Faults, Unlists, Keep
<1>4. \A k \in Keys \ {op[t].key} : k \in key_table' <=> k \in key_table
  BY Zenon DEF InCall, ToDevice, Retries, Refused, Answered, Stores, Removes, Faults,
     Unlists
<1>5. /\ \A k \in Keys \ {op[t].key} : k \in loose' <=> k \in loose
      /\ op[t].key \in loose /\ ~op[t].alone => op[t].key \in loose'
  BY Zenon DEF InCall, ToDevice, Retries, Refused, Answered, Stores, Removes, Faults,
     Unlists,
       Keep, Settle, history
<1> QED
  BY <1>3, <1>4, <1>5, Zenon

\* No call is in progress when the engine starts, and nothing is stored.
LEMMA InitLoose == Init => LooseInv
<1> SUFFICES ASSUME Init PROVE LooseInv
  BY Zenon
<1>1. NoOp \notin OpRecords
  BY Zenon DEF NoOp, OpRecords
<1>2. \A k \in Keys : Found[k] = NoValue
  BY InitType, ShardInRange, Zenon DEF Init, Found, View, TypeInv
<1> QED
  BY <1>1, <1>2, Zenon DEF Init, LooseInv

\* A new call.
LEMMA EnterLoose ==
    ASSUME TypeInv, LooseInv, NEW t \in Threads, NEW k \in Keys, Enters(t, k)
    PROVE  LooseInv'
<1>0. NoOp \notin OpRecords /\ op[t] = NoOp
  BY Zenon DEF NoOp, OpRecords, Enters
<1>1. Found' = Found /\ UNCHANGED key_table /\ loose \subseteq loose'
  BY MapSame, Zenon DEF Enters
<1>2. \A s \in Threads : op[s] \in OpRecords => op[s].key \in KeysInUse
  BY Inside, Zenon DEF KeysInUse, TypeInv
<1>3. ASSUME NEW s \in Threads, op'[s] \in OpRecords PROVE CallInv(s)'
  <2>1. CASE s = t
    BY <1>1, <2>1, Zenon DEF Enters, CallInv
  <2>2. CASE s # t
    <3>1. op[s] \in OpRecords /\ CallInv(s)
      BY <1>3, <2>2, OthersEffect, Zenon DEF LooseInv
    <3>2. /\ op'[s].pc = op[s].pc /\ op'[s].kind = op[s].kind
          /\ op'[s].key = op[s].key /\ op'[s].capacity = op[s].capacity
          /\ op'[s].listed = op[s].listed
          /\ op'[s].res = op[s].res /\ op'[s].out = op[s].out
          /\ op'[s].alone = (op[s].alone /\ op[s].key # k)
      BY <2>2, <3>1, OthersEffect
    <3>3. op[s].key = k => op[s].key \in loose'
      BY <1>2, <3>1, Zenon DEF Enters
    <3> QED
      BY <1>1, <3>1, <3>2, <3>3, Zenon DEF CallInv
  <2> QED
    BY <2>1, <2>2, Zenon
<1>4. ASSUME NEW s \in Threads, NEW u \in Threads, op'[s] \in OpRecords,
             op'[u] \in OpRecords, s # u, op'[s].key = op'[u].key
      PROVE  ~op'[s].alone
  <2>1. CASE s = t
    <3>1. op[u] \in OpRecords /\ op[u].key = k
      BY <1>4, <2>1, OthersEffect DEF Enters
    <3> QED
      BY <1>2, <2>1, <3>1, Zenon DEF Enters
  <2>2. CASE s # t
    <3>1. op[s] \in OpRecords /\ op'[s].key = op[s].key
          /\ op'[s].alone = (op[s].alone /\ op[s].key # k)
      BY <1>4, <2>2, OthersEffect
    <3>2. CASE u = t
      BY <1>4, <3>1, <3>2, Zenon DEF Enters
    <3>3. CASE u # t
      <4>1. op[u] \in OpRecords /\ op'[u].key = op[u].key
        BY <1>4, <3>3, OthersEffect
      <4> QED
        BY <1>4, <3>1, <4>1, Zenon DEF LooseInv
    <3> QED
      BY <3>2, <3>3, Zenon
  <2> QED
    BY <2>1, <2>2, Zenon
<1> QED
  BY <1>1, <1>3, <1>4, Zenon DEF LooseInv

\* A step inside a call.
LEMMA InCallLoose ==
    ASSUME TypeInv, RouteInv, LooseInv, NEW t \in Threads, op[t] \in OpRecords, InCall(t),
           UNCHANGED num_devices
    PROVE  LooseInv'
<1>0. NoOp \notin OpRecords /\ op[t].key \in Keys /\ op[t].arg \in Values \cup {NoValue}
      /\ op[t].alone \in BOOLEAN /\ op[t].listed \in BOOLEAN
  BY Zenon DEF NoOp, OpRecords
<1>1. /\ op'[t] \in OpRecords /\ op'[t].key = op[t].key /\ op'[t].kind = op[t].kind
      /\ op'[t].alone = op[t].alone
      /\ \A s \in Threads \ {t} : op'[s] = op[s]
  BY Zenon DEF InCall, SameCall
<1>2. /\ \A k \in Keys \ {op[t].key} :
           /\ Found'[k] = Found[k]
           /\ k \in key_table' <=> k \in key_table
           /\ k \in loose' <=> k \in loose
      /\ op[t].key \in loose /\ ~op[t].alone => op[t].key \in loose'
  BY KeyEffect, Zenon
<1>3. \A s, u \in Threads :
        op'[s] \in OpRecords /\ op'[u] \in OpRecords /\ s # u /\ op'[s].key = op'[u].key =>
            ~op'[s].alone
  BY <1>1 DEF LooseInv
<1>4. ASSUME NEW s \in Threads \ {t}, op'[s] \in OpRecords PROVE CallInv(s)'
  <2>1. op'[s] = op[s] /\ op[s] \in OpRecords /\ CallInv(s) /\ op[s].key \in Keys
    BY <1>1, <1>4, Zenon DEF LooseInv, OpRecords
  <2>2. CASE op[s].key # op[t].key
    BY <1>2, <2>1, <2>2 DEF CallInv
  <2>3. CASE op[s].key = op[t].key
    <3>1. ~op[s].alone /\ ~op[t].alone /\ op[s].key \in loose
      BY <2>1, <2>3, Zenon DEF LooseInv, CallInv
    <3> QED
      BY <1>2, <2>1, <2>3, <3>1, Zenon DEF CallInv
  <2> QED
    BY <2>2, <2>3, Zenon
<1>5. /\ CallInv(t)'
      /\ op[t].key \notin loose' /\ Found'[op[t].key] # NoValue =>
            op[t].key \in key_table'
  <2>0. /\ CallInv(t) /\ Found \in [Keys -> Values \cup {NoValue}]
        /\ Stored(t) = Found[op[t].key]
        /\ op[t].key \notin loose /\ Found[op[t].key] # NoValue =>
              op[t].key \in key_table
        /\ op[t].capacity \in Nat /\ (Stored(t) # NoValue => Size[Stored(t)] \in Nat)
    BY <1>0, MapFacts, EngineAssumption DEF LooseInv, OpRecords
  <2>1. CASE ToDevice(t)
    <3>1. Found' = Found
      BY <2>1, MapSame, Zenon DEF ToDevice
    <3>2. op'[t].pc = "device" /\ op'[t].listed = (op[t].key \in key_table')
          /\ op'[t].res = op[t].res /\ op'[t].out = op[t].out /\ UNCHANGED loose
          /\ op'[t].capacity = op[t].capacity /\ op[t].pc = "table"
      BY <2>1, Zenon DEF ToDevice, history
    <3> QED
      BY <1>0, <1>1, <2>0, <2>1, <3>1, <3>2, ZenonT(60) DEF CallInv, ToDevice
  <2>2. CASE Retries(t)
    <3>1. Found' = Found
      BY <2>2, MapSame, Zenon DEF Retries, Keep
    <3> QED
      BY SMTT(30), <1>0, <1>1, <2>0, <2>2, <3>1 DEF CallInv, Retries, Keep, history
  <2>3. CASE Refused(t)
    <3>1. Found' = Found
      BY <2>3, MapSame, Zenon DEF Refused, Keep
    <3> QED
      BY SMTT(30), <1>0, <1>1, <2>0, <2>3, <3>1 DEF CallInv, Refused, Keep, history
  <2>4. CASE Answered(t)
    <3>1. Found' = Found
      BY <2>4, MapSame, Zenon DEF Answered, Keep
    <3>2. op'[t].pc \in {"stats", "done"} /\ op'[t].res # "KVS_ERR_BUFFER_SMALL"
          /\ UNCHANGED <<key_table, loose>>
      BY <2>4, Zenon DEF Answered, Keep, history
    <3> QED
      BY <1>0, <1>1, <2>0, <3>1, <3>2, Zenon DEF CallInv
  <2>5. CASE Stores(t)
    BY <1>0, <1>1, <2>0, <2>5, Zenon DEF CallInv, Stores, Settle
  <2>6. CASE Removes(t)
    <3>1. Found'[op[t].key] = NoValue
      BY SMTT(30), <1>0, <2>0, <2>6, MapWrite DEF Removes
    <3>2. op[t].key \in loose => op[t].key \in loose' \/ op[t].alone
      BY <2>6, Zenon DEF Removes, Settle
    <3> QED
      BY <1>0, <1>1, <2>0, <2>6, <3>1, <3>2, Zenon DEF CallInv, Removes
  <2>7. CASE Faults(t)
    <3>1. Found'[op[t].key] \in {Found[op[t].key], NoValue} \/ op[t].kind = "store"
      <4>1. CASE UNCHANGED device
        BY <4>1, MapSame, Zenon
      <4>2. CASE device' = Write(t, NoValue)
        BY SMTT(30), <1>0, <2>0, <4>2, MapWrite
      <4> QED
        BY <2>7, <4>1, <4>2, Zenon DEF Faults
    <3>2. op'[t].res # "KVS_ERR_BUFFER_SMALL"
      BY <2>7, ResultFacts, Zenon DEF Faults
    <3> QED
      BY <1>0, <1>1, <2>0, <2>7, <3>1, <3>2, Zenon DEF CallInv, Faults
  <2>8. CASE Unlists(t)
    <3>1. Found' = Found
      BY <2>8, MapSame, Zenon DEF Unlists, Keep
    <3> QED
      BY <1>0, <1>1, <2>0, <2>8, <3>1, Zenon DEF CallInv, Unlists, Keep, history
  <2> QED
    BY <2>1, <2>2, <2>3, <2>4, <2>5, <2>6, <2>7, <2>8, Zenon DEF InCall
<1> QED
  BY <1>2, <1>3, <1>4, <1>5, Zenon DEF LooseInv

\* Table and device stay in step.
LEMMA NextLoose == TypeInv /\ RouteInv /\ LooseInv /\ [Next]_vars => LooseInv'
<1> SUFFICES ASSUME TypeInv, RouteInv, LooseInv, [Next]_vars PROVE LooseInv'
  BY Zenon
<1>0. NoOp \notin OpRecords
  BY Zenon DEF NoOp, OpRecords
<1>1. ASSUME NEW t \in Threads, Call(t) PROVE LooseInv'
  BY <1>1, CallEffect, EnterLoose, Zenon
<1>2. ASSUME NEW t \in Threads, ThreadStep(t) PROVE LooseInv'
  <2>1. op[t] \in OpRecords /\ UNCHANGED num_devices /\ (InCall(t) \/ Leaves(t))
    BY <1>2, StepEffect, Zenon
  <2>2. CASE Leaves(t)
    <3>1. Found' = Found
      BY <2>1, <2>2, MapSame, Zenon DEF Leaves, history
    <3> QED
      BY SMTT(30), <1>0, <2>2, <3>1 DEF Leaves, history, LooseInv, CallInv
  <2> QED
    BY <2>1, <2>2, InCallLoose, Zenon
<1>3. CASE AddDevice
  <2>1. Found' = View(num_devices')
    BY <1>3, Zenon DEF AddDevice, Found, View, ShardForKey
  <2>2. \A t \in Threads : op'[t] = NoOp
    BY <1>3, Inside, Zenon DEF AddDevice, TypeInv
  <2>3. \A k \in Keys \ loose' : k \in Keys \ loose /\ Found'[k] = Found[k]
    BY <1>3, <2>1, Zenon DEF AddDevice
  <2> QED
    BY <1>0, <1>3, <2>2, <2>3, Zenon DEF AddDevice, LooseInv
<1>4. CASE Restart
  BY <1>0, <1>4, Zenon DEF Restart, LooseInv
<1>5. CASE UNCHANGED vars
  <2>1. Found' = Found
    BY <1>5, MapSame, Zenon DEF vars
  <2> QED
    BY <1>5, <2>1, Zenon DEF vars, history, LooseInv, CallInv
<1>6. CASE ResetStats
  <2>1. Found' = Found
    BY <1>6, MapSame, Zenon DEF ResetStats
  <2> QED
    BY <1>6, <2>1, Zenon DEF ResetStats, LooseInv, CallInv
<1> QED
  BY <1>1, <1>2, <1>3, <1>4, <1>5, <1>6, Zenon DEF Next, Quiet

-----------------------------------------------------------------------------
(* Lengths.  No value longer than the library allows is ever stored, so the *)
(* length a retrieve learns from the device is one the library allows.     *)

LengthInv ==
    /\ \A d \in Slots, k \in Keys :
        device[d][k] # NoValue => Size[device[d][k]] <= MaxValueLength
    /\ \A t \in Threads : op[t] \in OpRecords =>
        /\ op[t].capacity >= RetrieveSize /\ op[t].capacity <= MaxValueLength
        /\ op[t].kind = "retrieve" =>
            /\ op[t].res # "KVS_ERR_VALUE_LENGTH_INVALID"
            /\ op[t].res \in {"KVS_ERR_BUFFER_SMALL", "KVS_ERR_PARAM_INVALID"} =>
                    op[t].capacity # RetrieveSize

\* Nothing is stored in a new engine.
LEMMA InitLength == Init => LengthInv
<1>1. NoOp \notin OpRecords
  BY Zenon DEF NoOp, OpRecords
<1> SUFFICES ASSUME Init PROVE LengthInv
  BY Zenon
<1>2. \A d \in Slots, k \in Keys : device[d][k] = NoValue
  BY Zenon DEF Init
<1>3. \A t \in Threads : op[t] = NoOp
  BY Zenon DEF Init
<1> QED
  BY <1>1, <1>2, <1>3, Zenon DEF LengthInv

\* A step inside a call stores no value that is too long and asks for no length
\* but RetrieveSize and the length of a stored value.
LEMMA InCallLength ==
    ASSUME TypeInv, LengthInv, NEW t \in Threads, op[t] \in OpRecords, InCall(t)
    PROVE  LengthInv'
<1>0. /\ op[t].key \in Keys /\ op[t].slot \in Slots /\ op[t].capacity \in Nat
      /\ op'[t] \in OpRecords /\ op'[t].kind = op[t].kind
      /\ \A s \in Threads \ {t} : op'[s] = op[s]
  BY Zenon DEF OpRecords, InCall, SameCall
<1>1. \A d \in Slots, k \in Keys :
        device'[d][k] # NoValue => Size[device'[d][k]] <= MaxValueLength
  <2>1. CASE UNCHANGED device
    BY <2>1, Zenon DEF LengthInv
  <2>2. CASE device' = Write(t, op[t].arg) /\ Size[op[t].arg] <= MaxValueLength
    <3>1. op[t].arg \in Values \cup {NoValue}
      BY Zenon DEF OpRecords
    <3>2. \A d \in Slots, k \in Keys : device'[d][k] \in {op[t].arg, device[d][k]}
      BY <1>0, <2>2, <3>1, WriteEffect
    <3> QED
      BY <2>2, <3>2, Zenon DEF LengthInv
  <2>3. CASE device' = Write(t, NoValue)
    <3>1. \A d \in Slots, k \in Keys : device'[d][k] \in {NoValue, device[d][k]}
      BY <1>0, <2>3, WriteEffect
    <3> QED
      BY <3>1, Zenon DEF LengthInv
  <2> QED
    BY <2>1, <2>2, <2>3, Zenon DEF InCall, ToDevice, Retries, Refused, Answered, Stores,
       Removes, Faults, Unlists, Keep
<1>2. /\ op[t].capacity >= RetrieveSize /\ op[t].capacity <= MaxValueLength
      /\ op[t].kind = "retrieve" =>
            /\ op[t].res # "KVS_ERR_VALUE_LENGTH_INVALID"
            /\ op[t].res \in {"KVS_ERR_BUFFER_SMALL", "KVS_ERR_PARAM_INVALID"} =>
                    op[t].capacity # RetrieveSize
  BY Zenon DEF LengthInv
<1>3. /\ op'[t].capacity >= RetrieveSize /\ op'[t].capacity <= MaxValueLength
      /\ op'[t].kind = "retrieve" =>
            /\ op'[t].res # "KVS_ERR_VALUE_LENGTH_INVALID"
            /\ op'[t].res \in {"KVS_ERR_BUFFER_SMALL", "KVS_ERR_PARAM_INVALID"} =>
                    op'[t].capacity # RetrieveSize
  <2>1. CASE ToDevice(t) \/ Unlists(t)
    BY <1>0, <1>2, <2>1, Zenon DEF ToDevice, Unlists
  <2>2. CASE Retries(t)
    <3>1. /\ op'[t].capacity = Size[Stored(t)] /\ op'[t].res = op[t].res
          /\ Stored(t) # NoValue /\ Size[Stored(t)] > op[t].capacity
      BY <2>2, Zenon DEF Retries
    <3>2. Stored(t) \in Values
      BY <1>0, <3>1 DEF TypeInv, Stored
    <3>3. Size[Stored(t)] <= MaxValueLength
      BY <1>0, <3>1, Zenon DEF LengthInv, Stored
    <3> QED
      BY <1>0, <1>2, <3>1, <3>2, <3>3, LengthFacts
  <2>3. CASE Refused(t)
    <3>1. ~(op[t].capacity > MaxValueLength)
      BY <1>0, <1>2, LengthFacts
    <3> QED
      BY <1>0, <1>2, <2>3, <3>1, Zenon DEF Refused
  <2>4. CASE Answered(t) \/ Stores(t) \/ Removes(t)
    BY <1>0, <1>2, <2>4, Zenon DEF Answered, Stores, Removes
  <2>5. CASE Faults(t)
    BY <1>0, <1>2, <2>5, ResultFacts, Zenon DEF Faults
  <2> QED
    BY <2>1, <2>2, <2>3, <2>4, <2>5, Zenon DEF InCall
<1> QED
  BY <1>0, <1>1, <1>3, Zenon DEF LengthInv

\* The lengths are right after every step.
LEMMA NextLength == TypeInv /\ LengthInv /\ [Next]_vars => LengthInv'
<1> SUFFICES ASSUME TypeInv, LengthInv, [Next]_vars PROVE LengthInv'
  BY Zenon
<1>0. NoOp \notin OpRecords
  BY Zenon DEF NoOp, OpRecords
<1>1. ASSUME NEW t \in Threads, Call(t) PROVE LengthInv'
  <2>1. PICK k \in Keys : Enters(t, k)
    BY <1>1, CallEffect, Zenon
  <2>2. \A s \in Threads \ {t} : op'[s] \in OpRecords =>
            /\ op[s] \in OpRecords /\ op'[s].capacity = op[s].capacity
            /\ op'[s].kind = op[s].kind /\ op'[s].res = op[s].res
    BY <2>1, OthersEffect
  <2>3. /\ op'[t].capacity = RetrieveSize /\ op'[t].res = "none" /\ UNCHANGED device
        /\ RetrieveSize >= RetrieveSize /\ RetrieveSize <= MaxValueLength
    BY <2>1, LengthFacts DEF Enters
  <2> QED
    BY <2>2, <2>3, Zenon DEF LengthInv
<1>2. ASSUME NEW t \in Threads, ThreadStep(t) PROVE LengthInv'
  <2>1. op[t] \in OpRecords /\ (InCall(t) \/ Leaves(t))
    BY <1>2, StepEffect, Zenon
  <2>2. CASE Leaves(t)
    BY <1>0, <2>2, Zenon DEF Leaves, LengthInv
  <2> QED
    BY <2>1, <2>2, InCallLength, Zenon
<1>3. CASE UNCHANGED <<device, op>>
  BY <1>3, Zenon DEF LengthInv
<1>4. CASE Restart
  BY <1>0, <1>4, Zenon DEF Restart, LengthInv
<1> QED
  BY <1>1, <1>2, <1>3, <1>4, Zenon DEF Next, Quiet, AddDevice, ResetStats, vars

-----------------------------------------------------------------------------

EngineInv == TypeInv /\ RouteInv /\ LooseInv /\ LengthInv

\* The inductive invariant holds in every reachable state.
THEOREM EngineInvCorrect == Spec => []EngineInv
<1>1. Init => EngineInv
  BY InitType, InitRoute, InitLoose, InitLength, Zenon DEF EngineInv
<1>2. EngineInv /\ [Next]_vars => EngineInv'
  BY NextType, NextRoute, NextLoose, NextLength, Zenon DEF EngineInv
<1> QED
  BY <1>1, <1>2, PTL DEF Spec

\* The second buffer of kv_engine_retrieve is large enough unless another call
\* for the key interferes, and of a length that the library accepts if the first
\* one is as large as it allows, whatever the sizes of the values.
THEOREM SecondAttemptCorrect == Spec => []SecondAttemptSuffices
<1>1. EngineInv => SecondAttemptSuffices
  <2> SUFFICES ASSUME EngineInv, NEW t \in Threads, ~Outside(t), op[t].kind = "retrieve"
               PROVE  /\ op[t].res = "KVS_ERR_BUFFER_SMALL" => ~op[t].alone
                      /\ op[t].res # "KVS_ERR_VALUE_LENGTH_INVALID"
                      /\ op[t].res \in {"KVS_ERR_BUFFER_SMALL", "KVS_ERR_PARAM_INVALID"} =>
                              RetrieveSize < MaxValueLength
    BY Zenon DEF SecondAttemptSuffices
  <2>1. op[t] \in OpRecords
    BY Inside, Zenon DEF EngineInv, TypeInv
  <2>2. CallInv(t) /\ op[t].capacity \in Nat
    BY <2>1, Zenon DEF EngineInv, LooseInv, OpRecords
  <2>3. /\ op[t].capacity >= RetrieveSize /\ op[t].capacity <= MaxValueLength
        /\ op[t].res # "KVS_ERR_VALUE_LENGTH_INVALID"
        /\ op[t].res \in {"KVS_ERR_BUFFER_SMALL", "KVS_ERR_PARAM_INVALID"} =>
                op[t].capacity # RetrieveSize
    BY <2>1, Zenon DEF EngineInv, LengthInv
  <2>4. op[t].capacity # RetrieveSize => RetrieveSize < MaxValueLength
    BY <2>2, <2>3, LengthFacts
  <2> QED
    BY <2>2, <2>3, <2>4, Zenon DEF CallInv
<1> QED
  BY <1>1, EngineInvCorrect, PTL

-----------------------------------------------------------------------------
(* Linearizability: the steps of a call, seen in AtomicKV.                 *)

\* How a caller reads the results.
LEMMA AnswerFacts ==
    /\ \A r : Answer(r) \in {"done", "absent", "present", "error"}
    /\ Answer(Returned("KVS_SUCCESS")) = "done"
    /\ Answer(Returned("KVS_ERR_KEY_NOT_EXIST")) = "absent"
    /\ Answer(Returned("KVS_ERR_VALUE_UPDATE_NOT_ALLOWED")) = "present"
    /\ \A r \in IsDeviceError : Answer(Returned(r)) = "error"
<1>1. \A r : Answer(r) \in {"done", "absent", "present", "error"}
  BY Zenon DEF Answer
<1>2. /\ Returned("KVS_SUCCESS") = "KV_SUCCESS"
      /\ Returned("KVS_ERR_KEY_NOT_EXIST") = "KV_ERR_KEY_NOT_FOUND"
      /\ Returned("KVS_ERR_VALUE_UPDATE_NOT_ALLOWED") = "KV_ERR_KEY_ALREADY_EXISTS"
  BY DEF Returned, map_kvs_result, EngineResults
<1>3. \A r \in IsDeviceError :
        Returned(r) \in {"KV_ERR_IO", "KV_ERR_DEVICE_NOT_FOUND", "KV_ERR_DEVICE_FULL"}
  BY DEF Returned, map_kvs_result, EngineResults, IsDeviceError
<1>4. /\ Answer("KV_SUCCESS") = "done" /\ Answer("KV_ERR_KEY_NOT_FOUND") = "absent"
      /\ Answer("KV_ERR_KEY_ALREADY_EXISTS") = "present"
      /\ Answer("KV_ERR_IO") = "error" /\ Answer("KV_ERR_DEVICE_NOT_FOUND") = "error"
      /\ Answer("KV_ERR_DEVICE_FULL") = "error"
  BY DEF Answer
<1> QED
  BY <1>1, <1>2, <1>3, <1>4, Zenon

\* The fields of the image of a call.
LEMMA ImageFields ==
    ASSUME NEW r \in OpRecords
    PROVE  LET c == AbstractOp(r)
           IN  /\ c \in AKV!CallRecords /\ c # AKV!NoCall
               /\ c.phase = IF r.pc \in {"table", "device"} THEN "pending" ELSE "applied"
               /\ c.kind = r.kind /\ c.key = r.key /\ c.arg = r.arg /\ c.flag = r.flag
               /\ c.alone = r.alone /\ c.out = r.out /\ c.answer = Answer(Returned(r.res))
<1>1. r.pc # "idle"
  BY Zenon DEF OpRecords
<1>2. AbstractOp(r) =
        [phase |-> IF r.pc \in {"table", "device"} THEN "pending" ELSE "applied",
         kind |-> r.kind, key |-> r.key, arg |-> r.arg, flag |-> r.flag,
         alone |-> r.alone, out |-> r.out, answer |-> Answer(Returned(r.res))]
  BY <1>1, Zenon DEF AbstractOp
<1>3. AbstractOp(r) \in AKV!CallRecords
  <2>1. Answer(Returned(r.res)) \in {"done", "absent", "present", "error"}
    BY AnswerFacts, Zenon
  <2> QED
    BY SMTT(30), <1>2, <2>1 DEF OpRecords, AKV!CallRecords, AKV!Kinds, Kinds
<1>4. AbstractOp(r).phase # "idle"
  BY <1>2
<1>5. AbstractOp(r) # AKV!NoCall
  BY <1>4 DEF AKV!NoCall
<1> QED
  BY <1>2, <1>3, <1>5

\* Calls with the same fields are the same.
LEMMA SameRecord ==
    ASSUME NEW x \in AKV!CallRecords, NEW y \in AKV!CallRecords,
           x.phase = y.phase, x.kind = y.kind, x.key = y.key, x.arg = y.arg,
           x.flag = y.flag, x.alone = y.alone, x.out = y.out, x.answer = y.answer
    PROVE  x = y
BY DEF AKV!CallRecords

\* A step that takes a call from pending to applied.
LEMMA ImageApplied ==
    ASSUME NEW r \in OpRecords, NEW q \in OpRecords,
           r.pc \in {"table", "device"}, q.pc \in {"unlist", "stats", "done"},
           q.kind = r.kind, q.key = r.key, q.arg = r.arg, q.flag = r.flag,
           q.alone = r.alone
    PROVE  AbstractOp(q) = [AbstractOp(r) EXCEPT !.phase = "applied",
                                !.answer = Answer(Returned(q.res)), !.out = q.out]
<1>0. PICK answer \in {"done", "absent", "present", "error"} : answer = Answer(Returned(q.res))
  BY AnswerFacts, Zenon
<1> DEFINE c == AbstractOp(r)
           y == [c EXCEPT !.phase = "applied", !.answer = answer, !.out = q.out]
<1>1. c \in AKV!CallRecords /\ q.out \in Values \cup {NoValue}
  BY ImageFields, Zenon DEF OpRecords
<1>2. /\ c.kind = r.kind /\ c.key = r.key /\ c.arg = r.arg /\ c.flag = r.flag
      /\ c.alone = r.alone
  BY ImageFields, Zenon
<1>3. LET d == AbstractOp(q)
      IN  /\ d \in AKV!CallRecords /\ d.phase = "applied"
          /\ d.kind = q.kind /\ d.key = q.key /\ d.arg = q.arg /\ d.flag = q.flag
          /\ d.alone = q.alone /\ d.out = q.out /\ d.answer = answer
  BY <1>0, ImageFields, Zenon
<1> HIDE DEF c
<1>4. /\ y \in AKV!CallRecords
      /\ y.phase = "applied" /\ y.kind = c.kind /\ y.key = c.key
      /\ y.arg = c.arg /\ y.flag = c.flag /\ y.alone = c.alone
      /\ y.answer = answer /\ y.out = q.out
  BY <1>1, Zenon DEF AKV!CallRecords
<1> HIDE DEF y
<1>5. AbstractOp(q) = y
  BY SMTT(30), <1>2, <1>3, <1>4, SameRecord
<1> QED
  BY <1>0, <1>5, Zenon DEF y, c

\* A step with which a call fails and has no answer.
LEMMA ImageFailed ==
    ASSUME NEW r \in OpRecords, NEW q \in OpRecords,
           NEW answer \in {"done", "absent", "present", "error"}, answer = "error",
           r.pc \in {"table", "device"}, q.pc \in {"unlist", "stats", "done"},
           q.kind = r.kind, q.key = r.key, q.arg = r.arg, q.flag = r.flag,
           q.alone = r.alone, q.out = r.out, answer = Answer(Returned(q.res))
    PROVE  AbstractOp(q) = [AbstractOp(r) EXCEPT !.phase = "applied", !.answer = answer]
<1> DEFINE c == AbstractOp(r)
           y == [c EXCEPT !.phase = "applied", !.answer = answer]
<1>1. /\ c \in AKV!CallRecords /\ c.kind = r.kind /\ c.key = r.key /\ c.arg = r.arg
      /\ c.flag = r.flag /\ c.alone = r.alone /\ c.out = r.out
  BY ImageFields, Zenon
<1>2. LET d == AbstractOp(q)
      IN  /\ d \in AKV!CallRecords /\ d.phase = "applied"
          /\ d.kind = q.kind /\ d.key = q.key /\ d.arg = q.arg /\ d.flag = q.flag
          /\ d.alone = q.alone /\ d.out = q.out /\ d.answer = answer
  BY ImageFields, Zenon
<1> HIDE DEF c
<1>3. /\ y \in AKV!CallRecords
      /\ y.phase = "applied" /\ y.kind = c.kind /\ y.key = c.key
      /\ y.arg = c.arg /\ y.flag = c.flag /\ y.alone = c.alone
      /\ y.answer = answer /\ y.out = c.out
  BY <1>1, Zenon DEF AKV!CallRecords
<1> HIDE DEF y
<1>4. AbstractOp(q) = y
  BY SMTT(30), <1>1, <1>2, <1>3, SameRecord
<1> QED
  BY <1>4, Zenon DEF y, c

\* The other call for a key begins.
LEMMA ImageJoined ==
    ASSUME NEW r \in OpRecords, NEW q \in OpRecords, NEW no \in BOOLEAN, no = FALSE,
           q.pc = r.pc, q.kind = r.kind, q.key = r.key, q.arg = r.arg, q.flag = r.flag,
           q.alone = no, q.out = r.out, q.res = r.res
    PROVE  AbstractOp(q) = [AbstractOp(r) EXCEPT !.alone = no]
<1> DEFINE c == AbstractOp(r)
           d == AbstractOp(q)
           y == [c EXCEPT !.alone = no]
<1>1. /\ c \in AKV!CallRecords /\ d \in AKV!CallRecords
      /\ d.phase = c.phase /\ d.kind = c.kind /\ d.key = c.key /\ d.arg = c.arg
      /\ d.flag = c.flag /\ d.alone = no /\ d.out = c.out /\ d.answer = c.answer
  BY ImageFields
<1> HIDE DEF c, d
<1>2. /\ y \in AKV!CallRecords
      /\ y.phase = c.phase /\ y.kind = c.kind /\ y.key = c.key
      /\ y.arg = c.arg /\ y.flag = c.flag /\ y.alone = no
      /\ y.answer = c.answer /\ y.out = c.out
  BY <1>1, Zenon DEF AKV!CallRecords
<1> HIDE DEF y
<1>3. d = y
  BY <1>1, <1>2, SameRecord
<1> QED
  BY <1>3, Zenon DEF y, c, d

\* A step that AtomicKV does not see.
LEMMA ImageSame ==
    ASSUME NEW r \in OpRecords, NEW q \in OpRecords,
           r.pc \in {"table", "device"} <=> q.pc \in {"table", "device"},
           q.kind = r.kind, q.key = r.key, q.arg = r.arg, q.flag = r.flag,
           q.alone = r.alone, q.out = r.out, q.res = r.res
    PROVE  AbstractOp(q) = AbstractOp(r)
<1>1. r.pc # "idle" /\ q.pc # "idle"
  BY Zenon DEF OpRecords
<1> QED
  BY <1>1, Zenon DEF AbstractOp

\* The calls as AtomicKV sees them after a step of one of them.
LEMMA CallsAfter ==
    ASSUME TypeInv, NEW t \in Threads, op' \in [Threads -> OpRecords \cup {NoOp}],
           \A s \in Threads \ {t} : op'[s] = op[s]
    PROVE  /\ AbstractCall[t] = AbstractOp(op[t])
           /\ AbstractCall' = [AbstractCall EXCEPT ![t] = AbstractOp(op'[t])]
<1>1. AbstractCall' = [s \in Threads |-> AbstractOp(op'[s])]
  BY Zenon DEF AbstractCall, AbstractOp
<1>2. AbstractCall = [s \in Threads |-> AbstractOp(op[s])]
  BY Zenon DEF AbstractCall
<1> QED
  BY <1>1, <1>2, Zenon

\* What the call finds is the same in both.
LEMMA FoundFacts ==
    ASSUME TypeInv, RouteInv, NEW t \in Threads, op[t] \in OpRecords
    PROVE  AKV!Found(op[t].key) = Stored(t)
<1>1. num_devices \in 1 .. MaxDevices /\ op[t].key \in Keys
  BY Zenon DEF TypeInv, OpRecords
<1>2. AbstractMap[num_devices] = Found
  BY <1>1, Zenon DEF AbstractMap, Found
<1> QED
  BY <1>2, MapFacts, Zenon DEF AKV!Found

\* The maps stay the same if the devices do.
LEMMA MapsSame ==
    ASSUME UNCHANGED device
    PROVE  AbstractMap' = AbstractMap
BY Zenon DEF AbstractMap, View, ShardForKey

\* A write to a device is the effect of the call for all the numbers of devices
\* that route the key there, the number in use among them.
LEMMA WriteApplies ==
    ASSUME TypeInv, RouteInv, NEW t \in Threads, op[t] \in OpRecords,
           NEW v \in Values \cup {NoValue}, device' = Write(t, v), UNCHANGED num_devices,
           NEW c, c.key = op[t].key, v = IF c.kind = "store" THEN c.arg ELSE NoValue
    PROVE  AKV!Effect(c)
<1> DEFINE S == {n \in 1 .. MaxDevices : ShardForKey(op[t].key, n) = op[t].slot}
<1>1. S \in SUBSET (1 .. MaxDevices) /\ num_devices \in S
  BY Zenon DEF TypeInv, RouteInv
<1>2. \A n \in 1 .. MaxDevices :
        View(n)' = IF n \in S THEN [AbstractMap[n] EXCEPT ![c.key] = v] ELSE AbstractMap[n]
  <2>1. \A n \in 1 .. MaxDevices : AbstractMap[n] = View(n)
    BY Zenon DEF AbstractMap
  <2> TAKE n \in 1 .. MaxDevices
  <2>2. View(n)' = IF ShardForKey(op[t].key, n) = op[t].slot
                   THEN [View(n) EXCEPT ![op[t].key] = v] ELSE View(n)
    BY ViewWrite, Zenon
  <2> QED
    BY <2>1, <2>2, Zenon
<1>3. AbstractMap' = [n \in 1 .. MaxDevices |-> View(n)']
  BY Zenon DEF AbstractMap, View, ShardForKey
<1> HIDE DEF S
<1>4. AbstractMap' = [n \in 1 .. MaxDevices |->
                        IF n \in S THEN [AbstractMap[n] EXCEPT ![c.key] = v]
                        ELSE AbstractMap[n]]
  BY <1>2, <1>3, Zenon
<1> QED
  BY <1>1, <1>4, Zenon DEF AKV!Effect

\* Stores, Removes and Answered are the instant at which a call takes effect;
\* ExistsDevice relies on LooseInv here.
LEMMA StepApplies ==
    ASSUME EngineInv, NEW t \in Threads, op[t] \in OpRecords, SameCall(t),
           UNCHANGED num_devices, Stores(t) \/ Removes(t) \/ Answered(t)
    PROVE  AKV!Apply(t)
<1> DEFINE c == AbstractCall[t]
<1>0. /\ TypeInv /\ RouteInv /\ LooseInv /\ CallInv(t)
      /\ op[t].key \in Keys /\ op[t].arg \in Values \cup {NoValue}
      /\ op[t].kind \in Kinds /\ op[t].flag \in BOOLEAN /\ op[t].alone \in BOOLEAN
      /\ op[t].listed \in BOOLEAN
      /\ op'[t] \in OpRecords /\ op'[t].out \in Values \cup {NoValue}
  BY Zenon DEF EngineInv, LooseInv, OpRecords, SameCall
<1>1. /\ c.phase = "pending" /\ c.kind = op[t].kind /\ c.key = op[t].key
      /\ c.arg = op[t].arg /\ c.flag = op[t].flag /\ c.alone = op[t].alone
  <2>1. op[t].pc = "device"
    BY Zenon DEF Stores, Removes, Answered
  <2>2. c = AbstractOp(op[t])
    BY Zenon DEF AbstractCall
  <2>3. /\ AbstractOp(op[t]).phase =
             IF op[t].pc \in {"table", "device"} THEN "pending" ELSE "applied"
        /\ AbstractOp(op[t]).kind = op[t].kind /\ AbstractOp(op[t]).key = op[t].key
        /\ AbstractOp(op[t]).arg = op[t].arg /\ AbstractOp(op[t]).flag = op[t].flag
        /\ AbstractOp(op[t]).alone = op[t].alone
    BY ImageFields, Zenon
  <2> QED
    BY <2>1, <2>2, <2>3, Zenon
<1>2. AKV!Found(c.key) = Stored(t) /\ Stored(t) = Found[op[t].key]
  BY <1>0, <1>1, FoundFacts, MapFacts, Zenon
<1>3. Answer(Returned(op'[t].res)) = AKV!Answer(c)
  <2>1. CASE AKV!Succeeds(c)
    <3>1. op'[t].res = "KVS_SUCCESS"
      BY <1>1, <1>2, <2>1, Zenon DEF AKV!Succeeds, Stores, Removes, Answered
    <3> QED
      BY <2>1, <3>1, AnswerFacts, Zenon DEF AKV!Answer
  <2>2. CASE ~AKV!Succeeds(c)
    <3>1. \/ c.kind = "store" /\ op'[t].res = "KVS_ERR_VALUE_UPDATE_NOT_ALLOWED"
          \/ c.kind # "store" /\ op'[t].res = "KVS_ERR_KEY_NOT_EXIST"
      BY <1>1, <1>2, <2>2, Zenon DEF AKV!Succeeds, Stores, Removes, Answered
    <3> QED
      BY <2>2, <3>1, AnswerFacts, Zenon DEF AKV!Answer
  <2> QED
    BY <2>1, <2>2, Zenon
<1>4. AbstractCall' = [AbstractCall EXCEPT ![t] =
          [c EXCEPT !.phase = "applied", !.answer = AKV!Answer(c), !.out = op'[t].out]]
  <2>1. op[t].pc = "device" /\ op'[t].pc \in {"unlist", "stats", "done"}
    BY Zenon DEF Stores, Removes, Answered
  <2>2. AbstractOp(op'[t]) = [AbstractOp(op[t]) EXCEPT !.phase = "applied",
                                !.answer = AKV!Answer(c), !.out = op'[t].out]
    <3>1. AbstractOp(op'[t]) = [AbstractOp(op[t]) EXCEPT !.phase = "applied",
                                  !.answer = Answer(Returned(op'[t].res)), !.out = op'[t].out]
      BY <1>0, <2>1, ImageApplied, Zenon DEF SameCall
    <3> QED
      BY <1>3, <3>1, Zenon
  <2>3. c = AbstractOp(op[t]) /\ AbstractCall' = [AbstractCall EXCEPT ![t] = AbstractOp(op'[t])]
    BY <1>0, CallsAfter, Zenon DEF SameCall
  <2> QED
    BY <2>2, <2>3, Zenon
<1>5. AKV!Updates(c) <=> Stores(t) \/ Removes(t)
  BY <1>1, <1>2, Zenon DEF AKV!Updates, AKV!Succeeds, AKV!Removes, Stores, Removes, Answered
<1>6. IF AKV!Updates(c) THEN AKV!Effect(c) ELSE UNCHANGED AbstractMap
  <2>1. CASE Stores(t)
    <3>1. device' = Write(t, op[t].arg) /\ op[t].arg = IF c.kind = "store" THEN c.arg ELSE NoValue
      BY <1>1, <2>1, Zenon DEF Stores
    <3>2. AKV!Effect(c)
      BY <1>0, <1>1, <3>1, WriteApplies, Zenon
    <3> QED
      BY <1>5, <2>1, <3>2, Zenon
  <2>2. CASE Removes(t)
    <3>1. device' = Write(t, NoValue) /\ NoValue = IF c.kind = "store" THEN c.arg ELSE NoValue
      BY <1>1, <2>2, Zenon DEF Removes
    <3>2. AKV!Effect(c)
      BY <1>0, <1>1, <3>1, WriteApplies, Zenon
    <3> QED
      BY <1>5, <2>2, <3>2, Zenon
  <2>3. CASE Answered(t) /\ ~Stores(t) /\ ~Removes(t)
    BY <1>5, <2>3, MapsSame, Zenon DEF Answered, Keep
  <2> QED
    BY <2>1, <2>2, <2>3, Zenon
<1>7. op'[t].out \in AKV!Outs(c)
  <2>1. CASE op[t].kind = "exists"
    <3>1. /\ op'[t].out = IF op[t].listed THEN Stored(t) ELSE NoValue
          /\ op[t].pc = "device"
      BY <2>1, Zenon DEF Stores, Removes, Answered
    <3>2. ~op[t].listed /\ op[t].key \notin loose => Stored(t) = NoValue
      BY <1>0, <1>2, <2>1, <3>1, Zenon DEF CallInv, LooseInv
    <3>3. op'[t].out \in {AKV!Found(c.key)} \cup {v \in {NoValue} : c.key \in loose}
      BY <1>1, <1>2, <3>1, <3>2, Zenon
    <3> QED
      BY <1>1, <2>1, <3>3, Zenon DEF AKV!Outs
  <2>2. CASE op[t].kind = "retrieve"
    <3>1. op'[t].out = Stored(t)
      BY <2>2, Zenon DEF Stores, Removes, Answered
    <3> QED
      BY <1>1, <1>2, <2>2, <3>1, Zenon DEF AKV!Outs
  <2>3. CASE op[t].kind \notin {"exists", "retrieve"}
    <3>1. op'[t].out = NoValue
      BY <2>3, Zenon DEF Stores, Removes, Answered
    <3> QED
      BY <1>1, <2>3, <3>1, Zenon DEF AKV!Outs
  <2> QED
    BY <2>1, <2>2, <2>3, Zenon
<1>8. \/ AKV!Updates(c) /\ c.alone /\ loose' = loose \ {c.key}
      \/ AKV!Updates(c) /\ c.kind = "store" /\ loose' = loose \cup {c.key}
      \/ ~(AKV!Updates(c) /\ c.alone) /\ loose' = loose
  <2>1. CASE Stores(t)
    BY <1>0, <1>1, <1>5, <2>1, Zenon DEF Stores, Settle
  <2>2. CASE Removes(t)
    BY <1>0, <1>1, <1>5, <2>2, Zenon DEF Removes, Settle
  <2>3. CASE Answered(t) /\ ~Stores(t) /\ ~Removes(t)
    BY <1>5, <2>3, Zenon DEF Answered, Keep, history
  <2> QED
    BY <2>1, <2>2, <2>3, Zenon
<1> QED
  BY <1>1, <1>4, <1>6, <1>7, <1>8, Zenon DEF AKV!Apply

\* Refused and Faults: the call fails, with or without its effect.
LEMMA StepFails ==
    ASSUME EngineInv, NEW t \in Threads, op[t] \in OpRecords, SameCall(t),
           UNCHANGED num_devices, Refused(t) \/ Faults(t)
    PROVE  AKV!Fail(t)
<1> DEFINE c == AbstractCall[t]
<1>0. /\ TypeInv /\ RouteInv /\ LooseInv /\ CallInv(t)
      /\ op[t].key \in Keys /\ op[t].arg \in Values \cup {NoValue}
      /\ op'[t] \in OpRecords
  BY Zenon DEF EngineInv, LooseInv, OpRecords, SameCall
<1>1. /\ op[t].pc \in {"table", "device"} /\ op'[t].pc \in {"unlist", "stats", "done"}
      /\ "error" = Answer(Returned(op'[t].res)) /\ op'[t].out = op[t].out
  BY <1>0, AnswerFacts, Zenon DEF Refused, Failed, Faults, CallInv
<1>2. /\ c.phase = "pending" /\ c.kind = op[t].kind /\ c.key = op[t].key
      /\ c.arg = op[t].arg /\ c.flag = op[t].flag
  BY SMTT(30), <1>0, <1>1, ImageFields, CallsAfter DEF SameCall
<1>3. AbstractCall' = [AbstractCall EXCEPT ![t] =
                          [c EXCEPT !.phase = "applied", !.answer = "error"]]
  <2>1. AbstractOp(op'[t]) = [AbstractOp(op[t]) EXCEPT !.phase = "applied", !.answer = "error"]
    BY <1>0, <1>1, ImageFailed, Zenon DEF SameCall
  <2>2. c = AbstractOp(op[t]) /\ AbstractCall' = [AbstractCall EXCEPT ![t] = AbstractOp(op'[t])]
    BY <1>0, CallsAfter, Zenon DEF SameCall
  <2> QED
    BY <2>1, <2>2, Zenon
<1>4. AKV!Found(c.key) = Stored(t)
  BY <1>0, <1>2, FoundFacts, Zenon
<1>5. UNCHANGED AbstractMap \/ (AKV!Updates(c) /\ AKV!Effect(c))
  <2>1. CASE UNCHANGED device
    BY <2>1, MapsSame, Zenon
  <2>2. CASE /\ op[t].kind = "store" /\ (op[t].flag \/ Stored(t) = NoValue)
             /\ device' = Write(t, op[t].arg)
    <3>1. AKV!Updates(c) /\ op[t].arg = IF c.kind = "store" THEN c.arg ELSE NoValue
      BY <1>2, <1>4, <2>2, Zenon DEF AKV!Updates, AKV!Succeeds
    <3> QED
      BY <1>0, <1>2, <2>2, <3>1, WriteApplies, Zenon
  <2>3. CASE /\ op[t].kind = "delete" \/ (op[t].kind = "retrieve" /\ op[t].flag)
             /\ device' = Write(t, NoValue)
    <3>1. CASE AKV!Updates(c)
      <4>1. NoValue = IF c.kind = "store" THEN c.arg ELSE NoValue
        BY <1>2, <2>3, Zenon
      <4> QED
        BY <1>0, <1>2, <2>3, <3>1, <4>1, WriteApplies, Zenon
    <3>2. CASE ~AKV!Updates(c)
      <4>1. Stored(t) = NoValue
        BY <1>2, <1>4, <2>3, <3>2, Zenon DEF AKV!Updates, AKV!Succeeds, AKV!Removes
      <4>2. op[t].slot \in Slots
        BY Zenon DEF OpRecords
      <4>3. device' = device
        BY <1>0, <2>3, <4>1, <4>2 DEF Write, Stored, TypeInv
      <4> QED
        BY <4>3, MapsSame, Zenon
    <3> QED
      BY <3>1, <3>2, Zenon
  <2> QED
    BY <2>1, <2>2, <2>3, Zenon DEF Refused, Faults, Keep
<1>6. loose' \in {loose, loose \cup {c.key}}
  BY <1>2, Zenon DEF Refused, Faults, Keep, history
<1> QED
  BY <1>2, <1>3, <1>5, <1>6, Zenon DEF AKV!Fail

\* The other steps inside a call are invisible.
LEMMA StepInvisible ==
    ASSUME EngineInv, NEW t \in Threads, op[t] \in OpRecords, SameCall(t),
           UNCHANGED num_devices, ToDevice(t) \/ Retries(t) \/ Unlists(t)
    PROVE  UNCHANGED <<AbstractMap, num_devices, AbstractCall, loose>>
<1>1. AbstractMap' = AbstractMap /\ loose' = loose
  BY MapsSame, Zenon DEF ToDevice, Retries, Unlists, Keep, history
<1>2. AbstractOp(op'[t]) = AbstractOp(op[t])
  BY ImageSame, Zenon DEF SameCall, ToDevice, Retries, Unlists
<1>3. /\ AbstractCall[t] = AbstractOp(op[t])
      /\ AbstractCall' = [AbstractCall EXCEPT ![t] = AbstractOp(op'[t])]
  BY CallsAfter, Zenon DEF EngineInv, SameCall
<1>4. AbstractCall' = AbstractCall
  BY <1>2, <1>3, Zenon DEF AbstractCall
<1> QED
  BY <1>1, <1>4, Zenon

\* A return is a return.
LEMMA StepReturns ==
    ASSUME EngineInv, NEW t \in Threads, op[t] \in OpRecords, Leaves(t),
           UNCHANGED num_devices
    PROVE  AKV!Return(t)
<1>1. /\ AbstractCall[t] = AbstractOp(op[t])
      /\ AbstractCall' = [AbstractCall EXCEPT ![t] = AbstractOp(op'[t])]
  BY CallsAfter, Zenon DEF EngineInv, Leaves
<1>2. AbstractCall[t].phase = "applied"
  BY <1>1, ImageFields, Zenon DEF Leaves
<1>3. AbstractOp(op'[t]) = AKV!NoCall
  BY SMTT(30) DEF Leaves, NoOp, AbstractOp, AKV!NoCall
<1>4. AbstractMap' = AbstractMap /\ loose' = loose
  BY MapsSame, Zenon DEF Leaves, history
<1> QED
  BY <1>1, <1>2, <1>3, <1>4, Zenon DEF AKV!Return

\* A call of the engine is an invocation.
LEMMA StepInvokes ==
    ASSUME EngineInv, NEW t \in Threads, NEW k \in Keys, Enters(t, k)
    PROVE  AKV!Invoke(t)
<1>0. /\ TypeInv /\ op \in [Threads -> OpRecords \cup {NoOp}]
      /\ op[t] = NoOp /\ op'[t] \in OpRecords /\ NoOp \notin OpRecords
      /\ \A s \in Threads : op[s] \in OpRecords \/ op[s] = NoOp
  BY DEF EngineInv, TypeInv, Enters, NoOp, OpRecords
<1>1. AbstractOp(NoOp) = AKV!NoCall
  BY Zenon DEF NoOp, AbstractOp, AKV!NoCall
<1>2. AbstractCall' = [s \in Threads |-> AbstractOp(op'[s])]
  BY Zenon DEF AbstractCall, AbstractOp
<1>3. \A s \in Threads : AbstractCall[s] = AbstractOp(op[s])
  BY Zenon DEF AbstractCall
<1>4. \A s \in Threads : s \in AKV!Users(k) <=> op[s] \in OpRecords /\ op[s].key = k
  <2>1. \A s \in Threads : op[s] \in OpRecords =>
            AbstractCall[s] # AKV!NoCall /\ AbstractCall[s].key = op[s].key
    BY <1>3, ImageFields
  <2>2. \A s \in Threads : op[s] \notin OpRecords => AbstractCall[s] = AKV!NoCall
    BY <1>0, <1>1, <1>3, Zenon
  <2> QED
    BY <2>1, <2>2, Zenon DEF AKV!Users
<1>5. AKV!Users(k) = {} <=> k \notin KeysInUse
  <2>1. k \in KeysInUse <=> \E s \in Threads : op[s] \in OpRecords /\ op[s].key = k
    BY <1>0, Inside, Zenon DEF KeysInUse
  <2>2. AKV!Users(k) \subseteq Threads
    BY Zenon DEF AKV!Users
  <2> QED
    BY <1>4, <2>1, <2>2, Zenon
<1> DEFINE c == AbstractCall'[t]
<1>6. /\ c = AbstractOp(op'[t]) /\ c \in AKV!CallRecords /\ c.phase = "pending"
      /\ c.key = k /\ c.alone = (k \notin KeysInUse)
  <2>1. op'[t].pc \in {"table", "device"} /\ op'[t].key = k
        /\ op'[t].alone = (k \notin KeysInUse)
    BY Zenon DEF Enters
  <2> QED
    BY <1>0, <1>2, <2>1, ImageFields
<1>7. ASSUME NEW s \in Threads \ {t}
      PROVE  AbstractOp(op'[s]) = IF s \in AKV!Users(k)
                                  THEN [AbstractCall[s] EXCEPT !.alone = FALSE]
                                  ELSE AbstractCall[s]
  <2>1. CASE op[s] \in OpRecords /\ op[s].key = k
    <3>1. /\ op'[s] \in OpRecords /\ op'[s].pc = op[s].pc /\ op'[s].kind = op[s].kind
          /\ op'[s].key = op[s].key /\ op'[s].arg = op[s].arg
          /\ op'[s].flag = op[s].flag /\ op'[s].res = op[s].res /\ op'[s].out = op[s].out
      BY SMTT(30), <1>0, <2>1, OthersEffect
    <3>2. op'[s].alone = FALSE
      <4>1. op'[s] = [op[s] EXCEPT !.alone = FALSE]
        BY <2>1, Zenon DEF Enters
      <4> QED
        BY <2>1, <4>1, Zenon DEF OpRecords
    <3>3. AbstractOp(op'[s]) = [AbstractOp(op[s]) EXCEPT !.alone = FALSE]
      BY <2>1, <3>1, <3>2, ImageJoined, Zenon
    <3> QED
      BY <1>3, <1>4, <2>1, <3>3, Zenon
  <2>2. CASE ~(op[s] \in OpRecords /\ op[s].key = k)
    BY <1>3, <1>4, <2>2 DEF Enters
  <2> QED
    BY <2>1, <2>2, Zenon
<1>8. AbstractCall' = [s \in Threads |->
                        IF s = t THEN c
                        ELSE IF s \in AKV!Users(c.key)
                             THEN [AbstractCall[s] EXCEPT !.alone = FALSE]
                             ELSE AbstractCall[s]]
  BY <1>2, <1>6, <1>7, Zenon
<1>9. AbstractMap' = AbstractMap
  BY MapsSame, Zenon DEF Enters
<1>10. AbstractCall[t] = AKV!NoCall
  BY <1>0, <1>1, <1>3, Zenon
<1>11. c.alone = (AKV!Users(c.key) = {})
  BY <1>5, <1>6, Zenon
<1>12. loose' = IF c.alone THEN loose ELSE loose \cup {c.key}
  BY <1>6, ZenonT(60) DEF Enters
<1> QED
  BY <1>6, <1>8, <1>9, <1>10, <1>11, <1>12, Zenon DEF AKV!Invoke, Enters

\* Every step of the engine is a step of AtomicKV, or none.
LEMMA RefineNext == EngineInv /\ [Next]_vars => [AKV!Next]_(AKV!kvVars)
<1> SUFFICES ASSUME EngineInv, [Next]_vars PROVE AKV!Next \/ UNCHANGED AKV!kvVars
  BY Zenon
<1>0. TypeInv /\ RouteInv
  BY Zenon DEF EngineInv
<1>1. ASSUME NEW t \in Threads, Call(t) PROVE AKV!Next
  BY <1>0, <1>1, CallEffect, StepInvokes, Zenon DEF AKV!Next
<1>2. ASSUME NEW t \in Threads, ThreadStep(t) PROVE AKV!Next \/ UNCHANGED AKV!kvVars
  <2>1. op[t] \in OpRecords /\ UNCHANGED num_devices /\ (InCall(t) \/ Leaves(t))
    BY <1>0, <1>2, StepEffect, Zenon
  <2>2. CASE Leaves(t)
    BY <2>1, <2>2, StepReturns, Zenon DEF AKV!Next
  <2>3. CASE InCall(t)
    <3>1. AKV!Apply(t) \/ AKV!Fail(t) \/ UNCHANGED <<AbstractMap, num_devices, AbstractCall, loose>>
      BY <2>1, <2>3, StepApplies, StepFails, StepInvisible, Zenon DEF InCall
    <3> QED
      BY <3>1, Zenon DEF AKV!Next, AKV!kvVars
  <2> QED
    BY <2>1, <2>2, <2>3, Zenon
<1>3. CASE AddDevice
  <2>1. AbstractMap' = AbstractMap
    BY <1>3, MapsSame, Zenon DEF AddDevice
  <2>2. AbstractCall' = AbstractCall /\ \A t \in Threads : AbstractCall[t] = AKV!NoCall
    BY <1>3 DEF AddDevice, Outside, AbstractCall, AbstractOp, AKV!NoCall
  <2>3. num_devices' \in 1 .. MaxDevices /\ num_devices \in 1 .. MaxDevices
    BY <1>0, <1>3, EngineAssumption DEF AddDevice, TypeInv
  <2>4. AbstractMap[num_devices'] = View(num_devices') /\ AbstractMap[num_devices] = Found
    BY <2>3, Zenon DEF AbstractMap, Found
  <2>5. loose' = loose \cup {k \in Keys : AbstractMap[num_devices'][k] # AKV!Found(k)}
    BY <1>3, <2>4, Zenon DEF AddDevice, AKV!Found
  <2> QED
    BY <2>1, <2>2, <2>3, <2>5, Zenon DEF AKV!Next, AKV!AddDevice
<1>4. CASE Restart
  <2>1. AbstractMap' = AbstractMap
    BY <1>4, MapsSame, Zenon DEF Restart
  <2>2. AbstractCall' = [t \in Threads |-> AKV!NoCall]
    BY <1>4, Zenon DEF Restart, AbstractCall, AbstractOp, NoOp, AKV!NoCall
  <2> QED
    BY <1>4, <2>1, <2>2, Zenon DEF Restart, AKV!Next, AKV!Crash
<1>5. CASE UNCHANGED <<num_devices, device, op, loose>>
  <2>1. AbstractMap' = AbstractMap
    BY <1>5, MapsSame, Zenon
  <2>2. AbstractCall' = AbstractCall
    BY <1>5 DEF AbstractCall, AbstractOp
  <2> QED
    BY <1>5, <2>1, <2>2, Zenon DEF AKV!kvVars
<1> QED
  BY <1>1, <1>2, <1>3, <1>4, <1>5, Zenon DEF Next, ResetStats, Quiet, vars, history

\* An empty engine is an empty map.
LEMMA RefineInit == Init => AKV!Init
<1> SUFFICES ASSUME Init PROVE AKV!Init
  BY Zenon
<1>1. \A n \in 1 .. MaxDevices : View(n) = [k \in Keys |-> NoValue]
  BY ShardInRange, Zenon DEF Init, View
<1>2. AbstractMap = [n \in 1 .. MaxDevices |-> [k \in Keys |-> NoValue]]
  BY <1>1, Zenon DEF AbstractMap
<1>3. AbstractCall = [t \in Threads |-> AKV!NoCall]
  BY Zenon DEF Init, AbstractCall, AbstractOp, NoOp, AKV!NoCall
<1>4. num_devices \in 1 .. MaxDevices
  BY InitType, Zenon DEF TypeInv
<1> QED
  BY <1>2, <1>3, <1>4, Zenon DEF Init, AKV!Init

\* kv_engine_store, retrieve, delete and exists are linearizable, for any number
\* of threads, keys and devices and any hash, with faults, added devices and restarts.
THEOREM LinearizableCorrect == Spec => Linearizable
<1> QED
  BY RefineInit, RefineNext, EngineInvCorrect, PTL DEF Spec, Linearizable, AKV!Spec

-----------------------------------------------------------------------------
(* The write counter that guards kv_engine_add_device: a call counts at    *)
(* most once, when it returns.                                             *)

INSTANCE FiniteSetTheorems

InProgress == {t \in Threads : op[t] \in OpRecords}

CountInv ==
    /\ calls \in 0 .. MaxCalls /\ restarts \in 0 .. MaxRestarts
    /\ IsFiniteSet(InProgress)
    /\ write_ops + Cardinality(InProgress) <= calls

\* No call has been made.
LEMMA InitCount == Init => CountInv
<1> SUFFICES ASSUME Init PROVE CountInv
  BY Zenon
<1>1. InProgress = {}
  BY Zenon DEF Init, InProgress, NoOp, OpRecords
<1>2. IsFiniteSet(InProgress) /\ Cardinality(InProgress) = 0
  BY <1>1, FS_EmptySet, Zenon
<1>3. MaxCalls \in Nat /\ MaxRestarts \in Nat
  BY EngineAssumption
<1> QED
  BY <1>2, <1>3 DEF Init, CountInv

\* A call begins with calls, and is counted as a write when it is over.
LEMMA NextCount == TypeInv /\ CountInv /\ [Next]_vars => CountInv'
<1> SUFFICES ASSUME TypeInv, CountInv, [Next]_vars PROVE CountInv'
  BY ZenonT(60)
<1>0. NoOp \notin OpRecords /\ op \in [Threads -> OpRecords \cup {NoOp}]
  BY Zenon DEF NoOp, OpRecords, TypeInv
<1>1. PICK n \in Nat : n = Cardinality(InProgress)
  BY FS_CardinalityType, Zenon DEF CountInv
<1>2. /\ MaxCalls \in Nat /\ MaxRestarts \in Nat /\ write_ops \in Nat /\ n \in Nat
      /\ calls \in 0 .. MaxCalls /\ restarts \in 0 .. MaxRestarts
      /\ write_ops + n <= calls
  BY <1>1, EngineAssumption DEF CountInv, TypeInv
<1>3. ASSUME NEW t \in Threads, Call(t) PROVE CountInv'
  <2>1. PICK k \in Keys : Enters(t, k)
    BY <1>3, CallEffect, ZenonT(60)
  <2>2. \A s \in Threads \ {t} : op'[s] \in OpRecords <=> op[s] \in OpRecords
    BY <2>1, OthersEffect, ZenonT(60)
  <2>3. op[t] = NoOp /\ op'[t] \in OpRecords /\ UNCHANGED <<write_ops, restarts>>
    BY <2>1, ZenonT(60) DEF Enters
  <2>4. InProgress' = InProgress \cup {t} /\ t \notin InProgress
    BY <1>0, <2>2, <2>3, Zenon DEF InProgress
  <2>5. IsFiniteSet(InProgress') /\ Cardinality(InProgress') = n + 1
    BY <1>1, <2>4, FS_AddElement, ZenonT(60) DEF CountInv
  <2>6. calls < MaxCalls /\ calls' = calls + 1
    BY <1>3, ZenonT(60) DEF Call
  <2>7. /\ calls' \in 0 .. MaxCalls /\ restarts' \in 0 .. MaxRestarts
        /\ write_ops' + (n + 1) <= calls'
    BY <1>2, <2>3, <2>6
  <2> QED
    BY <2>5, <2>7, Zenon DEF CountInv
<1>4. ASSUME NEW t \in Threads, ThreadStep(t) PROVE CountInv'
  <2>1. op[t] \in OpRecords /\ UNCHANGED bounds /\ (InCall(t) \/ Leaves(t))
    BY <1>4, StepEffect, ZenonT(60)
  <2>2. UNCHANGED <<calls, restarts>>
    BY <2>1, Zenon DEF bounds
  <2>3. CASE InCall(t)
    <3>1. /\ op'[t] \in OpRecords /\ (\A s \in Threads \ {t} : op'[s] = op[s])
          /\ UNCHANGED write_ops
      BY <2>3, ZenonT(60) DEF InCall, SameCall
    <3>2. \A s \in Threads : op'[s] \in OpRecords <=> op[s] \in OpRecords
      BY <2>1, <3>1, Zenon
    <3>3. InProgress' = InProgress
      BY <3>2, Zenon DEF InProgress
    <3> QED
      BY <2>2, <3>1, <3>3, Zenon DEF CountInv
  <2>4. CASE Leaves(t)
    <3>1. /\ op'[t] = NoOp /\ (\A s \in Threads \ {t} : op'[s] = op[s])
          /\ write_ops' \in Nat /\ write_ops' <= write_ops + 1
      BY <2>4, ZenonT(60) DEF Leaves
    <3>2. InProgress = InProgress' \cup {t} /\ t \notin InProgress'
      BY <1>0, <2>1, <3>1 DEF InProgress
    <3>3. IsFiniteSet(InProgress')
      <4>1. InProgress' \subseteq InProgress /\ IsFiniteSet(InProgress)
        BY <3>2, Zenon DEF CountInv
      <4> QED
        BY <4>1, FS_Subset, ZenonT(60)
    <3>4. PICK m \in Nat : m = Cardinality(InProgress')
      BY <3>3, FS_CardinalityType, Zenon
    <3>5. n = m + 1
      BY <1>1, <3>2, <3>3, <3>4, FS_AddElement, ZenonT(60)
    <3>6. write_ops' + m <= calls
      BY <1>2, <3>1, <3>4, <3>5
    <3> QED
      BY <1>2, <2>2, <3>3, <3>4, <3>6, Zenon DEF CountInv
  <2> QED
    BY <2>1, <2>3, <2>4, Zenon
<1>5. CASE UNCHANGED <<op, write_ops, bounds>>
  BY <1>5, ZenonT(60) DEF CountInv, InProgress, bounds
<1>6. CASE Restart
  <2>1. InProgress' = {}
    BY <1>0, <1>6, ZenonT(60) DEF InProgress, Restart
  <2>2. IsFiniteSet(InProgress') /\ Cardinality(InProgress') = 0
    BY <2>1, FS_EmptySet, ZenonT(60)
  <2>3. /\ calls' \in 0 .. MaxCalls /\ restarts' \in 0 .. MaxRestarts
        /\ write_ops' + 0 <= calls'
    BY <1>2, <1>6 DEF Restart
  <2> QED
    BY <2>2, <2>3, Zenon DEF CountInv
<1>7. CASE ResetStats
  <2>1. write_ops' = 0 /\ UNCHANGED <<op, calls, restarts>>
    BY <1>7, Zenon DEF ResetStats, bounds
  <2>2. write_ops' + n <= calls'
    BY <1>2, <2>1
  <2>3. InProgress' = InProgress
    BY <2>1, Zenon DEF InProgress
  <2> QED
    BY <1>1, <2>1, <2>2, <2>3, Zenon DEF CountInv
<1> QED
  BY <1>3, <1>4, <1>5, <1>6, <1>7, Zenon DEF Next, AddDevice, Quiet, vars, bounds

\* The engine is type-correct; in particular write_ops counts no call twice, a
\* failed store once, and none across a restart.
THEOREM EngineTypeCorrect == Spec => []TypeOK
<1>1. TypeInv /\ CountInv => TypeOK
  <2> SUFFICES ASSUME TypeInv, CountInv PROVE TypeOK
    BY Zenon
  <2>1. Cardinality(InProgress) \in Nat
    BY FS_CardinalityType, Zenon DEF CountInv
  <2>2. write_ops \in 0 .. MaxCalls
    BY <2>1, EngineAssumption DEF TypeInv, CountInv
  <2> QED
    BY <2>2, ZenonT(60) DEF TypeInv, CountInv, TypeOK
<1> QED
  BY <1>1, InitType, NextType, InitCount, NextCount, PTL DEF Spec
=============================================================================
