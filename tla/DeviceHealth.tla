---------------------------- MODULE DeviceHealth ----------------------------
(***************************************************************************)
(* The health counters of one device: the operations that check and update *)
(* them (check_device_health and device_record_result of kv_engine.c), the *)
(* sweeps of the background probe that re-marks the device healthy, and    *)
(* the snapshot of kv_engine_get_device_health.  Each access to an atomic  *)
(* field is a step of its own.  The fields of different devices are never  *)
(* related, so one device stands for all.                                  *)
(***************************************************************************)
EXTENDS Integers, FiniteSets

CONSTANTS
    Threads,
    MaxConsecutive,      \* max_consecutive_errors
    RecoveryThreshold,   \* recovery_threshold
    MaxOps,              \* bound on the number of operations
    MaxMonitoredOps      \* the same for an application that takes snapshots

ASSUME HealthAssumption ==
    /\ IsFiniteSet(Threads)
    /\ MaxConsecutive \in Nat \ {0}
    /\ RecoveryThreshold \in Nat \ {0}
    /\ {MaxOps, MaxMonitoredOps} \subseteq Nat

VARIABLES
    up,                   \* environment: the device serves its calls
    healthy, consecutive_errors, total_errors, total_ops,
    thread,               \* where each thread is in its operation
    result,               \* the kvs_result of the operation
    probe,                \* where the probe thread is
    recovery_count,       \* recovery_counts[i] of the probe thread
    monitored,            \* environment: the application takes snapshots
    reader, snapshot,     \* kv_engine_get_device_health and its answer
    started               \* number of operations started

counters == <<healthy, consecutive_errors, total_errors, total_ops>>
opVars == <<thread, result, started>>
probeVars == <<probe, recovery_count>>
readerVars == <<monitored, reader, snapshot>>
vars == <<up, counters, opVars, probeVars, readerVars>>

\* Results that is_device_error accepts: "io" stands for KVS_ERR_SYS_IO and the
\* two capacity errors, "gone" for KVS_ERR_DEV_NOT_EXIST and DEV_NOT_OPENED.
DeviceErrors == {"io", "gone"}
KvsResults == {"ok"} \cup DeviceErrors

ThreadStates == {"idle", "call", "ops", "reset", "errors", "consecutive", "mark"}
ProbeStates == {"sleep", "load", "query", "healthy", "consecutive"}

Bound == IF monitored THEN MaxMonitoredOps ELSE MaxOps

TypeOK ==
    /\ up \in BOOLEAN
    /\ healthy \in BOOLEAN
    /\ {consecutive_errors, total_errors, total_ops, started} \subseteq 0 .. Bound
    /\ thread \in [Threads -> ThreadStates]
    /\ result \in [Threads -> KvsResults]
    /\ probe \in ProbeStates
    /\ recovery_count \in 0 .. RecoveryThreshold
    /\ monitored \in BOOLEAN
    /\ reader \in 0 .. 4
    /\ snapshot \in [healthy : BOOLEAN, consecutive_errors : 0 .. Bound,
                     total_errors : 0 .. Bound, total_ops : 0 .. Bound]

\* A snapshot after the memset.
Blank == [healthy |-> FALSE, consecutive_errors |-> 0,
          total_errors |-> 0, total_ops |-> 0]

\* kv_engine_open_device
Init ==
    /\ up = TRUE
    /\ healthy = TRUE
    /\ consecutive_errors = 0 /\ total_errors = 0 /\ total_ops = 0
    /\ thread = [t \in Threads |-> "idle"]
    /\ result = [t \in Threads |-> "ok"]
    /\ probe = "sleep"
    /\ recovery_count = 0
    /\ monitored \in BOOLEAN
    /\ reader = 0
    /\ snapshot = Blank
    /\ started = 0

-----------------------------------------------------------------------------
(* Operations                                                              *)

Move(t, from, to) == thread[t] = from /\ thread' = [thread EXCEPT ![t] = to]

\* Mutant: the health of the device is not checked.
OpCheck_Unchecked(t) ==
    /\ Move(t, "idle", "call")
    /\ started < Bound
    /\ started' = started + 1
    /\ UNCHANGED <<up, counters, result, probeVars, readerVars>>

\* check_device_health lets the operation pass; otherwise it ends at once.
OpCheck(t) ==
    /\ Move(t, "idle", "call")
    /\ healthy
    /\ started < Bound
    /\ started' = started + 1
    /\ UNCHANGED <<up, counters, result, probeVars, readerVars>>

\* The call into the device library returns.
OpReturns(t) ==
    /\ Move(t, "call", "ops")
    /\ \E r \in KvsResults :
        /\ r \in DeviceErrors => ~up
        /\ result' = [result EXCEPT ![t] = r]
    /\ UNCHANGED <<up, counters, started, probeVars, readerVars>>

\* A retrieve that finds no memory for its second buffer records no result.
OpAbandons(t) ==
    /\ Move(t, "call", "idle")
    /\ UNCHANGED <<up, counters, result, started, probeVars, readerVars>>

\* device_record_result, one atomic access at a time.
RecordOp(t) ==
    /\ Move(t, "ops", IF result[t] \in DeviceErrors THEN "errors" ELSE "reset")
    /\ total_ops' = total_ops + 1
    /\ UNCHANGED <<up, healthy, consecutive_errors, total_errors, result, started,
                   probeVars, readerVars>>

RecordAlive(t) ==
    /\ Move(t, "reset", "idle")
    /\ consecutive_errors' = 0
    /\ UNCHANGED <<up, healthy, total_errors, total_ops, result, started,
                   probeVars, readerVars>>

RecordError(t) ==
    /\ Move(t, "errors", "consecutive")
    /\ total_errors' = total_errors + 1
    /\ UNCHANGED <<up, healthy, consecutive_errors, total_ops, result, started,
                   probeVars, readerVars>>

\* Mutant: the threshold is compared with the value before the increment.
Crosses_Previous(t) == result[t] = "gone" \/ consecutive_errors >= MaxConsecutive

\* The operation marks the device: prev + 1 >= max_consecutive_errors, or the
\* device is gone.
Crosses(t) == result[t] = "gone" \/ consecutive_errors + 1 >= MaxConsecutive

RecordConsecutive(t) ==
    /\ Move(t, "consecutive", IF Crosses(t) THEN "mark" ELSE "idle")
    /\ consecutive_errors' = consecutive_errors + 1
    /\ UNCHANGED <<up, healthy, total_errors, total_ops, result, started,
                   probeVars, readerVars>>

MarkUnhealthy(t) ==
    /\ Move(t, "mark", "idle")
    /\ healthy' = FALSE
    /\ UNCHANGED <<up, consecutive_errors, total_errors, total_ops, result, started,
                   probeVars, readerVars>>

-----------------------------------------------------------------------------
(* The probe                                                               *)

\* The timed wait ends and the sweep reaches the device.
ProbeWake ==
    /\ probe = "sleep"
    /\ probe' = "load"
    /\ UNCHANGED <<up, counters, opVars, recovery_count, readerVars>>

ProbeLoad ==
    /\ probe = "load"
    /\ probe' = IF healthy THEN "sleep" ELSE "query"
    /\ UNCHANGED <<up, counters, opVars, recovery_count, readerVars>>

\* Mutant: recovery_counts is declared inside the sweep.
ProbeSucceeds_EachSweep ==
    /\ probe = "query"
    /\ recovery_count' = 1
    /\ probe' = IF 1 >= RecoveryThreshold THEN "healthy" ELSE "sleep"
    /\ UNCHANGED <<up, counters, opVars, readerVars>>

\* kvs_get_device_utilization succeeds, which a device that fails operations
\* (a full one, say) may do as well.
ProbeSucceeds ==
    /\ probe = "query"
    /\ recovery_count' = recovery_count + 1
    /\ probe' = IF recovery_count' >= RecoveryThreshold THEN "healthy" ELSE "sleep"
    /\ UNCHANGED <<up, counters, opVars, readerVars>>

ProbeFails ==
    /\ probe = "query"
    /\ ~up
    /\ recovery_count' = 0
    /\ probe' = "sleep"
    /\ UNCHANGED <<up, counters, opVars, readerVars>>

ProbeMarksHealthy ==
    /\ probe = "healthy"
    /\ healthy' = TRUE
    /\ probe' = "consecutive"
    /\ UNCHANGED <<up, consecutive_errors, total_errors, total_ops, opVars,
                   recovery_count, readerVars>>

\* Mutant: the streak of the last outage is kept.
ProbeResets_KeepsStreak ==
    /\ probe = "consecutive"
    /\ consecutive_errors' = 0
    /\ probe' = "sleep"
    /\ UNCHANGED <<up, healthy, total_errors, total_ops, opVars, recovery_count,
                   readerVars>>

ProbeResets ==
    /\ probe = "consecutive"
    /\ consecutive_errors' = 0
    /\ recovery_count' = 0
    /\ probe' = "sleep"
    /\ UNCHANGED <<up, healthy, total_errors, total_ops, opVars, readerVars>>

-----------------------------------------------------------------------------
(* The snapshot                                                            *)

\* Mutant: the counters are read in the order in which they are written.
ReadOrder_AsWritten ==
    <<"healthy", "total_ops", "total_errors", "consecutive_errors">>

\* The fields in the order kv_engine_get_device_health loads them.
ReadOrder == <<"healthy", "consecutive_errors", "total_errors", "total_ops">>

Fields == [healthy |-> healthy, consecutive_errors |-> consecutive_errors,
           total_errors |-> total_errors, total_ops |-> total_ops]

\* reader is the number of fields loaded so far, 0 outside the call.
ReadField ==
    /\ monitored
    /\ reader < 4
    /\ \E f \in {ReadOrder[reader + 1]} : snapshot' = [snapshot EXCEPT ![f] = Fields[f]]
    /\ reader' = reader + 1
    /\ UNCHANGED <<monitored, up, counters, opVars, probeVars>>

\* The call returns; the answer is the application's and no longer tracked.
ReadReturn ==
    /\ reader = 4
    /\ reader' = 0
    /\ snapshot' = Blank
    /\ UNCHANGED <<monitored, up, counters, opVars, probeVars>>

-----------------------------------------------------------------------------

\* The device stops or resumes serving calls.
DeviceChanges ==
    /\ up' = ~up
    /\ UNCHANGED <<counters, opVars, probeVars, readerVars>>

OpStep(t) ==
    \/ OpReturns(t) \/ OpAbandons(t) \/ RecordOp(t) \/ RecordAlive(t)
    \/ RecordError(t) \/ RecordConsecutive(t) \/ MarkUnhealthy(t)

ProbeStep ==
    \/ ProbeWake \/ ProbeLoad \/ ProbeSucceeds \/ ProbeFails
    \/ ProbeMarksHealthy \/ ProbeResets

Next ==
    \/ \E t \in Threads : OpCheck(t) \/ OpStep(t)
    \/ ProbeStep
    \/ ReadField \/ ReadReturn
    \/ DeviceChanges

Spec == Init /\ [][Next]_vars

\* Threads are scheduled, calls into the device library return and the timed
\* wait of the probe ends; nothing obliges anyone to start an operation.
Fairness ==
    /\ \A t \in Threads : WF_vars(OpStep(t))
    /\ WF_vars(ProbeStep)

FairSpec == Spec /\ Fairness

-----------------------------------------------------------------------------
(* Properties                                                              *)

\* A finished snapshot is plausible although its four loads are not atomic:
\* device_record_result increments total_ops, total_errors and
\* consecutive_errors in this order and the snapshot loads them in the
\* opposite one, so no error is reported that is not among the operations.
SnapshotPlausible ==
    reader = 4 =>
        /\ snapshot.consecutive_errors <= snapshot.total_errors
        /\ snapshot.total_errors <= snapshot.total_ops

\* No crossing of the threshold is dropped: if the device counts as healthy
\* with max_consecutive_errors or more, an operation is about to mark it or the
\* probe is about to reset the count.
CrossingNotDropped ==
    healthy /\ consecutive_errors >= MaxConsecutive =>
        \/ \E t \in Threads : thread[t] = "mark"
        \/ probe = "consecutive"

\* Failing fast bounds the errors of an outage: past the threshold each thread
\* adds at most the error of the operation it had begun, and one more in the
\* window of the probe between marking the device healthy and the reset.
OvershootBounded ==
    consecutive_errors <= MaxConsecutive - 1 + 2 * Cardinality(Threads)

\* Every outage needs its own streak of successful probes: none is left over
\* from the last one when the device is healthy.
StreakStartsAtZero ==
    healthy /\ probe # "consecutive" => recovery_count = 0

\* A device that from some time on serves its calls is marked healthy for good,
\* whatever operations were under way: late marks do not outlast the probe.
Recovers == <>[]up => <>[]healthy
=============================================================================
