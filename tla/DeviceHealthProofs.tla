------------------------- MODULE DeviceHealthProofs -------------------------
(***************************************************************************)
(* Proofs about DeviceHealth: the health counters of a device for any      *)
(* number of threads, any thresholds and any number of operations.         *)
(***************************************************************************)
EXTENDS DeviceHealth, FiniteSetTheorems, TLAPS

\* The threads at one of the places S.
At(S) == {t \in Threads : thread[t] \in S}

Beginning == {"call", "ops"}
Working == {"call", "ops", "errors", "consecutive"}

Types ==
    /\ up \in BOOLEAN
    /\ healthy \in BOOLEAN
    /\ {consecutive_errors, total_errors, total_ops, started} \subseteq Nat
    /\ thread \in [Threads -> ThreadStates]
    /\ result \in [Threads -> KvsResults]
    /\ probe \in ProbeStates
    /\ recovery_count \in Nat
    /\ monitored \in BOOLEAN
    /\ reader \in 0 .. 4
    /\ snapshot \in [healthy : BOOLEAN, consecutive_errors : Nat,
                     total_errors : Nat, total_ops : Nat]

\* device_record_result counts an operation first, then its error, then the
\* streak: whoever is in between accounts for the difference.
Accounting ==
    /\ started <= Bound
    /\ total_ops + Cardinality(At(Beginning)) <= started
    /\ total_errors + Cardinality(At({"errors"})) <= total_ops
    /\ consecutive_errors + Cardinality(At({"consecutive"})) <= total_errors

\* The probe acts on a device it has found unhealthy, and nobody else makes it
\* healthy.
ProbeInv ==
    /\ probe \in {"query", "healthy"} => ~healthy
    /\ recovery_count <= RecoveryThreshold
    /\ probe \notin {"healthy", "consecutive"} => recovery_count < RecoveryThreshold
    /\ StreakStartsAtZero

\* The threads that may still add an error to the streak before they mark the
\* device: those inside an operation, and those that may begin one.
MayAdd == {t \in Threads : \/ thread[t] \in Working
                           \/ healthy /\ thread[t] \in {"idle", "reset"}}
OvershootInv ==
    consecutive_errors >= MaxConsecutive =>
        consecutive_errors + Cardinality(MayAdd) <=
            MaxConsecutive - 1
                + (IF probe = "consecutive" THEN 2 ELSE 1) * Cardinality(Threads)

\* What the fields loaded so far have to do with the counters.
SnapshotInv ==
    /\ reader = 0 => snapshot = Blank
    /\ snapshot.consecutive_errors <= Bound
    /\ snapshot.total_errors <= Bound
    /\ snapshot.total_ops <= Bound
    /\ reader = 2 => snapshot.consecutive_errors <= total_errors
    /\ reader \in {3, 4} => snapshot.consecutive_errors <= snapshot.total_errors
    /\ reader = 3 => snapshot.total_errors <= total_ops
    /\ reader = 4 => snapshot.total_errors <= snapshot.total_ops

HealthInv == Types /\ Accounting /\ ProbeInv /\ CrossingNotDropped

-----------------------------------------------------------------------------
(* Counting the threads at a place.                                        *)

\* Any set of threads is finite, and no larger than the set of all of them.
LEMMA ThreadSets ==
    ASSUME NEW S, S \subseteq Threads
    PROVE  /\ IsFiniteSet(S) /\ Cardinality(S) \in Nat
           /\ Cardinality(S) <= Cardinality(Threads) /\ Cardinality(Threads) \in Nat
           /\ \A R \in SUBSET S : Cardinality(R) <= Cardinality(S)
BY HealthAssumption, FS_Subset, FS_CardinalityType, Zenon

\* One thread more.
LEMMA OneMore ==
    ASSUME NEW S, S \subseteq Threads, NEW t \in Threads, t \notin S
    PROVE  Cardinality(S \cup {t}) = Cardinality(S) + 1
BY ThreadSets, FS_AddElement, Zenon

\* How the number of threads at a place changes when one of them moves.
LEMMA MoveCounts ==
    ASSUME Types, NEW t \in Threads, NEW from, NEW to, Move(t, from, to), NEW S
    PROVE  /\ Cardinality(At(S)) \in Nat /\ Cardinality(At(S)') \in Nat
           /\ from \in S /\ to \notin S =>
                Cardinality(At(S)) = Cardinality(At(S)') + 1
           /\ from \notin S /\ to \in S =>
                Cardinality(At(S)') = Cardinality(At(S)) + 1
           /\ (from \in S <=> to \in S) => Cardinality(At(S)') = Cardinality(At(S))
<1>0. /\ thread[t] = from /\ thread'[t] = to
      /\ \A s \in Threads \ {t} : thread'[s] = thread[s]
  BY Zenon DEF Move, Types
<1>1. At(S) \subseteq Threads /\ At(S)' \subseteq Threads
  BY Zenon DEF At
<1>2. ASSUME from \in S, to \notin S PROVE At(S) = At(S)' \cup {t} /\ t \notin At(S)'
  BY <1>0, <1>2 DEF At
<1>3. ASSUME from \notin S, to \in S PROVE At(S)' = At(S) \cup {t} /\ t \notin At(S)
  BY <1>0, <1>3 DEF At
<1>4. ASSUME from \in S <=> to \in S PROVE At(S)' = At(S)
  BY <1>0, <1>4 DEF At
<1> QED
  BY <1>1, <1>2, <1>3, <1>4, OneMore, ThreadSets, Zenon

-----------------------------------------------------------------------------
(* Steps.                                                                  *)

\* kv_engine_open_device leaves a device without operations or errors.
LEMMA InitHealth == Init => HealthInv /\ OvershootInv /\ SnapshotInv
<1> SUFFICES ASSUME Init PROVE HealthInv /\ OvershootInv /\ SnapshotInv
  BY Zenon
<1>1. Types
  BY DEF Init, Types, ThreadStates, KvsResults, ProbeStates, Blank
<1>2. \A S \in {Beginning, {"errors"}, {"consecutive"}} : At(S) = {}
  BY Zenon DEF Init, At, Beginning
<1>3. Bound \in Nat
  BY HealthAssumption, Zenon DEF Bound
<1>4. Accounting
  BY <1>2, <1>3, FS_EmptySet DEF Init, Accounting
<1>5. ProbeInv /\ CrossingNotDropped /\ OvershootInv
  BY HealthAssumption DEF Init, ProbeInv, CrossingNotDropped, StreakStartsAtZero, OvershootInv
<1>6. SnapshotInv
  BY <1>3 DEF Init, SnapshotInv, Blank
<1> QED
  BY <1>1, <1>4, <1>5, <1>6, Zenon DEF HealthInv

\* The variables keep their types.
LEMMA NextTypes == Types /\ [Next]_vars => Types'
<1> SUFFICES ASSUME Types, [Next]_vars PROVE Types'
  BY Zenon
<1> USE DEF Types
<1>1. ASSUME NEW t \in Threads, OpCheck(t) \/ OpStep(t) PROVE Types'
  <2> USE DEF Move, ThreadStates, probeVars, readerVars, counters
  <2>1. CASE OpCheck(t) \/ OpReturns(t) \/ OpAbandons(t)
    BY <2>1 DEF OpCheck, OpReturns, OpAbandons
  <2>2. CASE RecordOp(t) \/ RecordAlive(t) \/ RecordError(t)
    BY <2>2 DEF RecordOp, RecordAlive, RecordError
  <2>3. CASE RecordConsecutive(t)
    BY <2>3 DEF RecordConsecutive
  <2>4. CASE MarkUnhealthy(t)
    BY <2>4, Zenon DEF MarkUnhealthy
  <2> QED
    BY <1>1, <2>1, <2>2, <2>3, <2>4, Zenon DEF OpStep
<1>2. CASE ProbeStep
  <2> USE DEF ProbeStates, opVars, readerVars, counters
  <2>1. CASE ProbeWake \/ ProbeLoad \/ ProbeFails
    BY <2>1 DEF ProbeWake, ProbeLoad, ProbeFails
  <2>2. CASE ProbeSucceeds
    BY <2>2 DEF ProbeSucceeds
  <2>3. CASE ProbeMarksHealthy
    BY <2>3, Zenon DEF ProbeMarksHealthy
  <2>4. CASE ProbeResets
    BY <2>4 DEF ProbeResets
  <2> QED
    BY <1>2, <2>1, <2>2, <2>3, <2>4, Zenon DEF ProbeStep
<1>3. CASE ReadField
  <2>1. reader \in 0 .. 3 /\ reader' \in 0 .. 4
    BY <1>3 DEF ReadField
  <2>2. snapshot' \in [healthy : BOOLEAN, consecutive_errors : Nat,
                       total_errors : Nat, total_ops : Nat]
    BY <1>3, <2>1 DEF ReadField, ReadOrder, Fields
  <2> QED
    BY <1>3, <2>1, <2>2, Zenon DEF ReadField, counters, opVars, probeVars
<1>4. CASE ReadReturn
  BY <1>4 DEF ReadReturn, Blank, counters, opVars, probeVars
<1>5. CASE DeviceChanges
  BY <1>5, Zenon DEF DeviceChanges, counters, opVars, probeVars, readerVars
<1>6. CASE UNCHANGED vars
  BY <1>6, Zenon DEF vars, counters, opVars, probeVars, readerVars
<1> QED
  BY <1>1, <1>2, <1>3, <1>4, <1>5, <1>6, Zenon DEF Next

\* No step leaves an operation, an error or a streak without its account.
LEMMA NextAccounting == Types /\ Accounting /\ [Next]_vars => Accounting'
<1> SUFFICES ASSUME Types, Accounting, [Next]_vars PROVE Accounting'
  BY Zenon
<1> USE DEF Types, Accounting
<1>0. Types' /\ Bound \in Nat
  BY NextTypes, HealthAssumption, Zenon DEF Bound
<1>1. ASSUME NEW t \in Threads, OpCheck(t) \/ OpStep(t) PROVE Accounting'
  <2> DEFINE b == Cardinality(At(Beginning))
             e == Cardinality(At({"errors"}))
             c == Cardinality(At({"consecutive"}))
  <2>0. Bound' = Bound /\ started \in Nat /\ total_ops \in Nat /\ total_errors \in Nat
        /\ consecutive_errors \in Nat
    BY <1>1 DEF OpCheck, OpStep, OpReturns, OpAbandons, RecordOp, RecordAlive, RecordError,
         RecordConsecutive, MarkUnhealthy, readerVars, Bound
  <2>1. /\ b \in Nat /\ e \in Nat /\ c \in Nat
        /\ \/ OpCheck(t) /\ b' = b + 1 /\ e' = e /\ c' = c
           \/ OpReturns(t) /\ b' = b /\ e' = e /\ c' = c
           \/ OpAbandons(t) /\ b = b' + 1 /\ b' \in Nat /\ e' = e /\ c' = c
           \/ RecordOp(t) /\ b = b' + 1 /\ b' \in Nat /\ (e' = e + 1 \/ e' = e) /\ c' = c
           \/ RecordAlive(t) /\ b' = b /\ e' = e /\ c' = c
           \/ RecordError(t) /\ b' = b /\ e = e' + 1 /\ e' \in Nat /\ c' = c + 1
           \/ RecordConsecutive(t) /\ b' = b /\ e' = e /\ c = c' + 1 /\ c' \in Nat
           \/ MarkUnhealthy(t) /\ b' = b /\ e' = e /\ c' = c
    <3> USE MoveCounts DEF Beginning
    <3>1. CASE OpCheck(t)
      BY <3>1 DEF OpCheck
    <3>2. CASE OpReturns(t)
      <4>1. Move(t, "call", "ops")
        BY <3>2, Zenon DEF OpReturns
      <4> QED
        BY <3>2, <4>1
    <3>3. CASE OpAbandons(t)
      BY <3>3 DEF OpAbandons
    <3>4. CASE RecordOp(t)
      <4>1. Move(t, "ops", "errors") \/ Move(t, "ops", "reset")
        BY <3>4, Zenon DEF RecordOp
      <4> QED
        BY <3>4, <4>1
    <3>5. CASE RecordAlive(t)
      BY <3>5 DEF RecordAlive
    <3>6. CASE RecordError(t)
      BY <3>6 DEF RecordError
    <3>7. CASE RecordConsecutive(t)
      <4>1. Move(t, "consecutive", "mark") \/ Move(t, "consecutive", "idle")
        BY <3>7, Zenon DEF RecordConsecutive
      <4> QED
        BY <3>7, <4>1
    <3>8. CASE MarkUnhealthy(t)
      BY <3>8 DEF MarkUnhealthy
    <3> QED
      BY <1>1, <3>1, <3>2, <3>3, <3>4, <3>5, <3>6, <3>7, <3>8, Zenon DEF OpStep
  <2> HIDE DEF b, e, c
  <2>2. /\ started <= Bound /\ total_ops + b <= started
        /\ total_errors + e <= total_ops /\ consecutive_errors + c <= total_errors
    BY Zenon DEF b, e, c
  <2>3. /\ started' <= Bound' /\ total_ops' + b' <= started'
        /\ total_errors' + e' <= total_ops' /\ consecutive_errors' + c' <= total_errors'
    BY <1>0, <2>0, <2>1, <2>2 DEF OpCheck, OpReturns, OpAbandons, RecordOp, RecordAlive,
         RecordError, RecordConsecutive, MarkUnhealthy, counters
  <2> QED
    BY <2>3, Zenon DEF b, e, c
<1>2. ASSUME UNCHANGED <<monitored, started, total_ops, total_errors, thread>>,
             consecutive_errors' = consecutive_errors \/ consecutive_errors' = 0
      PROVE  Accounting'
  <2>1. \A S : At(S)' = At(S)
    BY <1>2, Zenon DEF At
  <2>2. Cardinality(At({"consecutive"})) \in Nat
    BY ThreadSets, Zenon DEF At
  <2> QED
    BY <1>0, <1>2, <2>1, <2>2 DEF Bound
<1>3. ASSUME ProbeStep \/ ReadField \/ ReadReturn \/ DeviceChanges \/ UNCHANGED vars
      PROVE  /\ UNCHANGED <<monitored, started, total_ops, total_errors, thread>>
             /\ consecutive_errors' = consecutive_errors \/ consecutive_errors' = 0
  BY <1>3, Zenon DEF ProbeStep, ProbeWake, ProbeLoad, ProbeSucceeds, ProbeFails,
     ProbeMarksHealthy,
       ProbeResets, ReadField, ReadReturn, DeviceChanges, vars, opVars, readerVars,
       counters,
       probeVars
<1> QED
  BY <1>1, <1>2, <1>3, Zenon DEF Next

\* What an operation does to the device: nothing, or it ends the streak, adds an
\* error to it, or marks the device.  None makes the device healthy.
Quiet(t) ==
    /\ healthy' = healthy
    /\ consecutive_errors' = consecutive_errors
    /\ thread[t] # "mark"
    /\ \/ thread[t] \in Working /\ thread'[t] \in Working \cup {"idle", "reset"}
       \/ thread[t] = "idle" /\ thread'[t] \in Working /\ healthy

Ends == consecutive_errors' = 0 /\ healthy' = healthy

Adds(t) ==
    /\ consecutive_errors' = consecutive_errors + 1
    /\ healthy' = healthy
    /\ thread[t] = "consecutive"
    /\ consecutive_errors' >= MaxConsecutive => thread'[t] = "mark"

Marks(t) ==
    /\ healthy' = FALSE
    /\ consecutive_errors' = consecutive_errors
    /\ thread[t] = "mark" /\ thread'[t] = "idle"

\* Every step of an operation is one of these, and concerns nobody else.
LEMMA OpEffect ==
    ASSUME Types, NEW t \in Threads, OpCheck(t) \/ OpStep(t)
    PROVE  /\ UNCHANGED <<probe, recovery_count, monitored, reader, snapshot>>
           /\ \A s \in Threads \ {t} : thread'[s] = thread[s]
           /\ Quiet(t) \/ Ends \/ Adds(t) \/ Marks(t)
<1> USE DEF Types, Move, Working, probeVars, readerVars, counters, Quiet, Ends, Adds, Marks
<1>1. CASE OpCheck(t)
  BY <1>1, Zenon DEF OpCheck
<1>2. CASE OpReturns(t) \/ OpAbandons(t)
  BY <1>2, Zenon DEF OpReturns, OpAbandons
<1>3. CASE RecordOp(t) \/ RecordError(t)
  BY <1>3, Zenon DEF RecordOp, RecordError
<1>4. CASE RecordAlive(t)
  BY <1>4, Zenon DEF RecordAlive
<1>5. CASE RecordConsecutive(t)
  BY <1>5, Zenon DEF RecordConsecutive, Crosses
<1>6. CASE MarkUnhealthy(t)
  BY <1>6, Zenon DEF MarkUnhealthy
<1> QED
  BY <1>1, <1>2, <1>3, <1>4, <1>5, <1>6, Zenon DEF OpStep

\* What everybody else does to the device.
LEMMA OtherEffect ==
    ASSUME Types, ProbeStep \/ ReadField \/ ReadReturn \/ DeviceChanges \/ UNCHANGED vars
    PROVE  /\ UNCHANGED <<thread, monitored, total_errors, total_ops>>
           /\ \/ /\ healthy' = healthy /\ consecutive_errors' = consecutive_errors
                 /\ probe' = "consecutive" <=> probe = "consecutive"
              \/ ProbeMarksHealthy
              \/ ProbeResets
BY Zenon DEF ProbeStep, ProbeWake, ProbeLoad, ProbeSucceeds, ProbeFails, ProbeMarksHealthy,
       ProbeResets, ReadField, ReadReturn, DeviceChanges, vars, opVars, readerVars,
       counters,
       probeVars

\* The streak of probes, and the threshold.
LEMMA NextProbe ==
    Types /\ ProbeInv /\ CrossingNotDropped /\ [Next]_vars
        => ProbeInv' /\ CrossingNotDropped'
<1> SUFFICES ASSUME Types, ProbeInv, CrossingNotDropped, [Next]_vars
             PROVE  ProbeInv' /\ CrossingNotDropped'
  BY Zenon
<1>0. /\ Types' /\ MaxConsecutive \in Nat \ {0} /\ RecoveryThreshold \in Nat \ {0}
      /\ healthy \in BOOLEAN /\ healthy' \in BOOLEAN /\ consecutive_errors \in Nat
  BY NextTypes, HealthAssumption, Zenon DEF Types
<1>1. ASSUME NEW t \in Threads, OpCheck(t) \/ OpStep(t)
      PROVE  ProbeInv' /\ CrossingNotDropped'
  <2>0. /\ UNCHANGED <<probe, recovery_count>>
        /\ \A s \in Threads \ {t} : thread'[s] = thread[s]
        /\ Quiet(t) \/ Ends \/ Adds(t) \/ Marks(t)
    BY <1>1, OpEffect, Zenon
  <2>1. ProbeInv'
    BY <1>0, <2>0 DEF ProbeInv, StreakStartsAtZero, Quiet, Ends, Adds, Marks
  <2>2. CASE Quiet(t)
    BY <1>0, <2>0, <2>1, <2>2, Zenon DEF CrossingNotDropped, Quiet
  <2>3. CASE Ends
    BY <1>0, <2>1, <2>3 DEF CrossingNotDropped, Ends
  <2>4. CASE Adds(t)
    BY <1>0, <2>0, <2>1, <2>4, Zenon DEF CrossingNotDropped, Adds
  <2>5. CASE Marks(t)
    BY <2>1, <2>5, Zenon DEF CrossingNotDropped, Marks
  <2> QED
    BY <2>0, <2>2, <2>3, <2>4, <2>5, Zenon
<1>2. ASSUME ProbeStep \/ ReadField \/ ReadReturn \/ DeviceChanges \/ UNCHANGED vars
      PROVE  CrossingNotDropped'
  <2>1. CASE ProbeMarksHealthy
    BY <2>1, Zenon DEF CrossingNotDropped, ProbeMarksHealthy
  <2>2. CASE ProbeResets
    BY <1>0, <2>2 DEF CrossingNotDropped, ProbeResets
  <2>3. CASE /\ UNCHANGED thread /\ healthy' = healthy
             /\ consecutive_errors' = consecutive_errors
             /\ probe' = "consecutive" <=> probe = "consecutive"
    BY <1>0, <2>3, Zenon DEF CrossingNotDropped
  <2> QED
    BY <1>2, <2>1, <2>2, <2>3, OtherEffect, Zenon
<1>3. ASSUME ProbeStep PROVE ProbeInv'
  BY <1>0, <1>3 DEF Types, ProbeStep, ProbeWake, ProbeLoad, ProbeSucceeds, ProbeFails,
       ProbeMarksHealthy, ProbeResets, counters, ProbeInv, StreakStartsAtZero
<1>4. ASSUME ReadField \/ ReadReturn \/ DeviceChanges \/ UNCHANGED vars PROVE ProbeInv'
  BY <1>4 DEF ReadField, ReadReturn, DeviceChanges, vars, counters, probeVars, ProbeInv,
       StreakStartsAtZero
<1> QED
  BY <1>1, <1>2, <1>3, <1>4, Zenon DEF Next

\* Past the threshold every error uses up a thread that may still add one.
LEMMA NextOvershoot == Types /\ OvershootInv /\ [Next]_vars => OvershootInv'
<1> SUFFICES ASSUME Types, OvershootInv, [Next]_vars,
                    consecutive_errors' >= MaxConsecutive
             PROVE  consecutive_errors' + Cardinality(MayAdd') <=
                        MaxConsecutive - 1
                            + (IF probe' = "consecutive" THEN 2 ELSE 1) * Cardinality(Threads)
  BY Zenon DEF OvershootInv
<1>0. /\ MaxConsecutive \in Nat \ {0} /\ Cardinality(Threads) \in Nat
      /\ consecutive_errors \in Nat /\ healthy \in BOOLEAN /\ healthy' \in BOOLEAN
      /\ MayAdd \subseteq Threads /\ MayAdd' \subseteq Threads
      /\ Cardinality(MayAdd) \in Nat /\ Cardinality(MayAdd') \in Nat
      /\ Cardinality(MayAdd') <= Cardinality(Threads)
  BY HealthAssumption, ThreadSets, NextTypes, Zenon DEF Types, MayAdd
<1>1. ASSUME consecutive_errors' = consecutive_errors, MayAdd' \subseteq MayAdd,
             probe' = "consecutive" <=> probe = "consecutive"
      PROVE  consecutive_errors' + Cardinality(MayAdd') <=
                        MaxConsecutive - 1
                            + (IF probe' = "consecutive" THEN 2 ELSE 1) * Cardinality(Threads)
  <2>1. Cardinality(MayAdd') <= Cardinality(MayAdd)
    BY <1>0, <1>1, ThreadSets, Zenon
  <2> QED
    BY <1>0, <1>1, <2>1 DEF OvershootInv
<1>2. ASSUME NEW t \in Threads, OpCheck(t) \/ OpStep(t),
             consecutive_errors' = consecutive_errors + 1
      PROVE  consecutive_errors' + Cardinality(MayAdd') <=
                        MaxConsecutive - 1
                            + (IF probe' = "consecutive" THEN 2 ELSE 1) * Cardinality(Threads)
  <2>0. /\ UNCHANGED probe /\ \A s \in Threads \ {t} : thread'[s] = thread[s]
        /\ Adds(t)
    <3>1. ~Quiet(t) /\ ~Ends /\ ~Marks(t)
      BY <1>0, <1>2 DEF Quiet, Ends, Marks
    <3> QED
      BY <1>2, <3>1, OpEffect, Zenon
  <2>1. /\ thread[t] = "consecutive" /\ thread'[t] = "mark" /\ healthy' = healthy
        /\ UNCHANGED probe /\ \A s \in Threads \ {t} : thread'[s] = thread[s]
    BY <2>0, Zenon DEF Adds
  <2>2. MayAdd = MayAdd' \cup {t} /\ t \notin MayAdd'
    BY <2>1, Zenon DEF MayAdd, Working
  <2>3. Cardinality(MayAdd) = Cardinality(MayAdd') + 1
    BY <1>0, <2>2, OneMore, Zenon
  <2>4. Cardinality(MayAdd) <= Cardinality(Threads)
    BY <1>0, ThreadSets, Zenon
  <2> QED
    BY <1>0, <1>2, <2>1, <2>3, <2>4 DEF OvershootInv
<1>3. ASSUME NEW t \in Threads, OpCheck(t) \/ OpStep(t),
             consecutive_errors' # consecutive_errors + 1
      PROVE  /\ consecutive_errors' = consecutive_errors /\ MayAdd' \subseteq MayAdd
             /\ probe' = probe
  <2>1. /\ UNCHANGED probe /\ \A s \in Threads \ {t} : thread'[s] = thread[s]
        /\ Quiet(t) \/ Marks(t)
    BY <1>0, <1>3, OpEffect DEF Ends, Adds
  <2>2. CASE Quiet(t)
    BY <1>0, <2>1, <2>2, Zenon DEF Quiet, MayAdd, Working
  <2>3. CASE Marks(t)
    BY <1>0, <2>1, <2>3, Zenon DEF Marks, MayAdd, Working
  <2> QED
    BY <2>1, <2>2, <2>3, Zenon
<1>4. ASSUME ProbeMarksHealthy
      PROVE  consecutive_errors' + Cardinality(MayAdd') <=
                        MaxConsecutive - 1
                            + (IF probe' = "consecutive" THEN 2 ELSE 1) * Cardinality(Threads)
  BY <1>0, <1>4 DEF ProbeMarksHealthy, OvershootInv
<1>5. ASSUME UNCHANGED <<thread, healthy>> PROVE MayAdd' = MayAdd
  BY <1>5, Zenon DEF MayAdd
<1>6. ASSUME ProbeStep \/ ReadField \/ ReadReturn \/ DeviceChanges \/ UNCHANGED vars
      PROVE  \/ ProbeMarksHealthy
             \/ /\ UNCHANGED <<thread, healthy, consecutive_errors>>
                /\ probe' = "consecutive" <=> probe = "consecutive"
  BY <1>0, <1>6, OtherEffect DEF ProbeResets
<1> QED
  BY <1>1, <1>2, <1>3, <1>4, <1>5, <1>6, Zenon DEF Next

\* The counters are ordered, whatever the threads are doing.
LEMMA CountersOrdered ==
    ASSUME Types, Accounting
    PROVE  /\ Bound \in Nat
           /\ consecutive_errors \in 0 .. total_errors
           /\ total_errors \in 0 .. total_ops
           /\ total_ops \in 0 .. started
           /\ started \in 0 .. Bound
<1>1. \A S : Cardinality(At(S)) \in Nat
  BY ThreadSets, Zenon DEF At
<1>2. Bound \in Nat
  BY HealthAssumption, Zenon DEF Bound
<1> QED
  BY <1>1, <1>2 DEF Types, Accounting

\* The loads of kv_engine_get_device_health run against the increments.
LEMMA NextSnapshot == Types /\ Accounting /\ SnapshotInv /\ [Next]_vars => SnapshotInv'
<1> SUFFICES ASSUME Types, Accounting, SnapshotInv, [Next]_vars PROVE SnapshotInv'
  BY Zenon
<1>0. /\ Bound \in Nat /\ consecutive_errors \in Nat /\ total_errors \in Nat
      /\ total_ops \in Nat /\ consecutive_errors <= total_errors
      /\ total_errors <= total_ops /\ total_ops <= Bound
      /\ snapshot.consecutive_errors \in Nat /\ snapshot.total_errors \in Nat
      /\ snapshot.total_ops \in Nat /\ reader \in 0 .. 4
  BY CountersOrdered DEF Types
<1>1. ASSUME NEW t \in Threads, OpCheck(t) \/ OpStep(t)
      PROVE  /\ UNCHANGED <<monitored, reader, snapshot>>
             /\ total_errors' \in {total_errors, total_errors + 1}
             /\ total_ops' \in {total_ops, total_ops + 1}
  <2>1. UNCHANGED <<monitored, reader, snapshot>>
    BY <1>1, OpEffect, Zenon
  <2>2. /\ total_errors' \in {total_errors, total_errors + 1}
        /\ total_ops' \in {total_ops, total_ops + 1}
    BY <1>1, Zenon DEF OpCheck, OpStep, OpReturns, OpAbandons, RecordOp, RecordAlive,
       RecordError,
         RecordConsecutive, MarkUnhealthy, counters
  <2> QED
    BY <2>1, <2>2, Zenon
<1>2. ASSUME UNCHANGED <<monitored, reader, snapshot>>,
             total_errors' \in {total_errors, total_errors + 1},
             total_ops' \in {total_ops, total_ops + 1}
      PROVE  SnapshotInv'
  BY <1>0, <1>2 DEF SnapshotInv, Bound, Blank
<1>3. ASSUME ProbeStep \/ DeviceChanges \/ UNCHANGED vars
      PROVE  UNCHANGED <<monitored, reader, snapshot, total_errors, total_ops>>
  BY <1>3, Zenon DEF ProbeStep, ProbeWake, ProbeLoad, ProbeSucceeds, ProbeFails,
     ProbeMarksHealthy,
       ProbeResets, DeviceChanges, vars, opVars, readerVars, counters, probeVars
<1>4. CASE ReadField
  <2>1. /\ reader' = reader + 1 /\ Bound' = Bound
        /\ UNCHANGED <<total_errors, total_ops>>
    BY <1>4, Zenon DEF ReadField, Bound, counters
  <2>2. /\ snapshot'.consecutive_errors =
            IF reader = 1 THEN consecutive_errors ELSE snapshot.consecutive_errors
        /\ snapshot'.total_errors =
            IF reader = 2 THEN total_errors ELSE snapshot.total_errors
        /\ snapshot'.total_ops = IF reader = 3 THEN total_ops ELSE snapshot.total_ops
    BY <1>0, <1>4 DEF ReadField, ReadOrder, Fields, Types
  <2> QED
    BY <1>0, <2>1, <2>2 DEF SnapshotInv
<1>5. CASE ReadReturn
  BY <1>0, <1>5 DEF ReadReturn, SnapshotInv, Blank, Bound
<1> QED
  BY <1>1, <1>2, <1>3, <1>4, <1>5, Zenon DEF Next

-----------------------------------------------------------------------------
(* The theorems.                                                           *)

\* The inductive invariant of the counters, the probe and the snapshot.
THEOREM HealthInvCorrect == Spec => [](HealthInv /\ OvershootInv /\ SnapshotInv)
<1>1. HealthInv /\ OvershootInv /\ SnapshotInv /\ [Next]_vars
        => HealthInv' /\ OvershootInv' /\ SnapshotInv'
  BY NextTypes, NextAccounting, NextProbe, NextOvershoot, NextSnapshot, Zenon DEF HealthInv
<1> QED
  BY <1>1, InitHealth, PTL DEF Spec

\* The variables keep their types; every counter stays within the operations.
THEOREM HealthTypeCorrect == Spec => []TypeOK
<1>1. HealthInv /\ SnapshotInv => TypeOK
  <2> SUFFICES ASSUME HealthInv, SnapshotInv PROVE TypeOK
    BY Zenon
  <2>1. {consecutive_errors, total_errors, total_ops, started} \subseteq 0 .. Bound
    BY CountersOrdered DEF HealthInv, Types
  <2>2. recovery_count \in 0 .. RecoveryThreshold
    BY HealthAssumption DEF HealthInv, Types, ProbeInv
  <2>3. snapshot \in [healthy : BOOLEAN, consecutive_errors : 0 .. Bound,
                      total_errors : 0 .. Bound, total_ops : 0 .. Bound]
    BY CountersOrdered DEF HealthInv, Types, SnapshotInv
  <2> QED
    BY <2>1, <2>2, <2>3, Zenon DEF HealthInv, Types, TypeOK
<1> QED
  BY <1>1, HealthInvCorrect, PTL

\* device_record_result drops no crossing of max_consecutive_errors.
THEOREM CrossingCorrect == Spec => []CrossingNotDropped
<1>1. HealthInv => CrossingNotDropped
  BY Zenon DEF HealthInv
<1> QED
  BY <1>1, HealthInvCorrect, PTL

\* check_device_health bounds the errors of an outage by the number of threads.
THEOREM OvershootCorrect == Spec => []OvershootBounded
<1>1. HealthInv /\ OvershootInv => OvershootBounded
  <2> SUFFICES ASSUME HealthInv, OvershootInv PROVE OvershootBounded
    BY Zenon
  <2>1. /\ consecutive_errors \in Nat /\ MaxConsecutive \in Nat \ {0}
        /\ Cardinality(Threads) \in Nat /\ Cardinality(MayAdd) \in Nat
    BY HealthAssumption, ThreadSets, Zenon DEF HealthInv, Types, MayAdd
  <2> QED
    BY <2>1 DEF OvershootInv, OvershootBounded
<1> QED
  BY <1>1, HealthInvCorrect, PTL

\* health_probe_thread counts the successful probes of each outage anew.
THEOREM StreakCorrect == Spec => []StreakStartsAtZero
<1>1. HealthInv => StreakStartsAtZero
  BY Zenon DEF HealthInv, ProbeInv
<1> QED
  BY <1>1, HealthInvCorrect, PTL

\* kv_engine_get_device_health never reports an error that is not among the
\* operations, although its loads are not atomic.
THEOREM SnapshotCorrect == Spec => []SnapshotPlausible
<1>1. SnapshotInv => SnapshotPlausible
  BY Zenon DEF SnapshotInv, SnapshotPlausible
<1> QED
  BY <1>1, HealthInvCorrect, PTL
=============================================================================
