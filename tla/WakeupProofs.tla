---------------------------- MODULE WakeupProofs ----------------------------
(***************************************************************************)
(* Proof that the thread pool loses no wakeup, for every number of workers *)
(* and clients and every queue depth.  The proof counts threads.           *)
(***************************************************************************)
EXTENDS ThreadPoolProofs

INSTANCE FiniteSetTheorems

\* Adding or removing one element changes the cardinality by one.
LEMMA CardinalityStep ==
    ASSUME NEW S, IsFiniteSet(S), NEW x
    PROVE  /\ Cardinality(S) \in Nat
           /\ IsFiniteSet(S \cup {x})
           /\ IsFiniteSet(S \ {x})
           /\ x \notin S => Cardinality(S \cup {x}) = Cardinality(S) + 1
           /\ x \in S => Cardinality(S \ {x}) = Cardinality(S) - 1
<1>1. Cardinality(S) \in Nat
  BY FS_CardinalityType, Zenon
<1>2. /\ IsFiniteSet(S \cup {x})
      /\ Cardinality(S \cup {x}) =
            IF x \in S THEN Cardinality(S) ELSE Cardinality(S) + 1
  BY FS_AddElement, Zenon
<1>3. /\ IsFiniteSet(S \ {x})
      /\ Cardinality(S \ {x}) =
            IF x \in S THEN Cardinality(S) - 1 ELSE Cardinality(S)
  BY FS_RemoveElement, Zenon
<1> QED
  BY <1>1, <1>2, <1>3, Zenon

\* The sets of awake threads are finite, so their cardinalities can be compared
\* with the length of the queue.
LEMMA AwakeFinite ==
    /\ IsFiniteSet(AwakeWorkers)
    /\ IsFiniteSet(AwakeSubmitters)
<1>1. IsFiniteSet(Threads)
  BY ThreadsAssumption, FS_Union, Zenon DEF Threads
<1>2. AwakeWorkers \subseteq Workers /\ AwakeSubmitters \subseteq Threads
  BY Zenon DEF AwakeWorkers, AwakeSubmitters
<1> QED
  BY <1>1, <1>2, ThreadsAssumption, FS_Subset, Zenon

\* Nobody waits on queue_not_empty in a new pool.
LEMMA InitNoLostWork == Init => NoLostWork
BY Zenon DEF Init, NoLostWork, NotEmptyWaiters

\* Each critical section preserves NoLostWork: an enqueue wakes a worker, and a
\* worker that dequeues was awake itself.
LEMMA NextNoLostWork == CoreInv /\ NoLostWork /\ [Next]_vars => NoLostWork'
<1> SUFFICES ASSUME CoreInv, NoLostWork, [Next]_vars, NotEmptyWaiters' # {}
             PROVE  /\ ~shutdown'
                    /\ Len(queue') <= Cardinality(AwakeWorkers')
  BY Zenon DEF NoLostWork
<1> USE AwakeFinite, CardinalityStep
    DEF CoreInv, TypeOK, NoLostWork, NotEmptyWaiters, AwakeWorkers
<1> DEFINE Goal == ~shutdown' /\ Len(queue') <= Cardinality(AwakeWorkers')
<1>0. Len(queue) \in Nat /\ Cardinality(AwakeWorkers) \in Nat
  <2>1. Len(queue) \in Nat
    OBVIOUS
  <2> QED
    BY <2>1, FS_CardinalityType, Zenon
<1>1. ASSUME NEW w \in Workers, WorkerWait(w) PROVE Goal
  <2>1. Len(queue') = 0 /\ ~shutdown'
    BY <1>1, Zenon DEF WorkerWait, WorkerMustWait
  <2>2. AwakeWorkers' = AwakeWorkers \ {w}
    BY <1>1, Zenon DEF WorkerWait
  <2>3. Cardinality(AwakeWorkers') \in Nat
    BY <2>2, FS_CardinalityType, Zenon
  <2> QED
    BY <2>1, <2>3
<1>2. ASSUME NEW w \in Workers, WorkerExit(w) PROVE Goal
  BY <1>2, Zenon DEF WorkerExit
<1>3. ASSUME NEW w \in Workers, WorkerDequeue(w) PROVE Goal
  <2>1. Len(queue') = Len(queue) - 1
    BY <1>3 DEF WorkerDequeue, WorkerMustWait
  <2>2. AwakeWorkers' = AwakeWorkers \ {w} /\ w \in AwakeWorkers
    BY <1>3, Zenon DEF WorkerDequeue
  <2>3. Cardinality(AwakeWorkers') = Cardinality(AwakeWorkers) - 1
    BY <2>2, Zenon
  <2>4. NotEmptyWaiters # {}
    BY <1>3, Zenon DEF WorkerDequeue
  <2>5. ~shutdown'
    BY <2>4, <1>3, Zenon DEF WorkerDequeue
  <2> QED
    BY <1>0, <2>1, <2>3, <2>4, <2>5
<1>4. ASSUME NEW w \in Workers, WorkerFinish(w) PROVE Goal
  <2>1. AwakeWorkers' = AwakeWorkers \cup {w} /\ w \notin AwakeWorkers
    BY <1>4, Zenon DEF WorkerFinish
  <2>2. Cardinality(AwakeWorkers') = Cardinality(AwakeWorkers) + 1
    BY <2>1, Zenon
  <2>3. NotEmptyWaiters # {} /\ UNCHANGED <<queue, shutdown>>
    BY <1>4, Zenon DEF WorkerFinish
  <2> QED
    BY <1>0, <2>2, <2>3
<1>5. ASSUME NEW t \in Threads, SubmitEnqueue(t) PROVE Goal
  <2>1. PICK v \in NotEmptyWaiters : worker' = [worker EXCEPT ![v] = "loop"]
    BY <1>5, Zenon DEF SubmitEnqueue, SignalNotEmpty
  <2>2. AwakeWorkers' = AwakeWorkers \cup {v} /\ v \notin AwakeWorkers
    BY <2>1, Zenon
  <2>3. Cardinality(AwakeWorkers') = Cardinality(AwakeWorkers) + 1
    BY <2>2, Zenon
  <2>4. item[t] \in Items
    BY <1>5, Zenon DEF SubmitEnqueue, Control
  <2>5. Len(queue') = Len(queue) + 1 /\ ~shutdown'
    BY <1>5, <2>4 DEF SubmitEnqueue
  <2> QED
    BY <1>0, <2>1, <2>3, <2>5
<1>6. ASSUME NEW w \in Workers, SpuriousWakeWorker(w) PROVE Goal
  <2>1. AwakeWorkers' = AwakeWorkers \cup {w} /\ w \notin AwakeWorkers
    BY <1>6, Zenon DEF SpuriousWakeWorker
  <2>2. Cardinality(AwakeWorkers') = Cardinality(AwakeWorkers) + 1
    BY <2>1, Zenon
  <2>3. NotEmptyWaiters # {} /\ UNCHANGED <<queue, shutdown>>
    BY <1>6, Zenon DEF SpuriousWakeWorker
  <2> QED
    BY <1>0, <2>2, <2>3
<1>7. CASE DestroyBegin
  BY <1>7, Zenon DEF DestroyBegin
<1>8. CASE DestroyFree
  BY <1>8, ThreadsAssumption, Zenon DEF DestroyFree
<1>9. CASE UNCHANGED <<queue, shutdown, worker>>
  BY <1>9, Zenon
<1> QED
  BY <1>1, <1>2, <1>3, <1>4, <1>5, <1>6, <1>7, <1>8, <1>9, Zenon
  DEF Next, WorkerStep, SubmitStep, Terminated, vars, SubmitCall,
      SubmitNoMemory, SubmitWait, SubmitReject, SpuriousWakeSubmitter

\* While a worker sleeps on queue_not_empty there is an awake worker for each
\* queued item, for every number of workers and submitters: one signal per
\* enqueue suffices.
THEOREM NoLostWorkCorrect == Spec => []NoLostWork
BY CoreCorrect, InitNoLostWork, NextNoLostWork, PTL DEF Spec

\* Nobody waits on queue_not_full in a new pool.
LEMMA InitNoLostSlot == Init => NoLostSlot
BY Zenon DEF Init, NoLostSlot, NotFullWaiters

\* Each critical section preserves NoLostSlot: a dequeue wakes a submitter, and
\* a submitter that enqueues was awake itself.
LEMMA NextNoLostSlot == CoreInv /\ NoLostSlot /\ [Next]_vars => NoLostSlot'
<1> SUFFICES ASSUME CoreInv, NoLostSlot, [Next]_vars, NotFullWaiters' # {}
             PROVE  /\ ~shutdown'
                    /\ Capacity - Len(queue') <= Cardinality(AwakeSubmitters')
  BY Zenon DEF NoLostSlot
<1> USE CapacityPos, AwakeFinite, CardinalityStep
    DEF CoreInv, TypeOK, NoLostSlot, NotFullWaiters, AwakeSubmitters
<1> DEFINE Goal == /\ ~shutdown'
                   /\ Capacity - Len(queue') <= Cardinality(AwakeSubmitters')
<1>0. Len(queue) \in Nat /\ Cardinality(AwakeSubmitters) \in Nat
  <2>1. Len(queue) \in Nat
    OBVIOUS
  <2> QED
    BY <2>1, FS_CardinalityType, Zenon
<1>1. ASSUME NEW w \in Workers, WorkerDequeue(w) PROVE Goal
  <2>1. PICK v \in NotFullWaiters : submit' = [submit EXCEPT ![v] = "lock"]
    BY <1>1, Zenon DEF WorkerDequeue, SignalNotFull
  <2>2. AwakeSubmitters' = AwakeSubmitters \cup {v} /\ v \notin AwakeSubmitters
    BY <2>1, Zenon
  <2>3. Cardinality(AwakeSubmitters') = Cardinality(AwakeSubmitters) + 1
    BY <2>2, Zenon
  <2>4. Len(queue') = Len(queue) - 1 /\ ~shutdown'
    BY <1>1, <2>1 DEF WorkerDequeue, WorkerMustWait
  <2> QED
    BY <1>0, <2>1, <2>3, <2>4
<1>2. ASSUME NEW t \in Threads, NEW i \in Items, SubmitCall(t, i) PROVE Goal
  <2>1. AwakeSubmitters' = AwakeSubmitters \cup {t} /\ t \notin AwakeSubmitters
    BY <1>2, Zenon DEF SubmitCall, MayCallSubmit
  <2>2. Cardinality(AwakeSubmitters') = Cardinality(AwakeSubmitters) + 1
    BY <2>1, Zenon
  <2>3. NotFullWaiters # {} /\ UNCHANGED <<queue, shutdown>>
    BY <1>2, Zenon DEF SubmitCall
  <2> QED
    BY <1>0, <2>2, <2>3
<1>3. ASSUME NEW t \in Threads, SubmitWait(t) PROVE Goal
  <2>1. AwakeSubmitters' = AwakeSubmitters \ {t}
    BY <1>3, Zenon DEF SubmitWait
  <2>2. Cardinality(AwakeSubmitters') \in Nat
    BY <2>1, FS_CardinalityType, Zenon
  <2>3. Len(queue') >= Capacity /\ ~shutdown' /\ Len(queue') \in Nat
    BY <1>0, <1>3, Zenon DEF SubmitWait, SubmitMustWait
  <2> QED
    BY <2>2, <2>3
<1>4. ASSUME NEW t \in Threads, SubmitReject(t) PROVE Goal
  BY <1>4, Zenon DEF SubmitReject
<1>5. ASSUME NEW t \in Threads, SubmitEnqueue(t) PROVE Goal
  <2>1. AwakeSubmitters' = AwakeSubmitters \ {t} /\ t \in AwakeSubmitters
    BY <1>5, Zenon DEF SubmitEnqueue
  <2>2. Cardinality(AwakeSubmitters') = Cardinality(AwakeSubmitters) - 1
    BY <2>1, Zenon
  <2>3. item[t] \in Items /\ NotFullWaiters # {}
    BY <1>5, Zenon DEF SubmitEnqueue, Control
  <2>4. Len(queue') = Len(queue) + 1 /\ ~shutdown'
    BY <1>5, <2>3 DEF SubmitEnqueue
  <2> QED
    BY <1>0, <2>2, <2>3, <2>4
<1>6. ASSUME NEW t \in Threads, SpuriousWakeSubmitter(t) PROVE Goal
  <2>1. AwakeSubmitters' = AwakeSubmitters \cup {t} /\ t \notin AwakeSubmitters
    BY <1>6, Zenon DEF SpuriousWakeSubmitter
  <2>2. Cardinality(AwakeSubmitters') = Cardinality(AwakeSubmitters) + 1
    BY <2>1, Zenon
  <2>3. NotFullWaiters # {} /\ UNCHANGED <<queue, shutdown>>
    BY <1>6, Zenon DEF SpuriousWakeSubmitter
  <2> QED
    BY <1>0, <2>2, <2>3
<1>7. CASE DestroyBegin
  BY <1>7, Zenon DEF DestroyBegin
<1>8. CASE DestroyFree
  BY <1>8, Zenon DEF DestroyFree, Control
<1>9. CASE UNCHANGED <<queue, shutdown, submit>>
  BY <1>9, Zenon
<1> QED
  BY <1>1, <1>2, <1>3, <1>4, <1>5, <1>6, <1>7, <1>8, <1>9, Zenon
  DEF Next, WorkerStep, SubmitStep, Terminated, vars, WorkerWait, WorkerExit,
      WorkerFinish, SubmitNoMemory, SpuriousWakeWorker

\* While a submitter sleeps on queue_not_full there is an awake submitter for
\* each free slot, for every capacity and every number of threads: one signal
\* per dequeue suffices.
THEOREM NoLostSlotCorrect == Spec => []NoLostSlot
BY CoreCorrect, InitNoLostSlot, NextNoLostSlot, PTL DEF Spec
=============================================================================
