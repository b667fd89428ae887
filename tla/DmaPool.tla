------------------------------ MODULE DmaPool -------------------------------
(***************************************************************************)
(* The pool of DMA buffers (src/utils/dma_pool.c) and the life of every    *)
(* buffer the engine gets from it or from dma_alloc: those of              *)
(* kv_engine_retrieve, of a misaligned kv_engine_store, and those the      *)
(* application gets from kv_engine_alloc_buffer or a retrieve and gives to *)
(* kv_engine_free_buffer.  A buffer of the pool is a number; one from      *)
(* dma_alloc is Heap.  A client holds one buffer at a time: one that holds *)
(* several is as good as several clients.                                  *)
(***************************************************************************)
EXTENDS Integers, Sequences, FiniteSets

CONSTANTS
    Clients,
    Count,         \* the count argument, config->dma_pool_count
    AllocFaults,   \* TRUE iff dma_alloc may fail
    None, Heap,
    Garbage        \* the content of memory that was never written

Buffers == 1 .. Count

ASSUME DmaAssumption ==
    /\ IsFiniteSet(Clients)
    /\ Count \in Nat \ {0}
    /\ AllocFaults \in BOOLEAN
    /\ {None, Heap, Garbage} \cap Nat = {} /\ None # Heap

VARIABLES
    state,        \* of the pool
    all_buffers,  \* the array of that name
    free_list,    \* the stack; top is its length - 1
    heap,         \* how many buffers of dma_alloc have not been freed
    pc,           \* where each client is
    held,         \* the buffer it has
    from_pool     \* kv_engine_retrieve's variable

vars == <<state, all_buffers, free_list, heap, pc, held, from_pool>>

TypeOK ==
    /\ state \in {"creating", "ready", "absent", "crashed", "destroyed"}
    /\ all_buffers \in [Buffers -> Buffers \cup {Garbage}]
    /\ free_list \in Seq(Buffers) /\ Len(free_list) <= Count
    /\ heap \in Int
    /\ pc \in [Clients -> {"idle", "first", "small", "second", "aligned", "owner"}]
    /\ held \in [Clients -> Buffers \cup {None, Heap}]
    /\ from_pool \in [Clients -> BOOLEAN]

\* The two arrays come from malloc.
Init ==
    /\ state = "creating"
    /\ all_buffers = [i \in Buffers |-> Garbage]
    /\ free_list = <<>>
    /\ heap = 0
    /\ pc = [c \in Clients |-> "idle"]
    /\ held = [c \in Clients |-> None]
    /\ from_pool = [c \in Clients |-> FALSE]

clientVars == <<heap, pc, held, from_pool>>

-----------------------------------------------------------------------------
(* dma_pool_create and dma_pool_destroy                                    *)

\* One round of the loop; the k-th buffer allocated is buffer k.
CreateBuffer ==
    LET k == Len(free_list) + 1
    IN  /\ state = "creating"
        /\ k <= Count
        /\ free_list' = Append(free_list, k)
        /\ all_buffers' = [all_buffers EXCEPT ![k] = k]
        /\ UNCHANGED <<state, clientVars>>

Created ==
    /\ state = "creating"
    /\ Len(free_list) = Count
    /\ state' = "ready"
    /\ UNCHANGED <<all_buffers, free_list, clientVars>>

\* An allocation fails and dma_pool_destroy frees all count elements of
\* all_buffers: the ones that were never written are undefined, and the process
\* may crash or go on without a pool.
CreateFails ==
    /\ AllocFaults
    /\ state = "creating"
    /\ Len(free_list) < Count
    /\ free_list' = <<>>
    /\ state' \in {"absent", "crashed"}
    /\ UNCHANGED <<all_buffers, clientVars>>

\* kv_engine_cleanup, when the application has given all buffers back.
Destroy ==
    /\ state = "ready"
    /\ \A c \in Clients : pc[c] = "idle"
    /\ free_list' = <<>>
    /\ state' = "destroyed"
    /\ UNCHANGED <<all_buffers, clientVars>>

-----------------------------------------------------------------------------
(* Getting a buffer and giving it back                                     *)

\* The engine exists: its pool was created, or it goes on without one.
Running == state \in {"ready", "absent"}

\* Mutant: an exhausted pool is not noticed.
Pop_Unchecked(c) ==
    /\ state = "ready"
    /\ held' = [held EXCEPT ![c] = IF free_list = <<>> THEN Garbage
                                   ELSE free_list[Len(free_list)]]
    /\ free_list' = IF free_list = <<>> THEN <<>>
                    ELSE SubSeq(free_list, 1, Len(free_list) - 1)
    /\ UNCHANGED heap

\* dma_pool_acquire, when the pool is not exhausted.
Pop(c) ==
    /\ state = "ready" /\ free_list # <<>>
    /\ held' = [held EXCEPT ![c] = free_list[Len(free_list)]]
    /\ free_list' = SubSeq(free_list, 1, Len(free_list) - 1)
    /\ UNCHANGED heap

\* dma_alloc, when it succeeds; a call that gets NULL has no other effect.
Malloc(c) ==
    /\ held' = [held EXCEPT ![c] = Heap]
    /\ heap' = heap + 1
    /\ UNCHANGED free_list

\* Mutant: the test for a full pool is off by one.
Push_OffByOne(c) ==
    /\ free_list' = IF Len(free_list) + 1 >= Count THEN free_list
                    ELSE Append(free_list, held[c])
    /\ held' = [held EXCEPT ![c] = None]
    /\ UNCHANGED heap

\* dma_pool_release; a full pool ignores it.
Push(c) ==
    /\ free_list' = IF Len(free_list) >= Count THEN free_list
                    ELSE Append(free_list, held[c])
    /\ held' = [held EXCEPT ![c] = None]
    /\ UNCHANGED heap

\* dma_free
Free(c) ==
    /\ heap' = heap - 1
    /\ held' = [held EXCEPT ![c] = None]
    /\ UNCHANGED free_list

\* if (from_pool) dma_pool_release(...); else dma_free(...);
Discard(c) == IF from_pool[c] THEN Push(c) ELSE Free(c)

Owns(b) == \E i \in Buffers : all_buffers[i] = b

-----------------------------------------------------------------------------
(* kv_engine_retrieve                                                      *)

\* The first buffer: from the pool, or allocated if there is none.
RetrieveBegins(c) ==
    /\ Running /\ pc[c] = "idle"
    /\ Pop(c) \/ (~(state = "ready" /\ free_list # <<>>) /\ Malloc(c))
    /\ from_pool' = [from_pool EXCEPT ![c] = held'[c] # Heap]
    /\ pc' = [pc EXCEPT ![c] = "first"]
    /\ UNCHANGED <<state, all_buffers>>

\* Mutant: from_pool keeps its value although the buffer is given back.
BufferSmall_KeepsFlag(c) ==
    /\ pc[c] = "first"
    /\ Discard(c)
    /\ pc' = [pc EXCEPT ![c] = "small"]
    /\ UNCHANGED <<state, all_buffers, from_pool>>

\* KVS_ERR_BUFFER_SMALL: the first buffer goes back where it came from.
BufferSmall(c) ==
    /\ pc[c] = "first"
    /\ Discard(c)
    /\ from_pool' = [from_pool EXCEPT ![c] = FALSE]
    /\ pc' = [pc EXCEPT ![c] = "small"]
    /\ UNCHANGED <<state, all_buffers>>

\* The second buffer is always allocated; without it the call returns.
SecondBuffer(c) ==
    /\ pc[c] = "small"
    /\ \/ Malloc(c) /\ pc' = [pc EXCEPT ![c] = "second"]
       \/ AllocFaults /\ pc' = [pc EXCEPT ![c] = "idle"] /\ UNCHANGED <<free_list, heap, held>>
    /\ UNCHANGED <<state, all_buffers, from_pool>>

\* Any other failure, of the first or the second attempt.
RetrieveFails(c) ==
    /\ pc[c] \in {"first", "second"}
    /\ Discard(c)
    /\ from_pool' = [from_pool EXCEPT ![c] = FALSE]
    /\ pc' = [pc EXCEPT ![c] = "idle"]
    /\ UNCHANGED <<state, all_buffers>>

\* The value and its buffer are the application's.
RetrieveSucceeds(c) ==
    /\ pc[c] \in {"first", "second"}
    /\ from_pool' = [from_pool EXCEPT ![c] = FALSE]
    /\ pc' = [pc EXCEPT ![c] = "owner"]
    /\ UNCHANGED <<state, all_buffers, free_list, heap, held>>

-----------------------------------------------------------------------------
(* kv_engine_store, kv_engine_alloc_buffer and kv_engine_free_buffer       *)

\* A value that is not aligned is copied into a buffer for the device call.
StoreAligns(c) ==
    /\ Running /\ pc[c] = "idle"
    /\ Malloc(c)
    /\ pc' = [pc EXCEPT ![c] = "aligned"]
    /\ UNCHANGED <<state, all_buffers, from_pool>>

StoreReturns(c) ==
    /\ pc[c] = "aligned"
    /\ Free(c)
    /\ pc' = [pc EXCEPT ![c] = "idle"]
    /\ UNCHANGED <<state, all_buffers, from_pool>>

\* From the pool, or from dma_alloc when the size exceeds the pool's buffer size,
\* the pool is exhausted or there is none.
AllocBuffer(c) ==
    /\ Running /\ pc[c] = "idle"
    /\ Pop(c) \/ Malloc(c)
    /\ pc' = [pc EXCEPT ![c] = "owner"]
    /\ UNCHANGED <<state, all_buffers, from_pool>>

FreeBuffer(c) ==
    /\ pc[c] = "owner"
    /\ IF state = "ready" /\ Owns(held[c]) THEN Push(c) ELSE Free(c)
    /\ pc' = [pc EXCEPT ![c] = "idle"]
    /\ UNCHANGED <<state, all_buffers, from_pool>>

Terminated == state \in {"crashed", "destroyed"} /\ UNCHANGED vars

ClientStep(c) ==
    \/ RetrieveBegins(c) \/ BufferSmall(c) \/ SecondBuffer(c)
    \/ RetrieveFails(c) \/ RetrieveSucceeds(c)
    \/ StoreAligns(c) \/ StoreReturns(c) \/ AllocBuffer(c) \/ FreeBuffer(c)

Next ==
    \/ CreateBuffer \/ Created \/ CreateFails \/ Destroy
    \/ \E c \in Clients : ClientStep(c)
    \/ Terminated

Spec == Init /\ [][Next]_vars

-----------------------------------------------------------------------------
(* Properties                                                              *)

\* While the pool is in use every buffer of it is in exactly one place: free once,
\* or with one client.  No buffer is handed out twice, and none is lost by the
\* paths of a retrieve that give it back early.
OnePlace(b) ==
    LET free == {n \in DOMAIN free_list : free_list[n] = b}
        holders == {c \in Clients : held[c] = b}
    IN  \/ holders = {} /\ \E n \in free : free = {n}
        \/ free = {} /\ \E c \in holders : holders = {c}
BuffersConserved == state = "ready" => \A b \in Buffers : OnePlace(b)

\* Every buffer of dma_alloc is freed exactly once, by the path of retrieve, store
\* or free_buffer it is on: those not yet freed are those that somebody holds, and
\* a buffer of the pool is never passed to dma_free.
HeapBalanced == heap = Cardinality({c \in Clients : held[c] = Heap})
=============================================================================
