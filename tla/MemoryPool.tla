----------------------------- MODULE MemoryPool -----------------------------
(***************************************************************************)
(* The bump allocator of src/utils/memory_pool.c.  Sizes and offsets are   *)
(* size_t: arithmetic is modulo SizeMod, 2^64 in the code.  An allocation  *)
(* is one critical section of the pool's lock.                             *)
(***************************************************************************)
EXTENDS Integers

CONSTANTS
    SizeMod,     \* the number of values of a size_t
    Alignment,   \* ALIGNMENT
    PoolSize,    \* the size argument of memory_pool_create
    Sizes,       \* the sizes asked for, any size_t
    MaxBlocks    \* bound on the number of allocations

ASSUME PoolAssumption ==
    /\ Alignment \in Nat \ {0}
    /\ SizeMod \in Nat /\ SizeMod % Alignment = 0
    /\ PoolSize \in Nat /\ 2 * PoolSize + 2 * Alignment <= SizeMod
    /\ Sizes \subseteq 0 .. SizeMod - 1
    /\ MaxBlocks \in Nat

VARIABLES
    used,     \* pool->used
    blocks,   \* the allocations: number, offset and size asked for
    count     \* number of allocations

vars == <<used, blocks, count>>

TypeOK ==
    /\ used \in 0 .. PoolSize
    /\ blocks \in SUBSET [id : Nat, offset : 0 .. PoolSize, size : Sizes]
    /\ count \in 0 .. MaxBlocks

Init ==
    /\ used = 0
    /\ blocks = {}
    /\ count = 0

\* Mutant: rounds down.
AlignUp_Down(n) == n - (n % Alignment)

\* ALIGN_UP: add, then clear the low bits.
AlignUp(n) ==
    LET s == (n + Alignment - 1) % SizeMod
    IN  s - (s % Alignment)

\* The end of a block of the given size, as the code computes it.
End(size) == (AlignUp(used) + AlignUp(size)) % SizeMod

\* Mutant: the size is compared before it is rounded.
Fits_Raw(size) == (AlignUp(used) + size) % SizeMod <= PoolSize

Fits(size) == End(size) <= PoolSize

Alloc(size) ==
    /\ count < MaxBlocks
    /\ Fits(size)
    /\ used' = End(size)
    /\ blocks' = blocks \cup
            {[id |-> count, offset |-> AlignUp(used), size |-> size]}
    /\ count' = count + 1

\* NULL: the pool is exhausted.
AllocFails(size) ==
    /\ ~Fits(size)
    /\ UNCHANGED vars

\* memory_pool_free does nothing; the bound is reached.
Free == UNCHANGED vars

Next ==
    \/ \E size \in Sizes : Alloc(size) \/ AllocFails(size)
    \/ Free

Spec == Init /\ [][Next]_vars

\* Every block lies inside the pool, aligned, and no two blocks overlap,
\* whatever the order of sizes, as long as nothing larger than the pool has been
\* asked for and handed out.  Such a request gets a pointer, rather than the NULL
\* of "Pointer to allocated memory, or NULL if pool is full", only if the sum
\* that memory_pool_alloc compares with the size of the pool leaves the range of
\* size_t.
BlocksDisjoint ==
    /\ \A b \in blocks :
        b.size <= PoolSize \/ b.offset + b.size + Alignment > SizeMod
    /\ (\A b \in blocks : b.size <= PoolSize) =>
        /\ \A b \in blocks :
            /\ b.offset % Alignment = 0
            /\ b.offset + b.size <= PoolSize
        /\ \A b, c \in blocks :
            b.id < c.id => b.offset + b.size <= c.offset
=============================================================================
