----------------------------- MODULE MCKvEngine -----------------------------
(* Instances of KvEngine for TLC.                                          *)
EXTENDS KvEngine, Fnv1a, TLC

CONSTANTS k1, k2, small, mid, odd, huge

\* The keys are "key1" and "key2", which one device keeps together and two
\* devices keep apart.
KeyBytes == (k1 :> <<107, 101, 121, 49>>) @@ (k2 :> <<107, 101, 121, 50>>)
MCHash == [k \in Keys |-> IF k = k1 THEN 927623783 ELSE 944401402]

ASSUME HashIsFnv1a ==
    \A k \in Keys : LET w == Hash32(KeyBytes[k]) IN MCHash[k] = w.hi * Half + w.lo

\* With a first buffer of 4 bytes and a limit of 10: a value that fits the first
\* buffer of a retrieve, one for a second attempt, one whose length the front end
\* refuses in a second attempt, and one that is too long to be stored.
MCSize == (small :> 4) @@ (mid :> 8) @@ (odd :> 10) @@ (huge :> 12)

\* Threads are interchangeable; used for safety only.
Symmetry == Permutations(Threads)
=============================================================================
