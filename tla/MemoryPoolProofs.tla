-------------------------- MODULE MemoryPoolProofs --------------------------
(***************************************************************************)
(* Blocks of the bump allocator are disjoint, for every alignment, pool    *)
(* size and sequence of allocations.                                       *)
(***************************************************************************)
EXTENDS MemoryPool, TLAPS

\* No block is larger than the pool.
Modest == \A b \in blocks : b.size <= PoolSize

\* used is aligned between allocations, so rounding it up changes nothing, and
\* every block ends at or below it until a sum has wrapped around.
PoolInv ==
    /\ TypeOK
    /\ used % Alignment = 0
    /\ Modest => \A b \in blocks : b.id < count /\ b.offset + b.size <= used
    /\ BlocksDisjoint

\* Rounding down to a multiple.
LEMMA RoundDown ==
    ASSUME NEW d \in Nat \ {0}, NEW n \in Nat
    PROVE  /\ n - (n % d) \in Nat
           /\ n - (n % d) <= n /\ n < n - (n % d) + d
           /\ (n - (n % d)) % d = 0
<1>1. n % d \in 0 .. d - 1
  OBVIOUS
<1>2. n \div d \in Nat /\ n = d * (n \div d) + (n % d)
  OBVIOUS
<1>3. n - (n % d) = d * (n \div d)
  BY <1>1, <1>2
<1>4. (d * (n \div d)) % d = 0
  BY <1>2
<1> QED
  BY <1>1, <1>2, <1>3, <1>4

\* Multiples of d are closed under addition.
LEMMA SumOfMultiples ==
    ASSUME NEW d \in Nat \ {0}, NEW m \in Nat, NEW n \in Nat, m % d = 0, n % d = 0
    PROVE  (m + n) % d = 0
<1>1. /\ m \div d \in Nat /\ m = d * (m \div d)
      /\ n \div d \in Nat /\ n = d * (n \div d)
  OBVIOUS
<1>2. m + n = d * ((m \div d) + (n \div d))
  BY <1>1
<1>3. (d * ((m \div d) + (n \div d))) % d = 0
  BY <1>1
<1> QED
  BY <1>2, <1>3, Zenon

\* Wrapping around at a multiple of d keeps multiples of d.
LEMMA WrappedMultiple ==
    ASSUME NEW d \in Nat \ {0}, NEW s \in Nat \ {0}, NEW x \in Nat, s % d = 0, x % d = 0
    PROVE  x % s \in Nat /\ (x % s) % d = 0
<1> DEFINE a == s \div d
           b == x \div d
           q == x \div s
<1>1. a \in Nat /\ s = d * a
  OBVIOUS
<1>2. b \in Nat /\ x = d * b
  OBVIOUS
<1>3. q \in Nat /\ x % s \in Nat /\ x = s * q + (x % s)
  OBVIOUS
<1> HIDE DEF a, b, q
<1> DEFINE p == a * q
           e == b - p
<1>4. p \in Nat /\ s * q = d * p
  <2>1. p \in Nat
    BY <1>1, <1>3
  <2>2. (d * a) * q = d * p
    BY <1>1, <1>3
  <2> QED
    BY <1>1, <2>1, <2>2, Zenon
<1> HIDE DEF p
<1>5. e \in Int /\ d * e = d * b - d * p
  BY <1>2, <1>4
<1> HIDE DEF e
<1>6. x % s = d * e
  <2> DEFINE u == d * b
             v == d * p
             w == x % s
  <2>1. u \in Nat /\ v \in Nat /\ w \in Nat
    BY <1>2, <1>3, <1>4
  <2>2. u = v + w /\ d * e = u - v
    BY <1>2, <1>3, <1>4, <1>5, Zenon
  <2> HIDE DEF u, v, w
  <2>3. w = d * e
    BY <2>1, <2>2
  <2> QED
    BY <2>3, Zenon DEF w
<1>7. e \in Nat
  <2>1. e < 0 => d * e < 0
    BY <1>5
  <2> QED
    BY <1>3, <1>5, <1>6, <2>1
<1>8. (d * e) % d = 0
  BY <1>7
<1> QED
  BY <1>3, <1>6, <1>8, Zenon

\* The remainder of a multiple of d plus something smaller than d.
LEMMA Remainder ==
    ASSUME NEW d \in Nat \ {0}, NEW m \in Nat, m % d = 0, NEW r \in 0 .. d - 1
    PROVE  (m + r) % d = r
<1>1. m \div d \in Nat /\ m = d * (m \div d)
  OBVIOUS
<1> DEFINE q == m \div d
           x == m + r
           k == (x \div d) - q
<1>2. x \in Nat /\ x \div d \in Nat /\ x % d \in 0 .. d - 1 /\ x = d * (x \div d) + (x % d)
  OBVIOUS
<1>3. k \in Int /\ q \in Nat /\ m = d * q
  BY <1>1, <1>2
<1> HIDE DEF q
<1>4. d * k = r - (x % d)
  <2>1. d * k = d * (x \div d) - d * q
    BY <1>2, <1>3
  <2>2. d * q \in Nat /\ d * (x \div d) \in Nat /\ x = d * q + r
    BY <1>2, <1>3
  <2> QED
    BY <1>2, <2>1, <2>2
<1>5. -d < d * k /\ d * k < d
  BY <1>2, <1>4
<1>6. k >= 1 => d * k >= d
  BY <1>3
<1>7. k <= -1 => d * k <= -d
  BY <1>3
<1>8. k = 0
  BY <1>3, <1>5, <1>6, <1>7
<1> QED
  BY <1>2, <1>4, <1>8

\* ALIGN_UP rounds up to the next multiple if that is a size_t, and keeps a
\* multiple as it is.
LEMMA AlignUpRounds ==
    ASSUME NEW n \in Nat, n + Alignment - 1 < SizeMod
    PROVE  /\ AlignUp(n) \in Nat
           /\ n <= AlignUp(n) /\ AlignUp(n) < n + Alignment
           /\ AlignUp(n) % Alignment = 0
           /\ n % Alignment = 0 => AlignUp(n) = n
<1> DEFINE m == n + (Alignment - 1)
<1>1. /\ Alignment \in Nat \ {0} /\ SizeMod \in Nat
      /\ m \in Nat /\ m < SizeMod
      /\ n + Alignment - 1 = m
  BY PoolAssumption
<1>2. AlignUp(n) = (m % SizeMod) - ((m % SizeMod) % Alignment)
  BY <1>1, Zenon DEF AlignUp
<1>3. n % Alignment = 0 => m % Alignment = Alignment - 1
  <2>1. Alignment - 1 \in 0 .. Alignment - 1
    BY <1>1
  <2> QED
    BY <1>1, <2>1, Remainder, Zenon
<1>4. m = n + (Alignment - 1)
  BY Zenon
<1> HIDE DEF m
<1>5. AlignUp(n) = m - (m % Alignment)
  <2>1. m % SizeMod = m
    BY <1>1
  <2> QED
    BY <1>2, <2>1, Zenon
<1>6. /\ m - (m % Alignment) \in Nat
      /\ m - (m % Alignment) <= m /\ m < m - (m % Alignment) + Alignment
      /\ (m - (m % Alignment)) % Alignment = 0
  BY <1>1, RoundDown, Zenon
<1>7. /\ AlignUp(n) \in Nat /\ AlignUp(n) <= m
      /\ m < AlignUp(n) + Alignment /\ AlignUp(n) % Alignment = 0
  BY <1>5, <1>6, Zenon
<1>8. n % Alignment = 0 => AlignUp(n) = n
  BY <1>4, <1>1, <1>5, <1>3
<1> QED
  BY <1>4, <1>1, <1>7, <1>8

\* Whatever the size, ALIGN_UP yields a multiple of the alignment.
LEMMA AlignUpMultiple ==
    ASSUME NEW n \in Nat
    PROVE  AlignUp(n) \in Nat /\ AlignUp(n) % Alignment = 0
<1> DEFINE m == (n + Alignment - 1) % SizeMod
<1>1. Alignment \in Nat \ {0} /\ SizeMod \in Nat \ {0}
  BY PoolAssumption
<1>2. n + Alignment - 1 \in Nat
  BY <1>1
<1>3. m \in Nat
  BY <1>1, <1>2
<1>4. AlignUp(n) = m - (m % Alignment)
  BY Zenon DEF AlignUp
<1> HIDE DEF m
<1> QED
  BY <1>1, <1>3, <1>4, RoundDown, Zenon

\* A request that is larger than the pool and is served wraps around; one that
\* is not does not, and ends where its rounded size ends.
LEMMA AllocEffect ==
    ASSUME PoolInv, NEW size \in Sizes, Fits(size)
    PROVE  /\ AlignUp(used) = used /\ size \in Nat
           /\ End(size) \in 0 .. PoolSize /\ End(size) % Alignment = 0
           /\ size <= PoolSize \/ used + size + Alignment > SizeMod
           /\ size <= PoolSize => used + size <= End(size)
<1>0. /\ Alignment \in Nat \ {0} /\ SizeMod \in Nat \ {0} /\ PoolSize \in Nat
      /\ 2 * PoolSize + 2 * Alignment <= SizeMod /\ SizeMod % Alignment = 0
      /\ used \in Nat /\ used <= PoolSize /\ used % Alignment = 0
      /\ size \in Nat
  BY PoolAssumption DEF PoolInv, TypeOK
<1>1. AlignUp(used) = used
  BY <1>0, AlignUpRounds
<1>2. AlignUp(size) \in Nat /\ AlignUp(size) % Alignment = 0
  BY <1>0, AlignUpMultiple, Zenon
<1> DEFINE x == used + AlignUp(size)
<1>3. x \in Nat /\ x % Alignment = 0 /\ End(size) = x % SizeMod
  BY <1>0, <1>1, <1>2, SumOfMultiples DEF End
<1> HIDE DEF x
<1>4. End(size) \in Nat /\ End(size) % Alignment = 0
  <2>1. x % SizeMod \in Nat /\ (x % SizeMod) % Alignment = 0
    BY <1>0, <1>3, WrappedMultiple, Zenon
  <2> QED
    BY <1>3, <2>1, Zenon
<1>5. End(size) <= PoolSize
  BY Zenon DEF Fits
<1>6. used + size + Alignment <= SizeMod => used + size <= End(size)
  <2> SUFFICES ASSUME used + size + Alignment <= SizeMod PROVE used + size <= End(size)
    BY Zenon
  <2>1. size + Alignment - 1 < SizeMod
    BY <1>0
  <2>2. size <= AlignUp(size) /\ AlignUp(size) < size + Alignment
    BY <1>0, <2>1, AlignUpRounds, Zenon
  <2>3. x < SizeMod /\ used + size <= x
    BY <1>0, <1>2, <2>2 DEF x
  <2>4. x % SizeMod = x
    BY <1>0, <1>3, <2>3
  <2> QED
    BY <1>3, <2>3, <2>4, Zenon
<1> QED
  BY <1>0, <1>1, <1>4, <1>5, <1>6

\* An allocation keeps used aligned and, if nothing has wrapped around, puts its
\* block above all others.
LEMMA NextPool == PoolInv /\ [Next]_vars => PoolInv'
<1> SUFFICES ASSUME PoolInv, [Next]_vars PROVE PoolInv'
  BY Zenon
<1>1. ASSUME NEW size \in Sizes, Alloc(size) PROVE PoolInv'
  <2> DEFINE new == [id |-> count, offset |-> used, size |-> size]
  <2>1. /\ AlignUp(used) = used /\ size \in Nat
        /\ End(size) \in 0 .. PoolSize /\ End(size) % Alignment = 0
        /\ size <= PoolSize \/ used + size + Alignment > SizeMod
        /\ size <= PoolSize => used + size <= End(size)
    BY <1>1, AllocEffect, Zenon DEF Alloc
  <2>2. /\ count < MaxBlocks /\ used' = End(size) /\ count' = count + 1
        /\ blocks' = blocks \cup {new}
    BY <1>1, <2>1, Zenon DEF Alloc
  <2>3. /\ PoolSize \in Nat /\ Alignment \in Nat \ {0} /\ MaxBlocks \in Nat
        /\ TypeOK /\ used \in 0 .. PoolSize /\ count \in 0 .. MaxBlocks
        /\ used % Alignment = 0
    BY PoolAssumption DEF PoolInv, TypeOK
  <2>4. new.id = count /\ new.offset = used /\ new.size = size
    BY Zenon
  <2>5. TypeOK'
    <3>1. count' \in 0 .. MaxBlocks /\ count \in Nat
      BY <2>2, <2>3
    <3>2. new \in [id : Nat, offset : 0 .. PoolSize, size : Sizes]
      BY <2>3, <3>1, Zenon
    <3> QED
      BY <2>1, <2>2, <2>3, <3>1, <3>2, Zenon DEF TypeOK
  <2> HIDE DEF new
  <2>6. \A b \in blocks : b.id \in Nat /\ b.offset \in Nat /\ b.size \in Nat
    <3> SUFFICES ASSUME NEW b \in blocks
                 PROVE  b.id \in Nat /\ b.offset \in Nat /\ b.size \in Nat
      BY Zenon
    <3>1. b \in [id : Nat, offset : 0 .. PoolSize, size : Sizes]
      BY <2>3, Zenon DEF TypeOK
    <3>2. b.id \in Nat /\ b.offset \in 0 .. PoolSize /\ b.size \in Sizes
      BY <3>1, Zenon
    <3>3. b.size \in 0 .. SizeMod - 1
      BY <3>2, PoolAssumption, Zenon
    <3> QED
      BY <3>2, <3>3
  <2>7. ASSUME Modest'
        PROVE  /\ size <= PoolSize /\ Modest
               /\ \A b \in blocks : /\ b.id < count /\ b.offset + b.size <= used
                                    /\ b.offset % Alignment = 0
               /\ \A b, c \in blocks : b.id < c.id => b.offset + b.size <= c.offset
    <3>1. size <= PoolSize /\ Modest
      BY <2>2, <2>4, <2>7, Zenon DEF Modest
    <3> QED
      BY <3>1, Zenon DEF PoolInv, BlocksDisjoint, Modest
  <2>8. Modest' => \A b \in blocks' : b.id < count' /\ b.offset + b.size <= used'
    <3> SUFFICES ASSUME Modest', NEW b \in blocks'
                 PROVE  b.id < count' /\ b.offset + b.size <= used'
      BY Zenon
    <3>1. CASE b = new
      BY <2>1, <2>2, <2>3, <2>4, <2>7, <3>1
    <3>2. CASE b \in blocks
      BY <2>1, <2>2, <2>3, <2>6, <2>7, <3>2
    <3> QED
      BY <2>2, <3>1, <3>2, Zenon
  <2>9. BlocksDisjoint'
    <3>1. \A b \in blocks' : b.size <= PoolSize \/ b.offset + b.size + Alignment > SizeMod
      BY <2>1, <2>2, <2>4, Zenon DEF PoolInv, BlocksDisjoint
    <3>2. ASSUME Modest', NEW b \in blocks'
          PROVE  b.offset % Alignment = 0 /\ b.offset + b.size <= PoolSize
      <4>1. b.offset % Alignment = 0
        BY <2>2, <2>3, <2>4, <2>7, <3>2, Zenon
      <4>2. b.offset + b.size <= used' /\ b.offset + b.size \in Nat
        BY <2>1, <2>2, <2>3, <2>4, <2>6, <2>8, <3>2
      <4> QED
        BY <2>1, <2>2, <2>3, <4>1, <4>2
    <3>3. ASSUME Modest', NEW b \in blocks', NEW c \in blocks', b.id < c.id
          PROVE  b.offset + b.size <= c.offset
      <4>1. CASE b \in blocks /\ c \in blocks
        BY <2>7, <3>3, <4>1, Zenon
      <4>2. CASE b \in blocks /\ c = new
        BY <2>4, <2>7, <3>3, <4>2, Zenon
      <4>3. CASE b = new
        <5>1. c.id < count \/ c.id = count
          BY <2>2, <2>4, <2>7, <3>3, Zenon
        <5>2. c.id \in Nat /\ count \in Nat
          BY <2>2, <2>3, <2>4, <2>6
        <5> QED
          BY <2>4, <3>3, <4>3, <5>1, <5>2
      <4> QED
        BY <2>2, <4>1, <4>2, <4>3, Zenon
    <3> QED
      BY <3>1, <3>2, <3>3, Zenon DEF BlocksDisjoint, Modest
  <2> QED
    BY <2>1, <2>2, <2>5, <2>8, <2>9, Zenon DEF PoolInv
<1>2. CASE UNCHANGED vars
  BY <1>2, Zenon DEF vars, PoolInv, TypeOK, Modest, BlocksDisjoint
<1> QED
  BY <1>1, <1>2, Zenon DEF Next, AllocFails, Free

\* The invariant holds.
LEMMA PoolInvHolds == Spec => []PoolInv
<1>1. Init => PoolInv
  <2>1. 0 % Alignment = 0 /\ 0 \in 0 .. PoolSize /\ 0 \in 0 .. MaxBlocks
    BY PoolAssumption
  <2> QED
    BY <2>1, Zenon DEF Init, PoolInv, TypeOK, Modest, BlocksDisjoint
<1> QED
  BY <1>1, NextPool, PTL DEF Spec

\* memory_pool_alloc never moves used past the end of the pool.
THEOREM MemoryTypeCorrect == Spec => []TypeOK
<1>1. PoolInv => TypeOK
  BY Zenon DEF PoolInv
<1> QED
  BY <1>1, PoolInvHolds, PTL

\* Blocks of memory_pool_alloc are aligned, inside the pool and disjoint until a
\* request larger than the pool is served, which happens only if its rounding or
\* its sum leaves the range of size_t, whatever the sizes asked for.
THEOREM BlocksDisjointCorrect == Spec => []BlocksDisjoint
<1>1. PoolInv => BlocksDisjoint
  BY Zenon DEF PoolInv
<1> QED
  BY <1>1, PoolInvHolds, PTL
=============================================================================
