--------------------------- MODULE DmaPoolProofs ----------------------------
(***************************************************************************)
(* Proof that the DMA pool neither loses nor shares a buffer, for every    *)
(* number of buffers and clients.                                          *)
(***************************************************************************)
EXTENDS DmaPool, TLAPS

\* Every buffer of the pool is in one place, said without counting.
Places ==
    /\ \A m, n \in DOMAIN free_list : free_list[m] = free_list[n] => m = n
    /\ \A n \in DOMAIN free_list, c \in Clients : free_list[n] # held[c]
    /\ \A c, d \in Clients : held[c] \in Buffers /\ held[c] = held[d] => c = d
    /\ \A b \in Buffers :
          (\E n \in DOMAIN free_list : free_list[n] = b) \/ (\E c \in Clients : held[c] = b)

\* What a client holds follows from where it is.
Holding ==
    \A c \in Clients :
        /\ pc[c] \in {"idle", "small"} <=> held[c] = None
        /\ pc[c] \in {"second", "aligned"} => held[c] = Heap
        /\ from_pool[c] => pc[c] = "first" /\ held[c] \in Buffers
        /\ pc[c] = "first" /\ ~from_pool[c] => held[c] = Heap

\* The pool is filled in order, and nobody uses it before and after its life.
Filling ==
    /\ state = "creating" =>
          \A i \in DOMAIN free_list : free_list[i] = i /\ all_buffers[i] = i
    /\ state = "ready" => \A i \in Buffers : all_buffers[i] = i
    /\ state \in {"creating", "crashed", "destroyed"} => \A c \in Clients : pc[c] = "idle"
    /\ state # "ready" => \A c \in Clients : held[c] \notin Buffers

PoolInv == TypeOK /\ Holding /\ Filling /\ (state = "ready" => Places)

\* A client that holds a buffer of the pool finds room for it on the stack.
Room(c) == state = "ready" /\ held[c] \in Buffers => Len(free_list) < Count

\* dma_pool_acquire moves one buffer from the stack to the client.
LEMMA PopPlaces ==
    ASSUME TypeOK, Places, NEW c \in Clients, held[c] = None, Pop(c)
    PROVE  Places' /\ held'[c] \in Buffers /\ free_list' \in Seq(Buffers)
           /\ Len(free_list') <= Count
<1> DEFINE n == Len(free_list)
<1>1. /\ n \in Nat \ {0} /\ n <= Count
      /\ free_list' = SubSeq(free_list, 1, n - 1)
      /\ held' = [held EXCEPT ![c] = free_list[n]]
      /\ free_list \in Seq(Buffers)
  BY DEF TypeOK, Pop
<1>2. /\ free_list' \in Seq(Buffers) /\ Len(free_list') = n - 1
      /\ DOMAIN free_list' = 1 .. n - 1 /\ DOMAIN free_list = 1 .. n
      /\ \A i \in 1 .. n - 1 : free_list'[i] = free_list[i]
  <2>1. \A i \in 1 .. n - 1 : free_list[i] \in Buffers
    BY <1>1
  <2> HIDE DEF n
  <2>2. Len(free_list') = n - 1
    BY <1>1
  <2>3. \A i \in 1 .. n - 1 : free_list'[i] = free_list[i]
    BY <1>1
  <2>4. free_list' \in Seq(Buffers)
    BY <1>1, <2>1, <2>2, <2>3
  <2>5. DOMAIN free_list' = 1 .. n - 1
    BY <2>2, <2>4
  <2>6. DOMAIN free_list = 1 .. n
    BY <1>1 DEF n
  <2> QED
    BY <2>2, <2>3, <2>4, <2>5, <2>6, Zenon
<1>3. free_list[n] \in Buffers /\ held'[c] = free_list[n]
  BY <1>1 DEF TypeOK
<1>4. \A d \in Clients : d # c => held'[d] = held[d]
  BY <1>1, Zenon DEF TypeOK
<1>5. None \notin Buffers /\ Count \in Nat
  BY DmaAssumption DEF Buffers
<1> HIDE DEF n
<1>6. \A i, j \in DOMAIN free_list' : free_list'[i] = free_list'[j] => i = j
  BY <1>1, <1>2 DEF Places
<1>7. \A i \in DOMAIN free_list', d \in Clients : free_list'[i] # held'[d]
  BY <1>1, <1>2, <1>3, <1>4 DEF Places
<1>8. \A d, e \in Clients : held'[d] \in Buffers /\ held'[d] = held'[e] => d = e
  BY <1>1, <1>2, <1>3, <1>4 DEF Places
<1>9. \A b \in Buffers :
        (\E i \in DOMAIN free_list' : free_list'[i] = b) \/ (\E d \in Clients : held'[d] = b)
  <2> SUFFICES ASSUME NEW b \in Buffers, b # free_list[n]
               PROVE  (\E i \in DOMAIN free_list' : free_list'[i] = b)
                      \/ (\E d \in Clients : held'[d] = b)
    BY <1>3, Zenon
  <2>1. CASE \E i \in DOMAIN free_list : free_list[i] = b
    <3>1. PICK i \in 1 .. n : free_list[i] = b
      BY <2>1, <1>2, Zenon
    <3>2. i \in 1 .. n - 1
      BY <3>1, <1>1
    <3> QED
      BY <3>1, <3>2, <1>2, Zenon
  <2>2. CASE \E d \in Clients : held[d] = b
    BY <2>2, <1>4, <1>5, Zenon
  <2> QED
    BY <2>1, <2>2, Zenon DEF Places
<1> QED
  BY <1>1, <1>2, <1>3, <1>5, <1>6, <1>7, <1>8, <1>9 DEF Places

\* dma_pool_release moves the client's buffer back onto the stack.
LEMMA PushPlaces ==
    ASSUME TypeOK, Places, NEW c \in Clients, held[c] \in Buffers, Push(c),
           Len(free_list) < Count
    PROVE  Places' /\ free_list' \in Seq(Buffers) /\ Len(free_list') <= Count
<1> DEFINE n == Len(free_list)
<1>1. /\ free_list \in Seq(Buffers) /\ n \in Nat /\ n < Count
      /\ free_list' = Append(free_list, held[c])
      /\ held' = [held EXCEPT ![c] = None]
  BY DmaAssumption DEF TypeOK, Push
<1>2. /\ free_list' \in Seq(Buffers) /\ Len(free_list') = n + 1
      /\ DOMAIN free_list' = 1 .. n + 1 /\ DOMAIN free_list = 1 .. n
      /\ \A i \in 1 .. n : free_list'[i] = free_list[i]
      /\ free_list'[n + 1] = held[c]
  BY <1>1
<1>3. held'[c] = None /\ \A d \in Clients : d # c => held'[d] = held[d]
  BY <1>1, Zenon DEF TypeOK
<1>4. None \notin Buffers /\ Count \in Nat
  BY DmaAssumption DEF Buffers
<1> HIDE DEF n
<1>5. \A i \in DOMAIN free_list' : i \in 1 .. n \/ i = n + 1
  BY <1>1, <1>2
<1>6. \A i, j \in DOMAIN free_list' : free_list'[i] = free_list'[j] => i = j
  BY <1>2, <1>5 DEF Places
<1>7. \A i \in DOMAIN free_list', d \in Clients : free_list'[i] # held'[d]
  <2> TAKE i \in DOMAIN free_list', d \in Clients
  <2>1. free_list'[i] \in Buffers
    BY <1>2
  <2>2. CASE d = c
    BY <2>1, <2>2, <1>3, <1>4, Zenon
  <2>3. CASE d # c
    BY <2>3, <1>2, <1>3, <1>5 DEF Places
  <2> QED
    BY <2>2, <2>3, Zenon
<1>8. \A d, e \in Clients : held'[d] \in Buffers /\ held'[d] = held'[e] => d = e
  BY <1>3, <1>4 DEF Places
<1>9. \A b \in Buffers :
        (\E i \in DOMAIN free_list' : free_list'[i] = b) \/ (\E d \in Clients : held'[d] = b)
  <2> TAKE b \in Buffers
  <2>1. CASE b = held[c]
    BY <2>1, <1>1, <1>2
  <2>2. CASE \E i \in DOMAIN free_list : free_list[i] = b
    BY <2>2, <1>1, <1>2
  <2>3. CASE b # held[c] /\ \E d \in Clients : held[d] = b
    BY <2>3, <1>3, Zenon
  <2> QED
    BY <2>1, <2>2, <2>3, Zenon DEF Places
<1> QED
  BY <1>1, <1>2, <1>4, <1>6, <1>7, <1>8, <1>9 DEF Places

\* Buffers of dma_alloc come and go without touching the pool's.
LEMMA HeapPlaces ==
    ASSUME TypeOK, Places, NEW c \in Clients, held[c] \notin Buffers, Malloc(c) \/ Free(c)
    PROVE  Places'
<1>1. /\ free_list' = free_list
      /\ held'[c] \in {None, Heap}
      /\ \A d \in Clients : d # c => held'[d] = held[d]
  BY Zenon DEF TypeOK, Malloc, Free
<1>2. None \notin Buffers /\ Heap \notin Buffers
  BY DmaAssumption DEF Buffers
<1>3. \A n \in DOMAIN free_list : free_list[n] \in Buffers
  BY DEF TypeOK
<1> QED
  BY <1>1, <1>2, <1>3 DEF Places

-----------------------------------------------------------------------------
(* The invariant                                                           *)

\* Nobody holds a buffer while the pool is being created.
LEMMA InitPool == Init => PoolInv
<1> SUFFICES ASSUME Init PROVE PoolInv
  BY Zenon
<1>1. None \notin Buffers /\ Count \in Nat
  BY DmaAssumption DEF Buffers
<1> QED
  BY <1>1 DEF Init, PoolInv, TypeOK, Holding, Filling

\* The creation and the destruction of the pool.
LEMMA PoolSteps ==
    ASSUME PoolInv, CreateBuffer \/ Created \/ CreateFails \/ Destroy PROVE PoolInv'
<1> USE DEF PoolInv, clientVars
<1>0. /\ Count \in Nat /\ Count > 0 /\ None \notin Buffers /\ Heap \notin Buffers
      /\ \A c \in Clients : state = "creating" => held[c] = None
  BY DmaAssumption DEF Buffers, Filling, Holding
<1>1. CASE CreateBuffer
  <2> DEFINE k == Len(free_list) + 1
  <2>1. /\ k \in Buffers /\ free_list' = Append(free_list, k) /\ free_list \in Seq(Buffers)
        /\ all_buffers' = [all_buffers EXCEPT ![k] = k]
        /\ state = "creating" /\ UNCHANGED <<state, clientVars>>
    BY <1>0, <1>1 DEF CreateBuffer, TypeOK, Buffers
  <2>2. /\ free_list' \in Seq(Buffers) /\ Len(free_list') = k /\ DOMAIN free_list' = 1 .. k
        /\ \A i \in 1 .. k : free_list'[i] = IF i = k THEN k ELSE free_list[i]
        /\ DOMAIN free_list = 1 .. k - 1
    BY <2>1
  <2>3. TypeOK'
    BY <1>0, <2>1, <2>2 DEF TypeOK, Buffers
  <2>4. Holding' /\ Filling'
    BY <1>0, <2>1, <2>2 DEF TypeOK, Holding, Filling, Buffers
  <2> QED
    BY <2>1, <2>3, <2>4, Zenon
<1>2. CASE Created
  <2>1. Places'
    <3>1. DOMAIN free_list = Buffers
      BY <1>2 DEF Created, TypeOK, Buffers
    <3>2. \A i \in Buffers : free_list[i] = i
      BY <1>2, <3>1, Zenon DEF Created, Filling
    <3> QED
      BY <1>0, <1>2, <3>1, <3>2 DEF Created, Places
  <2>2. Filling'
    <3>1. DOMAIN free_list = Buffers
      BY <1>2 DEF Created, TypeOK, Buffers
    <3> QED
      BY <1>2, <3>1, Zenon DEF Created, Filling
  <2> QED
    BY <1>2, <2>1, <2>2, Zenon DEF Created, TypeOK, Holding
<1>3. CASE CreateFails
  <2>1. free_list' \in Seq(Buffers) /\ Len(free_list') = 0
    BY <1>3 DEF CreateFails
  <2> QED
    BY <1>0, <1>3, <2>1 DEF CreateFails, TypeOK, Holding, Filling
<1>4. CASE Destroy
  <2>1. free_list' \in Seq(Buffers) /\ Len(free_list') = 0
    BY <1>4 DEF Destroy
  <2>2. \A c \in Clients : held[c] = None
    BY <1>4, Zenon DEF Destroy, Holding
  <2> QED
    BY <1>0, <1>4, <2>1, <2>2 DEF Destroy, TypeOK, Holding, Filling
<1> QED
  BY <1>1, <1>2, <1>3, <1>4, Zenon

Pcs == {"idle", "first", "small", "second", "aligned", "owner"}

\* An operation of a client leaves stack, heap and the other clients in order.
Moved(c) ==
    /\ Running /\ UNCHANGED <<state, all_buffers>>
    /\ free_list' \in Seq(Buffers) /\ Len(free_list') <= Count /\ heap' \in Int
    /\ held' \in [Clients -> Buffers \cup {None, Heap}]
    /\ state = "ready" => Places'
    /\ \A d \in Clients : d # c => held'[d] = held[d]

\* Where the client goes, and with what.
Goes(c, p, b) ==
    /\ pc' = [pc EXCEPT ![c] = p] /\ from_pool' = [from_pool EXCEPT ![c] = b]
    /\ held'[c] \in Buffers => state = "ready"
    /\ p \in {"idle", "small"} <=> held'[c] = None
    /\ p \in {"second", "aligned"} => held'[c] = Heap
    /\ b => p = "first" /\ held'[c] \in Buffers
    /\ p = "first" /\ ~b => held'[c] = Heap

\* Such an operation preserves the invariant.
LEMMA ClientMoves ==
    ASSUME PoolInv, NEW c \in Clients, Moved(c),
           NEW p \in Pcs, NEW b \in BOOLEAN, Goes(c, p, b)
    PROVE  PoolInv'
<1>1. /\ pc' \in [Clients -> Pcs] /\ pc'[c] = p /\ from_pool'[c] = b
      /\ from_pool' \in [Clients -> BOOLEAN]
      /\ \A d \in Clients : d # c => pc'[d] = pc[d] /\ from_pool'[d] = from_pool[d]
  BY Zenon DEF Goes, PoolInv, TypeOK, Pcs
<1>2. TypeOK'
  BY <1>1, Zenon DEF Moved, PoolInv, TypeOK, Pcs
<1>3. Holding'
  <2> SUFFICES ASSUME NEW d \in Clients
               PROVE  /\ pc'[d] \in {"idle", "small"} <=> held'[d] = None
                      /\ pc'[d] \in {"second", "aligned"} => held'[d] = Heap
                      /\ from_pool'[d] => pc'[d] = "first" /\ held'[d] \in Buffers
                      /\ pc'[d] = "first" /\ ~from_pool'[d] => held'[d] = Heap
    BY Zenon DEF Holding, Buffers
  <2>1. CASE d = c
    BY <1>1, <2>1, Zenon DEF Goes
  <2>2. CASE d # c
    BY <1>1, <2>2, Zenon DEF Moved, PoolInv, Holding
  <2> QED
    BY <2>1, <2>2, Zenon
<1>4. \A d \in Clients : held'[d] \in Buffers => state = "ready"
  BY Zenon DEF Moved, Goes, PoolInv, Filling
<1>5. Filling'
  <2>1. state' = state /\ state \notin {"creating", "crashed", "destroyed"}
        /\ (state = "ready" => \A i \in Buffers : all_buffers'[i] = i)
    BY Zenon DEF Moved, PoolInv, Filling, Running
  <2> QED
    BY <1>4, <2>1, Zenon DEF Filling, Buffers
<1> QED
  BY <1>2, <1>3, <1>5, Zenon DEF PoolInv, Moved

\* An operation that touches neither stack nor heap.
LEMMA StockKept ==
    ASSUME PoolInv, NEW c \in Clients, Running,
           UNCHANGED <<state, all_buffers, free_list, heap, held>>
    PROVE  Moved(c)
<1>1. state = "ready" => Places'
  <2> SUFFICES ASSUME Places PROVE Places'
    BY Zenon DEF PoolInv
  <2>1. free_list' = free_list /\ held' = held
    BY Zenon
  <2> QED
    BY <2>1 DEF Places, Buffers
<1> QED
  BY <1>1, Zenon DEF Moved, PoolInv, TypeOK

\* Getting a buffer, from the pool or from the heap.
LEMMA GetBuffer ==
    ASSUME PoolInv, NEW c \in Clients, Running, held[c] = None,
           Pop(c) \/ Malloc(c), UNCHANGED <<state, all_buffers>>
    PROVE  /\ Moved(c)
           /\ \/ Pop(c) /\ state = "ready" /\ held'[c] \in Buffers
              \/ Malloc(c) /\ held'[c] = Heap
<1>0. None \notin Buffers /\ Heap \notin Buffers
  BY DmaAssumption DEF Buffers
<1>1. CASE Pop(c)
  <2>1. /\ free_list' \in Seq(Buffers) /\ Len(free_list') <= Count
        /\ held'[c] \in Buffers /\ Places' /\ state = "ready"
    BY <1>1, PopPlaces, Zenon DEF PoolInv, Pop
  <2> QED
    BY <1>1, <2>1, Zenon DEF PoolInv, TypeOK, Pop, Moved
<1>2. CASE Malloc(c)
  <2>1. state = "ready" => Places'
    BY <1>0, <1>2, HeapPlaces, Zenon DEF PoolInv
  <2>2. heap' \in Int
    BY <1>2 DEF PoolInv, TypeOK, Malloc
  <2>3. /\ held' \in [Clients -> Buffers \cup {None, Heap}] /\ held'[c] = Heap
        /\ \A d \in Clients : d # c => held'[d] = held[d]
    BY <1>2, Zenon DEF PoolInv, TypeOK, Malloc
  <2> QED
    BY <1>2, <2>1, <2>2, <2>3, Zenon DEF PoolInv, TypeOK, Malloc, Moved
<1> QED
  BY <1>1, <1>2, Zenon

\* Giving a buffer back to where it came from.
LEMMA GiveBack ==
    ASSUME PoolInv, NEW c \in Clients, Room(c), Running, UNCHANGED <<state, all_buffers>>,
           \/ held[c] \in Buffers /\ state = "ready" /\ Push(c)
           \/ held[c] = Heap /\ Free(c)
    PROVE  Moved(c) /\ held'[c] = None
<1>0. None \notin Buffers /\ Heap \notin Buffers
  BY DmaAssumption DEF Buffers
<1>1. /\ held' \in [Clients -> Buffers \cup {None, Heap}] /\ held'[c] = None
      /\ \A d \in Clients : d # c => held'[d] = held[d]
  BY Zenon DEF PoolInv, TypeOK, Push, Free
<1>2. CASE held[c] \in Buffers /\ state = "ready" /\ Push(c)
  BY <1>1, <1>2, PushPlaces, Zenon DEF PoolInv, TypeOK, Push, Room, Moved
<1>3. CASE held[c] = Heap /\ Free(c)
  <2>1. state = "ready" => Places'
    BY <1>0, <1>3, HeapPlaces, Zenon DEF PoolInv
  <2>2. heap' \in Int
    BY <1>3 DEF PoolInv, TypeOK, Free
  <2> QED
    BY <1>1, <1>3, <2>1, <2>2, Zenon DEF PoolInv, TypeOK, Free, Moved
<1> QED
  BY <1>1, <1>2, <1>3, Zenon

\* The operations of the engine and the application.
LEMMA ClientSteps ==
    ASSUME PoolInv, NEW c \in Clients, Room(c), ClientStep(c) PROVE PoolInv'
<1>0. /\ None \notin Buffers /\ Heap \notin Buffers /\ None # Heap
      /\ TypeOK /\ Holding /\ Filling
  BY DmaAssumption DEF Buffers, PoolInv
<1>1. /\ UNCHANGED <<state, all_buffers>> /\ Running
      /\ from_pool[c] \in BOOLEAN /\ held[c] \in Buffers \cup {None, Heap}
      /\ held[c] \in Buffers => state = "ready"
  <2>1. UNCHANGED <<state, all_buffers>>
    BY Zenon DEF ClientStep, RetrieveBegins, BufferSmall, SecondBuffer, RetrieveFails,
         RetrieveSucceeds, StoreAligns, StoreReturns, AllocBuffer, FreeBuffer
  <2>2. Running \/ pc[c] # "idle"
    BY Zenon DEF ClientStep, RetrieveBegins, BufferSmall, SecondBuffer, RetrieveFails,
         RetrieveSucceeds, StoreAligns, StoreReturns, AllocBuffer, FreeBuffer
  <2> QED
    BY <1>0, <2>1, <2>2, Zenon DEF TypeOK, Filling, Running
<1>2. from_pool' = from_pool => from_pool' = [from_pool EXCEPT ![c] = from_pool[c]]
  BY <1>0, Zenon DEF TypeOK
<1>3. CASE RetrieveBegins(c)
  <2>1. held[c] = None /\ (Pop(c) \/ Malloc(c))
        /\ from_pool' = [from_pool EXCEPT ![c] = held'[c] # Heap]
        /\ pc' = [pc EXCEPT ![c] = "first"]
    BY <1>0, <1>3, Zenon DEF RetrieveBegins, Holding
  <2>2. Moved(c) /\ (held'[c] = Heap \/ (state = "ready" /\ held'[c] \in Buffers))
    BY <1>1, <2>1, GetBuffer, Zenon
  <2>3. (held'[c] # Heap) \in BOOLEAN
    BY Zenon
  <2>4. Goes(c, "first", held'[c] # Heap)
    BY <1>0, <2>1, <2>2, Zenon DEF Goes
  <2> QED
    BY <2>2, <2>3, <2>4, ClientMoves, Zenon DEF Pcs
<1>4. CASE StoreAligns(c)
  <2>1. held[c] = None /\ Malloc(c) /\ ~from_pool[c] /\ UNCHANGED from_pool
        /\ pc' = [pc EXCEPT ![c] = "aligned"]
    BY <1>0, <1>4, Zenon DEF StoreAligns, Holding
  <2>2. Moved(c) /\ held'[c] = Heap
    BY <1>0, <1>1, <2>1, GetBuffer, Zenon DEF Malloc, TypeOK
  <2>3. Goes(c, "aligned", from_pool[c])
    BY <1>0, <1>2, <2>1, <2>2, Zenon DEF Goes
  <2> QED
    BY <1>1, <2>2, <2>3, ClientMoves, Zenon DEF Pcs
<1>5. CASE AllocBuffer(c)
  <2>1. held[c] = None /\ (Pop(c) \/ Malloc(c)) /\ ~from_pool[c] /\ UNCHANGED from_pool
        /\ pc' = [pc EXCEPT ![c] = "owner"]
    BY <1>0, <1>5, Zenon DEF AllocBuffer, Holding
  <2>2. Moved(c) /\ (held'[c] = Heap \/ (state = "ready" /\ held'[c] \in Buffers))
    BY <1>1, <2>1, GetBuffer, Zenon
  <2>3. Goes(c, "owner", from_pool[c])
    BY <1>0, <1>2, <2>1, <2>2, Zenon DEF Goes
  <2> QED
    BY <1>1, <2>2, <2>3, ClientMoves, Zenon DEF Pcs
<1>6. CASE SecondBuffer(c)
  <2>0. held[c] = None /\ ~from_pool[c] /\ UNCHANGED from_pool
    BY <1>0, <1>6, Zenon DEF SecondBuffer, Holding
  <2>1. CASE Malloc(c) /\ pc' = [pc EXCEPT ![c] = "second"]
    <3>1. Moved(c) /\ held'[c] = Heap
      BY <1>0, <1>1, <2>0, <2>1, GetBuffer, Zenon DEF Malloc, TypeOK
    <3>2. Goes(c, "second", from_pool[c])
      BY <1>0, <1>2, <2>0, <2>1, <3>1, Zenon DEF Goes
    <3> QED
      BY <1>1, <3>1, <3>2, ClientMoves, Zenon DEF Pcs
  <2>2. CASE pc' = [pc EXCEPT ![c] = "idle"] /\ UNCHANGED <<free_list, heap, held>>
    <3>1. Moved(c)
      BY <1>0, <1>1, <2>2, StockKept, Zenon
    <3>2. Goes(c, "idle", from_pool[c])
      BY <1>0, <1>2, <2>0, <2>2, Zenon DEF Goes
    <3> QED
      BY <1>1, <3>1, <3>2, ClientMoves, Zenon DEF Pcs
  <2> QED
    BY <1>6, <2>1, <2>2, Zenon DEF SecondBuffer
<1>7. CASE BufferSmall(c) \/ RetrieveFails(c)
  <2>1. PICK p \in {"small", "idle"} :
            /\ from_pool' = [from_pool EXCEPT ![c] = FALSE]
            /\ pc' = [pc EXCEPT ![c] = p]
            /\ Discard(c) /\ pc[c] \in {"first", "second"}
    BY <1>7, Zenon DEF BufferSmall, RetrieveFails
  <2>2. \/ held[c] \in Buffers /\ state = "ready" /\ Push(c)
        \/ held[c] = Heap /\ Free(c)
    BY <1>0, <1>1, <2>1, Zenon DEF Holding, Discard
  <2>3. Moved(c) /\ held'[c] = None
    BY <1>1, <2>2, GiveBack, Zenon
  <2>4. Goes(c, p, FALSE)
    BY <1>0, <2>1, <2>3, Zenon DEF Goes
  <2> QED
    BY <2>1, <2>3, <2>4, ClientMoves, Zenon DEF Pcs
<1>8. CASE RetrieveSucceeds(c)
  <2>1. Moved(c)
    BY <1>1, <1>8, StockKept, Zenon DEF RetrieveSucceeds
  <2>2. Goes(c, "owner", FALSE)
    BY <1>0, <1>1, <1>8, Zenon DEF RetrieveSucceeds, Goes, Holding
  <2> QED
    BY <2>1, <2>2, ClientMoves, Zenon DEF Pcs
<1>9. CASE StoreReturns(c) \/ FreeBuffer(c)
  <2>1. /\ UNCHANGED from_pool /\ pc' = [pc EXCEPT ![c] = "idle"] /\ ~from_pool[c]
        /\ held[c] # None
    BY <1>0, <1>9, Zenon DEF StoreReturns, FreeBuffer, Holding
  <2>2. state = "ready" => (Owns(held[c]) <=> held[c] \in Buffers)
    BY <1>0, <1>1, Zenon DEF Owns, Filling
  <2>3. \/ held[c] \in Buffers /\ state = "ready" /\ Push(c)
        \/ held[c] = Heap /\ Free(c)
    BY <1>0, <1>1, <1>9, <2>1, <2>2, Zenon DEF StoreReturns, FreeBuffer, Holding
  <2>4. Moved(c) /\ held'[c] = None
    BY <1>1, <2>3, GiveBack, Zenon
  <2>5. Goes(c, "idle", from_pool[c])
    BY <1>0, <1>2, <2>1, <2>4, Zenon DEF Goes
  <2> QED
    BY <1>1, <2>4, <2>5, ClientMoves, Zenon DEF Pcs
<1> QED
  BY <1>3, <1>4, <1>5, <1>6, <1>7, <1>8, <1>9, Zenon DEF ClientStep

-----------------------------------------------------------------------------
(* The stack cannot overflow, and the account of the heap: counting.       *)

INSTANCE FiniteSetTheorems

\* A stack of distinct buffers that lacks one is not full.
LEMMA NotFull ==
    ASSUME TypeOK, Places, NEW c \in Clients, held[c] \in Buffers
    PROVE  Len(free_list) < Count
<1>0. free_list \in Seq(Buffers) /\ Len(free_list) \in Nat /\ Len(free_list) <= Count
      /\ Count \in Nat
  BY DmaAssumption DEF TypeOK
<1> SUFFICES ASSUME Len(free_list) = Count PROVE FALSE
  BY <1>0
<1>1. DOMAIN free_list = Buffers
  BY <1>0 DEF Buffers
<1>2. free_list \in [Buffers -> Buffers]
  BY <1>0, <1>1
<1>3. free_list \in Injection(Buffers, Buffers)
  BY <1>1, <1>2, Zenon DEF Places, Injection, IsInjective
<1>4. IsFiniteSet(Buffers)
  BY FS_Interval, DmaAssumption DEF Buffers
<1>5. free_list \in Surjection(Buffers, Buffers)
  BY <1>3, <1>4, FS_Injection
<1>6. PICK n \in DOMAIN free_list : free_list[n] = held[c]
  BY <1>1, <1>5, Zenon DEF Surjection
<1> QED
  BY <1>6, Zenon DEF Places

\* PoolInv is inductive.
LEMMA NextPool == PoolInv /\ [Next]_vars => PoolInv'
<1> SUFFICES ASSUME PoolInv, [Next]_vars PROVE PoolInv'
  BY Zenon
<1>1. CASE UNCHANGED vars
  BY <1>1 DEF vars, PoolInv, TypeOK, Holding, Filling, Places
<1>2. CASE Terminated
  BY <1>1, <1>2, Zenon DEF Terminated
<1>3. \A c \in Clients : Room(c)
  BY NotFull, Zenon DEF Room, PoolInv
<1> QED
  BY <1>1, <1>2, <1>3, PoolSteps, ClientSteps, Zenon DEF Next

\* dma_pool.c and its callers are type-correct: in particular the stack of free
\* buffers never holds more than count buffers and no foreign pointer.
THEOREM DmaTypeCorrect == Spec => []TypeOK
<1>1. PoolInv => TypeOK
  BY Zenon DEF PoolInv
<1> QED
  BY InitPool, NextPool, <1>1, PTL DEF Spec

\* No buffer of the pool is ever lost or handed out twice by acquire, release,
\* alloc_buffer, free_buffer and the exits of kv_engine_retrieve.
THEOREM BuffersConservedCorrect == Spec => []BuffersConserved
<1>1. PoolInv => BuffersConserved
  <2> SUFFICES ASSUME TypeOK, Places, NEW b \in Buffers PROVE OnePlace(b)
    BY Zenon DEF PoolInv, BuffersConserved
  <2>1. CASE \E n \in DOMAIN free_list : free_list[n] = b
    <3>1. PICK n \in DOMAIN free_list : free_list[n] = b
      BY <2>1, Zenon
    <3>2. {m \in DOMAIN free_list : free_list[m] = b} = {n}
      BY <3>1, Zenon DEF Places
    <3>3. {c \in Clients : held[c] = b} = {}
      BY <3>1, Zenon DEF Places
    <3> QED
      BY <3>2, <3>3, Zenon DEF OnePlace
  <2>2. CASE \E c \in Clients : held[c] = b
    <3>1. PICK c \in Clients : held[c] = b
      BY <2>2, Zenon
    <3>2. {d \in Clients : held[d] = b} = {c}
      BY <3>1, Zenon DEF Places
    <3>3. {n \in DOMAIN free_list : free_list[n] = b} = {}
      BY <3>1, Zenon DEF Places
    <3> QED
      BY <3>2, <3>3, Zenon DEF OnePlace
  <2> QED
    BY <2>1, <2>2, Zenon DEF Places
<1> QED
  BY InitPool, NextPool, <1>1, PTL DEF Spec

-----------------------------------------------------------------------------
(* Buffers of dma_alloc                                                    *)

OnHeap == {c \in Clients : held[c] = Heap}

\* What a step of a client does to buffers of dma_alloc: it gets one, frees the one
\* it has, exchanges one of the pool's, or keeps what it has.
LEMMA HeapEffect ==
    ASSUME PoolInv, NEW c \in Clients, ClientStep(c)
    PROVE  \/ held[c] # Heap /\ heap' = heap + 1 /\ OnHeap' = OnHeap \cup {c}
           \/ held[c] = Heap /\ heap' = heap - 1 /\ OnHeap' = OnHeap \ {c}
           \/ heap' = heap /\ OnHeap' = OnHeap
<1>0. /\ None \notin Buffers /\ Heap \notin Buffers /\ None # Heap
      /\ TypeOK /\ Holding /\ Filling
  BY DmaAssumption DEF Buffers, PoolInv
<1>1. ASSUME Malloc(c), held[c] # Heap
      PROVE  heap' = heap + 1 /\ OnHeap' = OnHeap \cup {c}
  BY <1>0, <1>1, Zenon DEF Malloc, OnHeap, TypeOK
<1>2. ASSUME Free(c), held[c] = Heap
      PROVE  heap' = heap - 1 /\ OnHeap' = OnHeap \ {c}
  BY <1>0, <1>2, Zenon DEF Free, OnHeap, TypeOK
<1>3. ASSUME Pop(c), held[c] # Heap PROVE heap' = heap /\ OnHeap' = OnHeap
  <2>1. free_list[Len(free_list)] \in Buffers
    BY <1>0, <1>3 DEF Pop, TypeOK
  <2> QED
    BY <1>0, <1>3, <2>1, Zenon DEF Pop, OnHeap, TypeOK
<1>4. ASSUME Push(c), held[c] # Heap PROVE heap' = heap /\ OnHeap' = OnHeap
  BY <1>0, <1>4, Zenon DEF Push, OnHeap, TypeOK
<1>5. CASE RetrieveBegins(c) \/ StoreAligns(c) \/ AllocBuffer(c)
  <2>1. (Pop(c) \/ Malloc(c)) /\ held[c] # Heap
    BY <1>0, <1>5, Zenon DEF RetrieveBegins, StoreAligns, AllocBuffer, Holding
  <2> QED
    BY <2>1, <1>1, <1>3, Zenon
<1>6. CASE SecondBuffer(c)
  <2>1. held[c] # Heap
    BY <1>0, <1>6, Zenon DEF SecondBuffer, Holding
  <2>2. Malloc(c) \/ UNCHANGED <<heap, held>>
    BY <1>6, Zenon DEF SecondBuffer
  <2> QED
    BY <2>1, <2>2, <1>1, Zenon DEF OnHeap
<1>7. CASE BufferSmall(c) \/ RetrieveFails(c) \/ StoreReturns(c) \/ FreeBuffer(c)
  <2>1. (held[c] = Heap /\ Free(c)) \/ (held[c] # Heap /\ Push(c))
    BY <1>0, <1>7 DEF BufferSmall, RetrieveFails, StoreReturns, FreeBuffer, Discard,
                      Holding, Filling, Owns, TypeOK
  <2> QED
    BY <2>1, <1>2, <1>4, Zenon
<1>8. CASE RetrieveSucceeds(c)
  BY <1>8, Zenon DEF RetrieveSucceeds, OnHeap
<1> QED
  BY <1>5, <1>6, <1>7, <1>8, Zenon DEF ClientStep

\* The account of dma_alloc stays balanced.
LEMMA NextHeap == PoolInv /\ HeapBalanced /\ [Next]_vars => HeapBalanced'
<1> SUFFICES ASSUME PoolInv, HeapBalanced, [Next]_vars PROVE HeapBalanced'
  BY Zenon
<1>0. heap = Cardinality(OnHeap) /\ IsFiniteSet(OnHeap) /\ heap \in Int
  BY DmaAssumption, FS_Subset, Zenon DEF HeapBalanced, OnHeap, PoolInv, TypeOK
<1>1. ASSUME NEW c \in Clients, ClientStep(c) PROVE HeapBalanced'
  <2>1. c \in OnHeap <=> held[c] = Heap
    BY Zenon DEF OnHeap
  <2>2. CASE held[c] # Heap /\ heap' = heap + 1 /\ OnHeap' = OnHeap \cup {c}
    <3>1. Cardinality(OnHeap') = Cardinality(OnHeap) + 1
      BY <1>0, <2>1, <2>2, FS_AddElement, Zenon
    <3> QED
      BY <1>0, <2>2, <3>1, Zenon DEF HeapBalanced, OnHeap
  <2>3. CASE held[c] = Heap /\ heap' = heap - 1 /\ OnHeap' = OnHeap \ {c}
    BY <1>0, <2>1, <2>3, FS_RemoveElement, Zenon DEF HeapBalanced, OnHeap
  <2>4. CASE heap' = heap /\ OnHeap' = OnHeap
    BY <1>0, <2>4, Zenon DEF HeapBalanced, OnHeap
  <2> QED
    BY <1>1, <2>2, <2>3, <2>4, HeapEffect, Zenon
<1>2. CASE UNCHANGED <<heap, held>>
  BY <1>2, Zenon DEF HeapBalanced
<1> QED
  BY <1>1, <1>2, Zenon DEF Next, vars, CreateBuffer, Created, CreateFails, Destroy,
     Terminated,
                    clientVars

\* Every buffer of dma_alloc is freed exactly once by kv_engine_retrieve,
\* kv_engine_store or kv_engine_free_buffer, and no buffer of the pool is.
THEOREM HeapBalancedCorrect == Spec => []HeapBalanced
<1>1. Init => HeapBalanced
  <2> SUFFICES ASSUME Init PROVE HeapBalanced
    BY Zenon
  <2>1. {c \in Clients : held[c] = Heap} = {}
    BY DmaAssumption, Zenon DEF Init
  <2> QED
    BY <2>1, FS_EmptySet, Zenon DEF Init, HeapBalanced
<1> QED
  BY <1>1, InitPool, NextPool, NextHeap, PTL DEF Spec
=============================================================================
