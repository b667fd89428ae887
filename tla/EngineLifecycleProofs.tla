----------------------- MODULE EngineLifecycleProofs ------------------------
(***************************************************************************)
(* Proofs about EngineLifecycle for any number of workers and devices: the *)
(* probe and the workers find the parts they use, and nothing is left.     *)
(***************************************************************************)
EXTENDS EngineLifecycle, SequenceTheorems, TLAPS

Building == app \in {"init", "broadcast", "join_created"}
Using == app \in {"ready", "adding"}

\* The parts still to be set up, or to be torn down.
Left == {todo[i] : i \in DOMAIN todo}

\* What remains of the sequence s.
Suffix(s) ==
    /\ Len(todo) <= Len(s)
    /\ \A i \in 1 .. Len(todo) : todo[i] = s[i + (Len(s) - Len(todo))]

HeadIs(p) == todo # <<>> /\ Head(todo) = p

Distinct == \A i, j \in DOMAIN todo : todo[i] = todo[j] => i = j

\* The parts that are not there although it was their turn.
Optional == {"paths", "workers", "buffer_pool", "probe"}

\* Where the application is, what it has still to do, and whether the engine is
\* initialized.
TodoInv ==
    /\ Distinct
    /\ Building => Suffix(InitOrder)
    /\ ~Building /\ ~Using /\ initialized => Suffix(CleanupOrder)
    /\ initialized => ~Building
    /\ Using => initialized
    /\ app \in {"broadcast", "join_created"} => HeadIs("workers")
    /\ app = "join_workers" => HeadIs("workers")
    /\ app \in {"signal", "join_probe"} => HeadIs("probe")
    /\ app = "end" => todo = <<>>

\* While the engine is set up the parts come into being in order; later those
\* that live are those still to be released.
LifeInv ==
    /\ Building =>
         \A p \in Parts : /\ life[p] # "released"
                          /\ p \in Left /\ ~(p = "workers" /\ HeadIs(p)) => life[p] = "absent"
                          /\ p \notin Left \cup Optional => life[p] = "live"
    /\ Using =>
         \A p \in Parts : life[p] # "released" /\ (p \notin Optional => life[p] = "live")
    /\ ~Building /\ ~Using =>
         \A p \in Parts :
            /\ life[p] = "live" => p \in Left \/ (p = "strings" /\ ~initialized)
            /\ initialized /\ p \in Left =>
                  life[p] # "released" /\ (p \notin Optional => life[p] = "live")
    /\ life["probe"] = "live" => initialized \/ app = "init"
    /\ life["paths"] = "absent"

\* The slots below num_devices are open until they are closed together, and the
\* one above is in use only while a device is opened.
SlotInv ==
    \A d \in Slots :
        /\ d < num_devices =>
              slot[d] = IF Building \/ Using \/ "devices" \in Left THEN "open" ELSE "closed"
        /\ d > num_devices => slot[d] = "closed"
        /\ d = num_devices =>
              \/ slot[d] = "closed"
              \/ app = "adding"
              \/ SettingUp("devices") /\ num_devices < count

\* No devices without the part that closes them.
CountInv == Building /\ {"paths", "devices"} \subseteq Left => num_devices = 0

\* Workers and probe exist as long as their parts do.
ThreadInv ==
    /\ life["workers"] # "live" => \A w \in Workers : worker[w] \in {"none", "exited"}
    /\ work > 0 => initialized
    /\ \A w \in Workers : worker[w] = "run" => initialized
    /\ probe \notin {"none", "exit"} => life["probe"] = "live"
    /\ probe = "visit" => index < num_devices

LifecycleInv == TypeOK /\ TodoInv /\ LifeInv /\ SlotInv /\ CountInv /\ ThreadInv

-----------------------------------------------------------------------------
(* Sequences of parts                                                      *)

\* A step that deals with the first part.
LEMMA OneLess ==
    ASSUME todo \in Seq(Parts), todo # <<>>, todo' = Tail(todo), Distinct
    PROVE  /\ todo' \in Seq(Parts) /\ Distinct' /\ Left' = Left \ {Head(todo)}
           /\ Head(todo) \in Left /\ Head(todo) \in Parts
           /\ Suffix(InitOrder) => Suffix(InitOrder)'
           /\ Suffix(CleanupOrder) => Suffix(CleanupOrder)'
<1> DEFINE n == Len(todo)
<1>1. /\ n \in Nat /\ n > 0 /\ DOMAIN todo = 1 .. n
      /\ Head(todo) = todo[1] /\ todo[1] \in Parts
      /\ todo' \in Seq(Parts) /\ Len(todo') = n - 1 /\ DOMAIN todo' = 1 .. n - 1
      /\ \A i \in 1 .. n - 1 : todo'[i] = todo[i + 1]
  <2>1. n \in Nat /\ n > 0 /\ DOMAIN todo = 1 .. n /\ Head(todo) = todo[1] /\ todo[1] \in Parts
    BY EmptySeq, LenProperties
  <2>2. /\ todo' \in Seq(Parts) /\ Len(todo') = n - 1
        /\ \A i \in 1 .. n - 1 : todo'[i] = todo[i + 1]
    BY HeadTailProperties, Zenon
  <2>3. DOMAIN todo' = 1 .. n - 1
    BY <2>2, LenProperties, Zenon
  <2> QED
    BY <2>1, <2>2, <2>3, Zenon
<1> HIDE DEF n
<1>2. Distinct'
  BY <1>1 DEF Distinct
<1>3. Left' = Left \ {Head(todo)}
  <2>1. \A i \in 1 .. n - 1 : i + 1 \in DOMAIN todo /\ todo[i + 1] # todo[1]
    BY <1>1 DEF Distinct
  <2>2. \A i \in 1 .. n : i = 1 \/ (i - 1 \in 1 .. n - 1 /\ (i - 1) + 1 = i)
    BY <1>1
  <2>3. ASSUME NEW x \in Left' PROVE x \in Left \ {Head(todo)}
    <3>1. PICK i \in 1 .. n - 1 : x = todo'[i]
      BY <1>1, <2>3, Zenon DEF Left
    <3> QED
      BY <1>1, <2>1, <3>1, Zenon DEF Left
  <2>4. ASSUME NEW x \in Left, x # Head(todo) PROVE x \in Left'
    <3>1. PICK i \in 1 .. n : x = todo[i]
      BY <1>1, <2>4, Zenon DEF Left
    <3>2. i - 1 \in 1 .. n - 1 /\ todo'[i - 1] = x
      BY <1>1, <2>2, <2>4, <3>1, Zenon
    <3> QED
      BY <1>1, <3>2, Zenon DEF Left
  <2> QED
    BY <2>3, <2>4, Zenon
<1>4. Head(todo) \in Left
  BY <1>1 DEF Left
<1>5. ASSUME NEW s \in Seq(Parts), Suffix(s) PROVE Suffix(s)'
  <2>1. Len(s) \in Nat
    BY LenProperties, Zenon
  <2>2. \A i \in 1 .. n - 1 : i + 1 \in 1 .. n /\ (i + 1) + (Len(s) - n) = i + (Len(s) - (n - 1))
    BY <1>1, <2>1
  <2>3. n <= Len(s) /\ \A i \in 1 .. n : todo[i] = s[i + (Len(s) - n)]
    BY <1>5, Zenon DEF Suffix, n
  <2> QED
    BY <1>1, <2>1, <2>2, <2>3 DEF Suffix, n
<1>6. InitOrder \in Seq(Parts) /\ CleanupOrder \in Seq(Parts)
  BY DEF InitOrder, CleanupOrder, Parts
<1> QED
  BY <1>1, <1>2, <1>3, <1>4, <1>5, <1>6, Zenon

\* What is left, by the part whose turn it is in kv_engine_init.
LEMMA InitLeft ==
    ASSUME todo \in Seq(Parts), Suffix(InitOrder)
    PROVE  /\ todo # <<>> => Head(todo) \in Left /\ Head(todo) \in Parts
           /\ HeadIs("engine") => Left = Parts
           /\ HeadIs("paths") => Left = Parts \ {"engine", "strings"}
           /\ HeadIs("devices") => Left = Parts \ {"engine", "strings", "paths"}
           /\ HeadIs("mem_pool") => Left = Parts \ {"engine", "strings", "paths", "devices"}
           /\ HeadIs("workers") =>
                 Left = {"workers", "stats_lock", "buffer_pool", "table", "probe"}
           /\ HeadIs("table") => Left = {"table", "probe"}
           /\ HeadIs("probe") => Left = {"probe"}
           /\ todo = <<>> => Left = {}
<1> DEFINE n == Len(todo)
<1>1. /\ n \in 0 .. 10 /\ DOMAIN todo = 1 .. n
      /\ \A i \in 1 .. n : todo[i] = InitOrder[i + (10 - n)]
  <2>1. Len(InitOrder) = 10
    BY Zenon DEF InitOrder
  <2>2. n \in Nat /\ DOMAIN todo = 1 .. n
    BY LenProperties, Zenon
  <2>3. /\ n <= Len(InitOrder)
        /\ \A i \in 1 .. n : todo[i] = InitOrder[i + (Len(InitOrder) - n)]
    BY Zenon DEF Suffix
  <2> HIDE DEF n
  <2> QED
    BY <2>1, <2>2, <2>3
<1>2. todo = <<>> <=> n = 0
  BY EmptySeq, Zenon
<1>3. todo # <<>> => Head(todo) = todo[1] /\ todo[1] \in Parts
  BY EmptySeq, LenProperties
<1> HIDE DEF n
<1>4. Left = {InitOrder[j] : j \in 11 - n .. 10}
  <2>1. \A j \in 11 - n .. 10 : j - (10 - n) \in 1 .. n /\ (j - (10 - n)) + (10 - n) = j
    BY <1>1
  <2>2. \A i \in 1 .. n : i + (10 - n) \in 11 - n .. 10
    BY <1>1
  <2>3. ASSUME NEW x \in Left PROVE \E j \in 11 - n .. 10 : x = InitOrder[j]
    <3>1. PICK i \in 1 .. n : x = todo[i]
      BY <1>1, <2>3, Zenon DEF Left
    <3> QED
      BY <1>1, <2>2, <3>1, Zenon
  <2>4. ASSUME NEW j \in 11 - n .. 10 PROVE InitOrder[j] \in Left
    <3>1. PICK i \in 1 .. n : i + (10 - n) = j
      BY <2>1, Zenon
    <3>2. todo[i] = InitOrder[j]
      BY <1>1, <3>1, Zenon
    <3> QED
      BY <1>1, <3>2, Zenon DEF Left
  <2> QED
    BY <2>3, <2>4, Zenon
<1>5. todo # <<>> => Head(todo) = InitOrder[11 - n] /\ 11 - n \in 1 .. 10
  BY <1>1, <1>2, <1>3
<1>6. /\ InitOrder[1] = "engine" /\ InitOrder[2] = "strings" /\ InitOrder[3] = "paths"
      /\ InitOrder[4] = "devices" /\ InitOrder[5] = "mem_pool" /\ InitOrder[6] = "workers"
      /\ InitOrder[7] = "stats_lock" /\ InitOrder[8] = "buffer_pool"
      /\ InitOrder[9] = "table" /\ InitOrder[10] = "probe"
  BY Zenon DEF InitOrder
<1>7. \A k \in 1 .. 10 : /\ InitOrder[k] = "engine" => k = 1
                         /\ InitOrder[k] = "paths" => k = 3
                         /\ InitOrder[k] = "devices" => k = 4
                         /\ InitOrder[k] = "mem_pool" => k = 5
                         /\ InitOrder[k] = "workers" => k = 6
                         /\ InitOrder[k] = "table" => k = 9
                         /\ InitOrder[k] = "probe" => k = 10
  BY <1>6
<1>8. todo # <<>> => Head(todo) \in Left /\ Head(todo) \in Parts
  BY <1>1, <1>3, <1>5 DEF Left
<1>9. n = 0 => Left = {}
  BY <1>4
<1> DEFINE From(k) == {InitOrder[j] : j \in k .. 10}
<1>10. \A k \in 1 .. 10 : From(k) = {InitOrder[k]} \cup From(k + 1)
  OBVIOUS
<1>11. From(11) = {}
  OBVIOUS
<1>12. /\ 11 - n = 1 => Left = From(1)
       /\ 11 - n = 3 => Left = From(3)
       /\ 11 - n = 4 => Left = From(4)
       /\ 11 - n = 5 => Left = From(5)
       /\ 11 - n = 6 => Left = From(6)
       /\ 11 - n = 9 => Left = From(9)
       /\ 11 - n = 10 => Left = From(10)
  BY <1>4, Zenon
<1> HIDE DEF From
<1>13. /\ From(10) = {InitOrder[10]} \cup From(11) /\ From(9) = {InitOrder[9]} \cup From(10)
       /\ From(8) = {InitOrder[8]} \cup From(9) /\ From(7) = {InitOrder[7]} \cup From(8)
       /\ From(6) = {InitOrder[6]} \cup From(7) /\ From(5) = {InitOrder[5]} \cup From(6)
       /\ From(4) = {InitOrder[4]} \cup From(5) /\ From(3) = {InitOrder[3]} \cup From(4)
       /\ From(2) = {InitOrder[2]} \cup From(3) /\ From(1) = {InitOrder[1]} \cup From(2)
  BY <1>10
<1>14. /\ From(10) = {"probe"} \cup From(11) /\ From(9) = {"table"} \cup From(10)
       /\ From(8) = {"buffer_pool"} \cup From(9) /\ From(7) = {"stats_lock"} \cup From(8)
       /\ From(6) = {"workers"} \cup From(7) /\ From(5) = {"mem_pool"} \cup From(6)
       /\ From(4) = {"devices"} \cup From(5) /\ From(3) = {"paths"} \cup From(4)
       /\ From(2) = {"strings"} \cup From(3) /\ From(1) = {"engine"} \cup From(2)
  BY <1>6, <1>13, Zenon
<1>15. From(10) = {"probe"} /\ From(9) = {"table", "probe"}
  BY <1>11, <1>14
<1>16. From(6) = {"workers", "stats_lock", "buffer_pool", "table", "probe"}
  BY <1>14, <1>15
<1>17. /\ From(5) = Parts \ {"engine", "strings", "paths", "devices"}
       /\ From(4) = Parts \ {"engine", "strings", "paths"}
  BY <1>14, <1>16 DEF Parts
<1>18. From(3) = Parts \ {"engine", "strings"} /\ From(1) = Parts
  BY <1>14, <1>17 DEF Parts
<1> QED
  BY <1>2, <1>5, <1>7, <1>8, <1>9, <1>12, <1>15, <1>16, <1>17, <1>18 DEF HeadIs

\* The probe comes last.
LEMMA LastLeft ==
    ASSUME todo \in Seq(Parts), Suffix(InitOrder), todo # <<>>
    PROVE  "probe" \in Left
<1> DEFINE n == Len(todo)
<1>1. n \in Nat /\ n > 0 /\ DOMAIN todo = 1 .. n
  BY LenProperties, EmptySeq
<1>2. todo[n] = InitOrder[n + (Len(InitOrder) - n)]
  BY <1>1 DEF Suffix
<1>3. Len(InitOrder) = 10 /\ InitOrder[10] = "probe"
  BY Zenon DEF InitOrder
<1> HIDE DEF n
<1>4. n + (10 - n) = 10
  BY <1>1
<1>5. todo[n] = "probe"
  BY <1>2, <1>3, <1>4, Zenon
<1> QED
  BY <1>1, <1>5 DEF Left

\* kv_engine_cleanup stops its threads before it releases what they use.
LEMMA CleanupLeft ==
    ASSUME todo \in Seq(Parts), Suffix(CleanupOrder)
    PROVE  /\ "probe" \in Left =>
                 {"devices", "engine"} \subseteq Left
           /\ "workers" \in Left =>
                 {"devices", "engine", "table", "stats_lock", "buffer_pool"} \subseteq Left
<1> DEFINE n == Len(todo)
<1>1. /\ n \in 0 .. 9 /\ DOMAIN todo = 1 .. n
      /\ \A i \in 1 .. n : todo[i] = CleanupOrder[i + (9 - n)]
  <2>1. Len(CleanupOrder) = 9
    BY Zenon DEF CleanupOrder
  <2>2. n \in Nat /\ DOMAIN todo = 1 .. n
    BY LenProperties, Zenon
  <2>3. /\ n <= Len(CleanupOrder)
        /\ \A i \in 1 .. n : todo[i] = CleanupOrder[i + (Len(CleanupOrder) - n)]
    BY Zenon DEF Suffix
  <2> HIDE DEF n
  <2> QED
    BY <2>1, <2>2, <2>3
<1> HIDE DEF n
<1>2. /\ CleanupOrder[1] = "probe" /\ CleanupOrder[2] = "workers"
      /\ CleanupOrder[3] = "buffer_pool" /\ CleanupOrder[4] = "mem_pool"
      /\ CleanupOrder[5] = "devices" /\ CleanupOrder[6] = "table"
      /\ CleanupOrder[7] = "strings" /\ CleanupOrder[8] = "stats_lock"
      /\ CleanupOrder[9] = "engine"
  BY Zenon DEF CleanupOrder
<1>3. ASSUME NEW p \in {"probe", "workers"}, p \in Left PROVE n >= 8
  <2>1. PICK i \in 1 .. n : p = CleanupOrder[i + (9 - n)]
    BY <1>1, <1>3, Zenon DEF Left
  <2>2. \A k \in 1 .. 9 : CleanupOrder[k] \in {"probe", "workers"} => k <= 2
    BY <1>2
  <2>3. i + (9 - n) \in 1 .. 9
    BY <1>1
  <2>4. i + (9 - n) <= 2
    BY <2>1, <2>2, <2>3, Zenon
  <2> QED
    BY <1>1, <2>4
<1>4. ASSUME n >= 8, NEW j \in 3 .. 9 PROVE CleanupOrder[j] \in Left
  <2>1. j - (9 - n) \in 1 .. n /\ (j - (9 - n)) + (9 - n) = j
    BY <1>1, <1>4
  <2>2. PICK i \in 1 .. n : i + (9 - n) = j
    BY <2>1, Zenon
  <2>3. todo[i] = CleanupOrder[j]
    BY <1>1, <2>2, Zenon
  <2> QED
    BY <1>1, <2>3, Zenon DEF Left
<1> QED
  BY <1>2, <1>3, <1>4

\* What the error paths release.
LEMMA UndoLeft ==
    ASSUME NEW p \in Parts, todo' = Undo(p)
    PROVE  /\ todo' \in Seq(Parts) /\ Distinct'
           /\ p = "paths" => Left' = {"engine"}
           /\ p \in {"devices", "mem_pool"} => Left' = {"devices", "engine"}
           /\ p = "workers" => Left' = {"mem_pool", "devices", "engine"}
           /\ p = "table" => Left' = {"buffer_pool", "workers", "mem_pool", "devices",
                                      "strings", "stats_lock", "engine"}
           /\ p = "engine" => Left' = {}
<1>1. CASE p = "paths"
  <2> DEFINE s == <<"engine">>
  <2>1. todo' = s
    BY <1>1, Zenon DEF Undo
  <2>2. s \in Seq(Parts) /\ DOMAIN s = 1 .. 1
    BY DEF Parts
  <2>3. /\ DOMAIN todo' = 1 .. 1
        /\ todo'[1] = "engine"
    BY <2>1, <2>2
  <2>4. todo' \in Seq(Parts)
    BY <2>1, <2>2, Zenon
  <2> HIDE DEF s
  <2>5. Distinct'
    BY <2>3 DEF Distinct
  <2>6. Left' = {"engine"}
    BY <2>3 DEF Left
  <2> QED
    BY <1>1, <2>4, <2>5, <2>6, Zenon
<1>2. CASE p \in {"devices", "mem_pool"}
  <2> DEFINE s == <<"devices", "engine">>
  <2>1. todo' = s
    BY <1>2, Zenon DEF Undo
  <2>2. s \in Seq(Parts) /\ DOMAIN s = 1 .. 2
    BY DEF Parts
  <2>3. /\ DOMAIN todo' = 1 .. 2
        /\ todo'[1] = "devices" /\ todo'[2] = "engine"
    BY <2>1, <2>2
  <2>4. todo' \in Seq(Parts)
    BY <2>1, <2>2, Zenon
  <2> HIDE DEF s
  <2>5. Distinct'
    BY <2>3 DEF Distinct
  <2>6. Left' = {"devices", "engine"}
    BY <2>3 DEF Left
  <2> QED
    BY <1>2, <2>4, <2>5, <2>6, Zenon
<1>3. CASE p = "workers"
  <2> DEFINE s == <<"mem_pool", "devices", "engine">>
  <2>1. todo' = s
    BY <1>3, Zenon DEF Undo
  <2>2. s \in Seq(Parts) /\ DOMAIN s = 1 .. 3
    BY DEF Parts
  <2>3. /\ DOMAIN todo' = 1 .. 3
        /\ todo'[1] = "mem_pool" /\ todo'[2] = "devices" /\ todo'[3] = "engine"
    BY <2>1, <2>2
  <2>4. todo' \in Seq(Parts)
    BY <2>1, <2>2, Zenon
  <2> HIDE DEF s
  <2>5. Distinct'
    BY <2>3 DEF Distinct
  <2>6. Left' = {"mem_pool", "devices", "engine"}
    BY <2>3 DEF Left
  <2> QED
    BY <1>3, <2>4, <2>5, <2>6, Zenon
<1>4. CASE p = "table"
  <2> DEFINE s == <<"buffer_pool", "workers", "mem_pool", "devices",
                    "strings", "stats_lock", "engine">>
  <2>1. todo' = s
    BY <1>4, Zenon DEF Undo
  <2>2. s \in Seq(Parts) /\ DOMAIN s = 1 .. 7
    BY DEF Parts
  <2>3. /\ DOMAIN todo' = 1 .. 7
        /\ todo'[1] = "buffer_pool" /\ todo'[2] = "workers" /\ todo'[3] = "mem_pool"
        /\ todo'[4] = "devices" /\ todo'[5] = "strings" /\ todo'[6] = "stats_lock"
        /\ todo'[7] = "engine"
    BY <2>1, <2>2
  <2>4. todo' \in Seq(Parts)
    BY <2>1, <2>2, Zenon
  <2> HIDE DEF s
  <2>5. Distinct'
    BY <2>3 DEF Distinct
  <2>6. Left' = {"buffer_pool", "workers", "mem_pool", "devices",
                   "strings", "stats_lock", "engine"}
    BY <2>3 DEF Left
  <2> QED
    BY <1>4, <2>4, <2>5, <2>6, Zenon
<1>5. CASE p \in Parts \ {"paths", "devices", "mem_pool", "workers", "table"}
  <2>1. todo' = <<>>
    BY <1>5, Zenon DEF Undo
  <2>2. DOMAIN todo' = {} /\ todo' \in Seq(Parts)
    BY <2>1
  <2>3. Distinct' /\ Left' = {}
    BY <2>2, Zenon DEF Distinct, Left
  <2> QED
    BY <1>5, <2>2, <2>3, Zenon
<1> QED
  BY <1>1, <1>2, <1>3, <1>4, <1>5, Zenon

-----------------------------------------------------------------------------
(* How the invariants survive a step.                                      *)

\* A step that leaves the application where it is.
LEMMA KeepTodo ==
    ASSUME TodoInv, app' = app, todo' = todo, initialized' = initialized
    PROVE  TodoInv' /\ Left' = Left
BY DEF TodoInv, Distinct, Building, Using, Suffix, HeadIs, Left

\* A step that leaves the parts alone as well.
LEMMA KeepLife ==
    ASSUME LifeInv, app' = app, todo' = todo, initialized' = initialized, life' = life
    PROVE  LifeInv'
BY DEF LifeInv, Building, Using, Left, HeadIs

\* A step that leaves the devices alone.
LEMMA KeepSlots ==
    ASSUME SlotInv, CountInv, app' = app, todo' = todo, slot' = slot,
           num_devices' = num_devices, count' = count
    PROVE  SlotInv' /\ CountInv'
BY Zenon DEF SlotInv, CountInv, Building, Using, Left, SettingUp

\* A step that leaves workers and probe alone.
LEMMA KeepThreads ==
    ASSUME ThreadInv, worker' = worker, work' = work, probe' = probe, index' = index,
           num_devices' = num_devices, initialized' = initialized,
           life'["workers"] = life["workers"], life'["probe"] = life["probe"]
    PROVE  ThreadInv'
BY Zenon DEF ThreadInv

\* kv_engine_init is done with a part.
LEMMA Advance ==
    ASSUME TypeOK, TodoInv, NEW p \in Parts, SettingUp(p), todo' = Tail(todo), app' = app,
           initialized' = initialized
    PROVE  TodoInv' /\ Left' = Left \ {p} /\ p \in Left /\ Building /\ Building'
<1>1. app = "init" /\ todo # <<>> /\ Head(todo) = p /\ Building /\ Building'
  BY Zenon DEF SettingUp, Building
<1>2. /\ todo' \in Seq(Parts) /\ Distinct' /\ Left' = Left \ {p} /\ p \in Left
      /\ Suffix(InitOrder) => Suffix(InitOrder)'
  BY <1>1, OneLess, Zenon DEF TypeOK, TodoInv
<1> QED
  BY <1>1, <1>2, Zenon DEF TodoInv, Using

\* The part exists, or the engine does without it.
LEMMA AdvanceLife ==
    ASSUME TypeOK, TodoInv, LifeInv, NEW p \in Parts, SettingUp(p), todo' = Tail(todo),
           app' = app, initialized' = initialized, p # "paths" \/ life' = life,
           SetLife(p, "live") \/ (p \in Optional /\ life' = life)
    PROVE  LifeInv'
<1>1. /\ Left' = Left \ {p} /\ p \in Left /\ Building /\ Building' /\ app' = "init"
      /\ ~Using' /\ todo # <<>> /\ Head(todo) = p
  BY Advance, Zenon DEF SettingUp, Using
<1>2. \A q \in Parts \ {p} : life'[q] = life[q]
  BY Zenon DEF SetLife, TypeOK
<1>3. life'[p] = "live" \/ (p \in Optional /\ life'[p] = life[p])
  BY Zenon DEF SetLife, TypeOK
<1>4. \A q \in Parts :
         /\ life'[q] # "released"
         /\ q \in Left' => life'[q] = "absent"
         /\ q \notin Left' \cup Optional => life'[q] = "live"
  BY <1>1, <1>2, <1>3 DEF LifeInv, HeadIs
<1>5. life'["paths"] = "absent"
  BY <1>2, Zenon DEF LifeInv, Parts
<1> QED
  BY <1>1, <1>4, <1>5, Zenon DEF LifeInv

\* The devices stay as they are when another part is done.
LEMMA AdvanceSlots ==
    ASSUME TypeOK, TodoInv, SlotInv, CountInv, NEW p \in Parts, SettingUp(p),
           todo' = Tail(todo), app' = app, initialized' = initialized, slot' = slot,
           num_devices' = num_devices, p = "devices" => num_devices = count
    PROVE  SlotInv' /\ CountInv'
<1>1. /\ Left' = Left \ {p} /\ Building /\ Building' /\ app # "adding"
  BY Advance, Zenon DEF SettingUp
<1>2. SettingUp("devices") => p = "devices"
  BY Zenon DEF SettingUp
<1>3. num_devices \in Nat /\ count \in Nat
  BY LifecycleAssumption DEF TypeOK
<1>4. \A d \in Slots : d = num_devices => slot[d] = "closed"
  BY <1>1, <1>2, <1>3, Zenon DEF SlotInv
<1>5. SlotInv'
  BY <1>1, <1>4, Zenon DEF SlotInv
<1>6. CountInv'
  BY <1>1, Zenon DEF CountInv
<1> QED
  BY <1>5, <1>6, Zenon

\* kv_engine_init enters the error path of part p.
LEMMA Unwinds ==
    ASSUME TypeOK, TodoInv, LifeInv, SlotInv, CountInv,
           NEW p \in {"engine", "paths", "devices", "mem_pool", "workers", "table"},
           Building, HeadIs(p), Unwind(p), initialized' = initialized,
           \A q \in Parts \ {p} : life'[q] = life[q],
           life'[p] # "live", p # "workers" => life'[p] = life[p],
           num_devices' = num_devices,
           \A d \in Slots : d # num_devices => slot'[d] = slot[d],
           \A d \in Slots : d = num_devices => slot'[d] = "closed"
    PROVE  TodoInv' /\ LifeInv' /\ SlotInv' /\ CountInv'
<1>1. /\ app' = "teardown" /\ todo' = Undo(p) /\ ~initialized /\ ~initialized'
      /\ ~Building' /\ ~Using' /\ p \in Parts /\ todo \in Seq(Parts) /\ Suffix(InitOrder)
  BY Zenon DEF Unwind, TodoInv, Building, Using, Parts, TypeOK
<1>2. TodoInv' /\ CountInv'
  BY <1>1, UndoLeft, Zenon DEF TodoInv, CountInv
<1>3. /\ p = "engine" => Left = Parts /\ Left' = {}
      /\ p = "paths" => Left = Parts \ {"engine", "strings"} /\ Left' = {"engine"}
      /\ p = "devices" =>
            Left = Parts \ {"engine", "strings", "paths"} /\ Left' = {"devices", "engine"}
      /\ p = "mem_pool" => /\ Left = Parts \ {"engine", "strings", "paths", "devices"}
                           /\ Left' = {"devices", "engine"}
      /\ p = "workers" => /\ Left = {"workers", "stats_lock", "buffer_pool", "table", "probe"}
                          /\ Left' = {"mem_pool", "devices", "engine"}
      /\ p = "table" => /\ Left = {"table", "probe"}
                        /\ Left' = {"buffer_pool", "workers", "mem_pool", "devices",
                                    "strings", "stats_lock", "engine"}
  BY <1>1, InitLeft, UndoLeft
<1>4. \A q \in Parts : q \in Left /\ q # p => life[q] = "absent"
  BY Zenon DEF LifeInv, HeadIs
<1>5. LifeInv'
  <2>1. ASSUME NEW q \in Parts, life'[q] = "live" PROVE q \in Left' \/ q = "strings"
    <3>1. q # p /\ life[q] = "live" /\ q \notin Left /\ q # "paths"
      BY <1>4, <2>1 DEF LifeInv
    <3> QED
      BY <1>3, <3>1, Zenon DEF Parts
  <2>2. life'["probe"] # "live" /\ life'["paths"] = "absent"
    <3>1. {"probe", "paths"} \subseteq Parts /\ p # "probe" /\ "probe" \in Left
      BY <1>3, Zenon DEF Parts
    <3> QED
      BY <1>4, <3>1 DEF LifeInv
  <2> QED
    BY <1>1, <2>1, <2>2, Zenon DEF LifeInv
<1>6. SlotInv'
  <2>1. num_devices = 0 \/ "devices" \in Left'
    BY <1>3, Zenon DEF CountInv, Parts
  <2>2. \A d \in Slots : d \in Nat
    BY LifecycleAssumption DEF Slots
  <2>3. num_devices \in Nat
    BY LifecycleAssumption DEF TypeOK
  <2> QED
    BY <1>1, <2>1, <2>2, <2>3 DEF SlotInv
<1> QED
  BY <1>2, <1>5, <1>6, Zenon

\* A part is released, or was not there.
LEMMA Less ==
    ASSUME TypeOK, TodoInv, LifeInv, NEW p \in Parts, HeadIs(p), Released(p),
           ~Building, ~Using, app' = "teardown", initialized' = initialized
    PROVE  /\ TodoInv' /\ LifeInv' /\ CountInv' /\ Left' = Left \ {p}
           /\ \A q \in Parts \ {p} : life'[q] = life[q]
           /\ life'[p] # "live"
<1>1. /\ todo # <<>> /\ Head(todo) = p /\ todo' = Tail(todo) /\ todo \in Seq(Parts)
      /\ Distinct /\ ~Building' /\ ~Using'
  BY Zenon DEF HeadIs, Released, TypeOK, TodoInv, Building, Using
<1>2. /\ Distinct' /\ Left' = Left \ {p}
      /\ Suffix(CleanupOrder) => Suffix(CleanupOrder)'
  BY <1>1, OneLess, Zenon
<1>3. \A q \in Parts \ {p} : life'[q] = life[q]
  BY Zenon DEF Released, SetLife, TypeOK
<1>4. life'[p] # "live" /\ life'[p] = IF life[p] = "live" THEN "released" ELSE life[p]
  BY Zenon DEF Released, SetLife, TypeOK
<1>5. TodoInv' /\ CountInv'
  BY <1>1, <1>2, Zenon DEF TodoInv, CountInv
<1>6. \A q \in Parts :
         /\ life'[q] = "live" => q \in Left' \/ (q = "strings" /\ ~initialized)
         /\ initialized /\ q \in Left' =>
               life'[q] # "released" /\ (q \notin Optional => life'[q] = "live")
  BY <1>2, <1>3, <1>4, Zenon DEF LifeInv
<1>7. life'["probe"] = "live" => initialized
  <2>1. "probe" \in Parts
    BY Zenon DEF Parts
  <2>2. life'["probe"] = "live" => life["probe"] = "live"
    BY <1>3, <1>4, <2>1, Zenon
  <2> QED
    BY <2>2, Zenon DEF LifeInv, Building
<1>8. life'["paths"] = "absent"
  <2>1. "paths" \in Parts
    BY Zenon DEF Parts
  <2> QED
    BY <1>3, <1>4, <2>1, Zenon DEF LifeInv
<1>9. LifeInv'
  BY <1>1, <1>6, <1>7, <1>8, Zenon DEF LifeInv
<1> QED
  BY <1>2, <1>3, <1>4, <1>5, <1>9, Zenon

\* The devices stay as they are when another part is released.
LEMMA LessSlots ==
    ASSUME SlotInv, ~Building, ~Using, ~Building', ~Using',
           "devices" \in Left <=> "devices" \in Left',
           slot' = slot, num_devices' = num_devices
    PROVE  SlotInv'
<1>1. app # "adding" /\ app # "init"
  BY Zenon DEF Building, Using
<1> QED
  BY <1>1, Zenon DEF SlotInv, SettingUp

-----------------------------------------------------------------------------
(* Types                                                                   *)

\* The steps of kv_engine_init.
LEMMA InitTypes ==
    ASSUME LifecycleInv, InitStep
    PROVE  TypeOK'
<1> USE DEF LifecycleInv
<1>1. ASSUME NEW p, SettingUp(p), todo' = Tail(todo) PROVE todo' \in Seq(Parts)
  BY <1>1, OneLess DEF SettingUp, TypeOK, TodoInv
<1>2. ASSUME NEW p \in Parts, Unwind(p)
      PROVE  todo' \in Seq(Parts) /\ app' = "teardown"
  BY <1>2, UndoLeft, Zenon DEF Unwind
<1>3. ASSUME NEW p \in Parts, SetUp(p) PROVE TypeOK'
  BY <1>1, <1>3 DEF SetUp, Done, SetLife, TypeOK, deviceVars, poolVars, probeVars
<1>4. ASSUME NEW p \in Parts, SetUpFails(p) PROVE TypeOK'
  BY <1>2, <1>4, Zenon DEF SetUpFails, TypeOK, deviceVars, poolVars, probeVars
<1>5. ASSUME NEW p \in Parts, DoWithout(p) PROVE TypeOK'
  BY <1>1, <1>5 DEF DoWithout, TypeOK, deviceVars, poolVars, probeVars
<1>6. CASE ResolvePaths
  <2>1. todo' \in Seq(Parts) /\ app' \in {"init", "teardown"}
    BY <1>1, <1>2, <1>6, Zenon DEF ResolvePaths, SettingUp, Parts
  <2>2. config' \in Configs
    BY <1>6, LifecycleAssumption DEF ResolvePaths, Configs
  <2>3. count' \in 0 .. MaxDevices
    BY <1>6, LifecycleAssumption DEF ResolvePaths, PathsValid, TypeOK, Configs
  <2> QED
    BY <1>6, <2>1, <2>2, <2>3, Zenon DEF ResolvePaths, TypeOK, poolVars, probeVars
<1>7. CASE DevicesOpened
  BY <1>1, <1>7, ZenonT(60) DEF DevicesOpened, Done, SetLife, TypeOK, deviceVars, poolVars,
     probeVars
<1>8. CASE InitReturn
  BY <1>8, Zenon DEF InitReturn, TypeOK, deviceVars, poolVars, probeVars
<1>9. CASE OpenDevice
  BY <1>9, ZenonT(60) DEF OpenDevice, SetSlot, TypeOK, poolVars, probeVars
<1>10. CASE OpenFails
  <2>1. todo' \in Seq(Parts) /\ app' \in {"ready", "teardown"}
    BY <1>2, <1>10, Zenon DEF OpenFails, TypeOK, Parts
  <2> QED
    BY <1>10, <2>1, Zenon DEF OpenFails, SetSlot, TypeOK, poolVars, probeVars
<1>11. CASE OpenSucceeds
  BY <1>11, ZenonT(60) DEF OpenSucceeds, SetSlot, TypeOK, poolVars, probeVars
<1>12. CASE Publish
  BY <1>12, LifecycleAssumption DEF Publish, NextSlot, TypeOK, poolVars, probeVars
<1>13. CASE CreatePool
  <2>1. todo' \in Seq(Parts) /\ app' \in {"init", "teardown"}
    BY <1>2, <1>13, Zenon DEF CreatePool, SettingUp, TypeOK, Parts
  <2>2. life' \in [Parts -> {"absent", "live", "released"}]
    BY <1>13 DEF CreatePool, SetLife, TypeOK
  <2> QED
    BY <1>13, <2>1, <2>2, Zenon DEF CreatePool, AppStays, TypeOK, deviceVars, poolVars,
       probeVars
<1>14. CASE CreateWorker
  BY <1>14, ZenonT(60) DEF CreateWorker, AppStays, TypeOK, deviceVars, probeVars
<1>15. CASE WorkersCreated
  BY <1>1, <1>15 DEF WorkersCreated, AppStays, TypeOK, deviceVars, poolVars, probeVars
<1>16. CASE CreateWorkerFails
  BY <1>16, Zenon DEF CreateWorkerFails, AppStays, TypeOK, deviceVars, probeVars
<1>17. CASE Broadcast
  BY <1>17, Zenon DEF Broadcast, Awake, AppStays, TypeOK, deviceVars, probeVars
<1>18. CASE JoinCreated
  BY <1>2, <1>18, Zenon DEF JoinCreated, SetLife, AppStays, TypeOK, Parts, deviceVars,
     poolVars, probeVars
<1>19. CASE CreateProbe
  BY <1>1, <1>19, Zenon DEF CreateProbe, Done, SetLife, TypeOK, deviceVars, poolVars
<1> QED
  BY <1>3, <1>4, <1>5, <1>6, <1>7, <1>8, <1>9, <1>10, <1>11, <1>12, <1>13, <1>14, <1>15,
     <1>16, <1>17, <1>18, <1>19, Zenon DEF InitStep

\* The steps of kv_engine_cleanup.
LEMMA TeardownTypes ==
    ASSUME LifecycleInv, TeardownStep
    PROVE  TypeOK'
<1> USE DEF LifecycleInv
<1>1. ASSUME NEW p \in Parts, todo # <<>>, Released(p)
      PROVE  todo' \in Seq(Parts) /\ life' \in [Parts -> {"absent", "live", "released"}]
  BY <1>1, OneLess, Zenon DEF Released, SetLife, TypeOK, TodoInv
<1>2. {"devices", "workers", "probe"} \subseteq Parts
  BY Zenon DEF Parts
<1>3. ASSUME NEW p \in Parts, Release(p) PROVE TypeOK'
  BY <1>1, <1>3, Zenon DEF Release, TearingDown, TypeOK, deviceVars, poolVars, probeVars
<1>4. CASE CloseDevices
  BY <1>1, <1>2, <1>4, Zenon DEF CloseDevices, TearingDown, TypeOK, poolVars, probeVars
<1>5. CASE StopWorkers
  BY <1>5, Zenon DEF StopWorkers, Awake, AppStays, TypeOK, deviceVars, probeVars
<1>6. CASE JoinWorkers
  BY <1>1, <1>2, <1>6, Zenon DEF JoinWorkers, AppStays, TypeOK, TodoInv, HeadIs,
                          deviceVars, poolVars, probeVars
<1>7. CASE StopProbe
  BY <1>7, Zenon DEF StopProbe, TypeOK, deviceVars, poolVars
<1>8. CASE SignalProbe
  BY <1>8, Zenon DEF SignalProbe, TypeOK, deviceVars, poolVars
<1>9. CASE JoinProbe
  BY <1>1, <1>2, <1>9, Zenon DEF JoinProbe, TypeOK, TodoInv, HeadIs, deviceVars,
     poolVars, probeVars
<1>10. CASE TeardownReturn
  BY <1>10, Zenon DEF TeardownReturn, TypeOK, deviceVars, poolVars, probeVars
<1> QED
  BY <1>3, <1>4, <1>5, <1>6, <1>7, <1>8, <1>9, <1>10, Zenon DEF TeardownStep

\* All other steps.
LEMMA OtherTypes ==
    ASSUME LifecycleInv,
           \/ AddDevice \/ Submit \/ Cleanup \/ ProbeStep
           \/ \E w \in Workers : WorkerStep(w) \/ SpuriousWake(w)
    PROVE  TypeOK'
<1> USE DEF LifecycleInv
<1>1. CASE AddDevice
  BY <1>1, Zenon DEF AddDevice, SetSlot, TypeOK, poolVars, probeVars
<1>2. CASE Cleanup
  <2>1. CleanupOrder \in Seq(Parts)
    BY DEF CleanupOrder, Parts
  <2> QED
    BY <1>2, <2>1, Zenon DEF Cleanup, TypeOK, deviceVars, poolVars, probeVars
<1>3. CASE Submit
  BY <1>3, LifecycleAssumption DEF Submit, SetWorker, WorkerStays, TypeOK, deviceVars, probeVars
<1>4. ASSUME NEW w \in Workers, WorkerStep(w) \/ SpuriousWake(w) PROVE TypeOK'
  <2>1. work' \in 0 .. MaxWork
    BY <1>4, LifecycleAssumption DEF WorkerStep, WorkerCheck, WorkerWait, WorkerFinish,
       SpuriousWake, TypeOK
  <2>2. worker' \in [Workers -> {"none", "lock", "checked", "wait", "run", "exited"}]
    <3>1. CASE WorkerCheck(w)
      <4>1. \E c \in {"run", "exited", "checked"} : SetWorker(w, c)
        BY <3>1, LifecycleAssumption, Zenon DEF WorkerCheck, TypeOK
      <4> QED
        BY <4>1, Zenon DEF SetWorker, TypeOK
    <3> QED
      BY <1>4, <3>1 DEF WorkerStep, WorkerWait, WorkerFinish, SpuriousWake,
     SetWorker, TypeOK
  <2>3. WorkerStays /\ UNCHANGED shutdown
    BY <1>4, Zenon DEF WorkerStep, WorkerCheck, WorkerWait, WorkerFinish, SpuriousWake
  <2> QED
    BY <2>1, <2>2, <2>3 DEF WorkerStays, TypeOK, deviceVars, probeVars
<1>5. CASE ProbeStep
  <2>1. index' \in 0 .. MaxDevices
    BY <1>5, LifecycleAssumption DEF ProbeStep, ProbeCheck, ProbeWait, ProbeTimeout, ProbeRecheck,
         ProbeNext, ProbeVisit, ProbeMoves, TypeOK, ThreadInv
  <2>2. /\ ProbeStays
        /\ probe' \in {"none", "check", "lock", "wait", "recheck", "next", "visit", "exit"}
    BY <1>5, Zenon DEF ProbeStep, ProbeCheck, ProbeWait, ProbeTimeout, ProbeRecheck,
         ProbeNext, ProbeVisit, ProbeMoves
  <2> QED
    BY <2>1, <2>2, Zenon DEF ProbeStays, TypeOK, deviceVars, poolVars
<1> QED
  BY <1>1, <1>2, <1>3, <1>4, <1>5, Zenon

-----------------------------------------------------------------------------
(* The steps                                                               *)

Rest == TodoInv /\ LifeInv /\ SlotInv /\ CountInv /\ ThreadInv

\* A worker.
LEMMA WorkerSteps ==
    ASSUME LifecycleInv, NEW w \in Workers, WorkerStep(w) \/ SpuriousWake(w)
    PROVE  Rest'
<1> USE DEF LifecycleInv
<1>1. WorkerStays
  BY Zenon DEF WorkerStep, WorkerCheck, WorkerWait, WorkerFinish, SpuriousWake
<1>2. /\ app' = app /\ todo' = todo /\ initialized' = initialized /\ life' = life
      /\ slot' = slot /\ num_devices' = num_devices /\ count' = count
      /\ probe' = probe /\ index' = index
  BY <1>1, Zenon DEF WorkerStays, deviceVars, probeVars
<1>3. TodoInv' /\ LifeInv' /\ SlotInv' /\ CountInv'
  BY <1>2, KeepTodo, KeepLife, KeepSlots, Zenon
<1>4. /\ worker[w] \notin {"none", "exited"}
      /\ \A v \in Workers \ {w} : worker'[v] = worker[v]
      /\ worker'[w] = "run" => work > 0
      /\ work' > 0 => work > 0
  BY LifecycleAssumption DEF WorkerStep, WorkerCheck, WorkerWait, WorkerFinish, SpuriousWake,
     SetWorker, TypeOK
<1>5. ThreadInv'
  BY <1>2, <1>4, Zenon DEF ThreadInv
<1> QED
  BY <1>3, <1>5, Zenon DEF Rest

\* The probe.
LEMMA ProbeSteps ==
    ASSUME LifecycleInv, ProbeStep
    PROVE  Rest'
<1> USE DEF LifecycleInv
<1>1. ProbeStays
  BY Zenon DEF ProbeStep, ProbeCheck, ProbeWait, ProbeTimeout, ProbeRecheck, ProbeNext,
     ProbeVisit
<1>2. /\ app' = app /\ todo' = todo /\ initialized' = initialized /\ life' = life
      /\ slot' = slot /\ num_devices' = num_devices /\ count' = count
      /\ worker' = worker /\ work' = work
  BY <1>1, Zenon DEF ProbeStays, deviceVars, poolVars
<1>3. TodoInv' /\ LifeInv' /\ SlotInv' /\ CountInv'
  BY <1>2, KeepTodo, KeepLife, KeepSlots, Zenon
<1>4. probe \notin {"none", "exit"} /\ (probe' = "visit" => index' = index /\ index < num_devices)
  BY Zenon DEF ProbeStep, ProbeCheck, ProbeWait, ProbeTimeout, ProbeRecheck, ProbeNext,
     ProbeVisit, ProbeMoves
<1>5. ThreadInv'
  BY <1>2, <1>4, Zenon DEF ThreadInv
<1> QED
  BY <1>3, <1>5, Zenon DEF Rest

\* An asynchronous request.
LEMMA SubmitStep ==
    ASSUME LifecycleInv, Submit
    PROVE  Rest'
<1> USE DEF LifecycleInv
<1>1. /\ app' = app /\ todo' = todo /\ initialized' = initialized /\ life' = life
      /\ slot' = slot /\ num_devices' = num_devices /\ count' = count
      /\ probe' = probe /\ index' = index
  BY Zenon DEF Submit, WorkerStays, deviceVars, probeVars
<1>2. TodoInv' /\ LifeInv' /\ SlotInv' /\ CountInv'
  BY <1>1, KeepTodo, KeepLife, KeepSlots, Zenon
<1>3. initialized /\ life["workers"] = "live"
  BY Zenon DEF Submit, TodoInv, Using
<1>4. ThreadInv'
  BY <1>1, <1>3, Zenon DEF ThreadInv
<1> QED
  BY <1>2, <1>4, Zenon DEF Rest

\* The variables of the three groups that a step may leave alone.
Still ==
    /\ initialized' = initialized
    /\ slot' = slot /\ num_devices' = num_devices
    /\ worker' = worker /\ work' = work
    /\ probe' = probe /\ index' = index

\* kv_engine_init is done with a part that needs no thread.
LEMMA AdvanceStep ==
    ASSUME LifecycleInv, NEW p \in Parts, SettingUp(p), todo' = Tail(todo), app' = app, Still,
           p # "paths" \/ life' = life,
           SetLife(p, "live") \/ (p \in Optional /\ life' = life),
           p \in {"workers", "probe"} => life' = life,
           p = "devices" => num_devices = count
    PROVE  Rest'
<1> USE DEF LifecycleInv
<1>1. TodoInv' /\ LifeInv' /\ SlotInv' /\ CountInv'
  BY Advance, AdvanceLife, AdvanceSlots, Zenon DEF Still
<1>2. life'["workers"] = life["workers"] /\ life'["probe"] = life["probe"]
  BY DEF SetLife, TypeOK, Parts
<1>3. ThreadInv'
  BY <1>2, KeepThreads, Zenon DEF Still
<1> QED
  BY <1>1, <1>3, Zenon DEF Rest

\* kv_engine_init fails at a part that was not there before.
LEMMA UnwindStep ==
    ASSUME LifecycleInv,
           NEW p \in {"engine", "paths", "devices", "mem_pool", "workers", "table"},
           SettingUp(p), Unwind(p), life' = life, life[p] = "absent", initialized' = initialized,
           worker' = worker, work' = work, probe' = probe, index' = index,
           num_devices' = num_devices,
           \A d \in Slots : d # num_devices => slot'[d] = slot[d],
           \A d \in Slots : d = num_devices => slot'[d] = "closed"
    PROVE  Rest'
<1> USE DEF LifecycleInv
<1>1. Building /\ HeadIs(p) /\ life'[p] # "live"
  BY Zenon DEF Building, SettingUp, HeadIs
<1>2. TodoInv' /\ LifeInv' /\ SlotInv' /\ CountInv'
  BY <1>1, Unwinds, Zenon
<1>3. ThreadInv'
  BY KeepThreads, Zenon
<1> QED
  BY <1>2, <1>3, Zenon DEF Rest

\* Nothing is opened while another part is set up.
LEMMA SlotClosed ==
    ASSUME TypeOK, SlotInv, NEW p, SettingUp(p), p # "devices"
    PROVE  \A d \in Slots : d = num_devices => slot[d] = "closed"
BY Zenon DEF SlotInv, SettingUp

\* A part whose turn it is, other than the workers, is not there yet.
LEMMA Absent ==
    ASSUME TypeOK, TodoInv, LifeInv, NEW p \in Parts, SettingUp(p), p # "workers"
    PROVE  life[p] = "absent"
<1>1. Building /\ HeadIs(p)
  BY Zenon DEF Building, SettingUp, HeadIs
<1>2. p \in Left
  BY <1>1, InitLeft, Zenon DEF TypeOK, TodoInv, HeadIs
<1> QED
  BY <1>1, <1>2, Zenon DEF LifeInv

\* The parts that are there at once, and those that fail.
LEMMA SetUpSteps ==
    ASSUME LifecycleInv,
           (\E p \in Parts : SetUp(p) \/ SetUpFails(p) \/ DoWithout(p))
              \/ ResolvePaths \/ DevicesOpened \/ WorkersCreated
    PROVE  Rest'
<1> USE DEF LifecycleInv
<1>1. ASSUME NEW p \in Parts, SetUp(p) PROVE Rest'
  <2>1. /\ SettingUp(p) /\ todo' = Tail(todo) /\ app' = app /\ SetLife(p, "live")
        /\ p \notin {"paths", "workers", "probe", "devices"}
    BY <1>1, Zenon DEF SetUp, Done
  <2>2. Still
    BY <1>1, Zenon DEF SetUp, Still, deviceVars, poolVars, probeVars
  <2> QED
    BY <2>1, <2>2, AdvanceStep, Zenon
<1>2. ASSUME NEW p \in Parts, SetUpFails(p) PROVE Rest'
  <2>1. /\ SettingUp(p) /\ Unwind(p) /\ life' = life /\ p \in {"engine", "mem_pool", "table"}
        /\ initialized' = initialized /\ worker' = worker /\ work' = work
        /\ probe' = probe /\ index' = index /\ num_devices' = num_devices /\ slot' = slot
    BY <1>2, Zenon DEF SetUpFails, deviceVars, poolVars, probeVars
  <2>2. life[p] = "absent"
    BY <2>1, Absent, Zenon
  <2>3. \A d \in Slots : d = num_devices => slot'[d] = "closed"
    BY <2>1, SlotClosed, Zenon
  <2> QED
    BY <2>1, <2>2, <2>3, UnwindStep, Zenon
<1>3. ASSUME NEW p \in Parts, DoWithout(p) PROVE Rest'
  <2>1. /\ SettingUp(p) /\ todo' = Tail(todo) /\ app' = app /\ life' = life
        /\ p \in Optional /\ p # "devices"
    BY <1>3, Zenon DEF DoWithout, Optional
  <2>2. Still
    BY <1>3, Zenon DEF DoWithout, Still, deviceVars, poolVars, probeVars
  <2> QED
    BY <2>1, <2>2, AdvanceStep, Zenon
<1>4. CASE ResolvePaths
  <2>1. /\ SettingUp("paths") /\ life' = life /\ "paths" \in Parts /\ "paths" \in Optional
        /\ Still
    BY <1>4, Zenon DEF ResolvePaths, Still, poolVars, probeVars, Parts, Optional
  <2>2. CASE todo' = Tail(todo) /\ app' = app
    BY <2>1, <2>2, AdvanceStep, Zenon
  <2>3. CASE Unwind("paths")
    <3>1. life["paths"] = "absent" /\ \A d \in Slots : d = num_devices => slot'[d] = "closed"
      BY <2>1, Absent, SlotClosed, Zenon DEF Still
    <3> QED
      BY <2>1, <2>3, <3>1, UnwindStep, Zenon DEF Still
  <2> QED
    BY <1>4, <2>2, <2>3, Zenon DEF ResolvePaths
<1>5. CASE DevicesOpened
  <2>1. /\ SettingUp("devices") /\ todo' = Tail(todo) /\ app' = app /\ SetLife("devices", "live")
        /\ num_devices = count /\ "devices" \in Parts
    BY <1>5, Zenon DEF DevicesOpened, Done, Parts
  <2>2. Still
    BY <1>5, Zenon DEF DevicesOpened, Still, deviceVars, poolVars, probeVars
  <2> QED
    BY <2>1, <2>2, AdvanceStep, Zenon
<1>6. CASE WorkersCreated
  <2>1. /\ SettingUp("workers") /\ todo' = Tail(todo) /\ app' = app /\ life' = life
        /\ "workers" \in Parts /\ "workers" \in Optional
    BY <1>6, Zenon DEF WorkersCreated, Parts, Optional
  <2>2. Still
    BY <1>6, Zenon DEF WorkersCreated, AppStays, Still, deviceVars, poolVars, probeVars
  <2> QED
    BY <2>1, <2>2, AdvanceStep, Zenon
<1> QED
  BY <1>1, <1>2, <1>3, <1>4, <1>5, <1>6, Zenon

\* Devices: the slot above num_devices is opened and published, or closed again.
LEMMA DeviceSteps ==
    ASSUME LifecycleInv, OpenDevice \/ AddDevice \/ OpenFails \/ OpenSucceeds \/ Publish
    PROVE  Rest'
<1> USE DEF LifecycleInv
<1>1. /\ initialized' = initialized /\ life' = life /\ count' = count
      /\ worker' = worker /\ work' = work /\ probe' = probe /\ index' = index
  BY Zenon DEF OpenDevice, AddDevice, OpenFails, OpenSucceeds, Publish, poolVars, probeVars
<1>2. /\ num_devices \in Slots /\ num_devices \in Nat /\ \A d \in Slots : d \in Nat
      /\ \A d \in Slots : d # num_devices => slot'[d] = slot[d]
  BY LifecycleAssumption DEF OpenDevice, AddDevice, OpenFails, OpenSucceeds, Publish,
       NextSlot, SetSlot, TypeOK, Slots
<1>3. ASSUME app' = app \/ (Using /\ Using'), todo' = todo
      PROVE  TodoInv' /\ LifeInv' /\ Left' = Left /\ (Building <=> Building') /\ (Using <=> Using')
  BY <1>1, <1>3 DEF TodoInv, Distinct, Suffix, HeadIs, LifeInv, Left, Building, Using
<1>4. CASE OpenDevice \/ AddDevice \/ OpenSucceeds
  <2>1. /\ num_devices' = num_devices /\ todo' = todo
        /\ app' = app \/ (Using /\ Using')
        /\ app' = "adding" \/ (SettingUp("devices") /\ num_devices < count /\ app' = app)
    BY <1>2, <1>4, Zenon DEF OpenDevice, AddDevice, OpenSucceeds, NextSlot, SlotInv, Using
  <2>2. TodoInv' /\ LifeInv' /\ Left' = Left /\ (Building <=> Building') /\ (Using <=> Using')
    BY <1>3, <2>1, Zenon
  <2>3. app' = "adding" \/ (SettingUp("devices")' /\ num_devices' < count')
    BY <1>1, <2>1, Zenon DEF SettingUp
  <2>4. SlotInv' /\ CountInv'
    BY <1>2, <2>1, <2>2, <2>3 DEF SlotInv, CountInv
  <2> QED
    BY <1>1, <2>1, <2>2, <2>4, KeepThreads, Zenon DEF Rest
<1>5. CASE OpenFails
  <2>1. /\ num_devices' = num_devices /\ slot[num_devices] = "opening"
        /\ slot'[num_devices] = "closed"
    BY <1>2, <1>5, Zenon DEF OpenFails, NextSlot, SetSlot, TypeOK
  <2>2. app = "adding" \/ SettingUp("devices")
    BY <1>2, <2>1, Zenon DEF SlotInv
  <2>3. CASE SettingUp("devices")
    <3>1. Unwind("devices") /\ "devices" \in Parts
      BY <1>5, <2>3, Zenon DEF OpenFails, SettingUp, Parts
    <3>2. life["devices"] = "absent"
      BY <2>3, <3>1, Absent, Zenon
    <3> QED
      BY <1>1, <1>2, <2>1, <2>3, <3>1, <3>2, UnwindStep, Zenon
  <2>4. CASE app = "adding"
    <3>1. app' = "ready" /\ todo' = todo /\ Using /\ Using'
      BY <1>5, <2>4, Zenon DEF OpenFails, Using
    <3>2. TodoInv' /\ LifeInv' /\ Left' = Left
      BY <1>3, <3>1, Zenon
    <3>3. SlotInv' /\ CountInv'
      BY <1>2, <2>1, <3>1, <3>2, Zenon DEF SlotInv, CountInv, Building, Using
    <3> QED
      BY <1>1, <2>1, <3>2, <3>3, KeepThreads, Zenon DEF Rest
  <2> QED
    BY <2>2, <2>3, <2>4, Zenon
<1>6. CASE Publish
  <2>1. /\ num_devices' = num_devices + 1 /\ slot[num_devices] = "open" /\ slot' = slot
        /\ todo' = todo
    BY <1>6, Zenon DEF Publish, NextSlot
  <2>2. app = "adding" \/ SettingUp("devices")
    BY <1>2, <2>1, Zenon DEF SlotInv
  <2>3. app' = app \/ (Using /\ Using')
    BY <1>6, Zenon DEF Publish, Using
  <2>4. TodoInv' /\ LifeInv' /\ Left' = Left /\ (Building <=> Building') /\ (Using <=> Using')
    BY <1>3, <2>1, <2>3, Zenon
  <2>5. SlotInv'
    <3>1. Building \/ Using
      BY <2>2, Zenon DEF Building, Using, SettingUp
    <3> QED
      BY <1>2, <2>1, <2>4, <3>1 DEF SlotInv
  <2>6. CountInv'
    <3>1. CASE Using
      BY <2>4, <3>1, Zenon DEF CountInv, Building, Using
    <3>2. CASE SettingUp("devices")
      <4>1. "paths" \notin Left
        BY <3>2, InitLeft, Zenon DEF SettingUp, HeadIs, TypeOK, TodoInv, Building
      <4> QED
        BY <2>4, <4>1, Zenon DEF CountInv
    <3> QED
      BY <2>2, <3>1, <3>2, Zenon DEF Using
  <2>7. ThreadInv'
    BY <1>1, <1>2, <2>1, LifecycleAssumption DEF ThreadInv, TypeOK
  <2> QED
    BY <2>4, <2>5, <2>6, <2>7, Zenon DEF Rest
<1> QED
  BY <1>4, <1>5, <1>6, Zenon

\* thread_pool_create.
LEMMA PoolSteps ==
    ASSUME LifecycleInv,
           CreatePool \/ CreateWorker \/ CreateWorkerFails \/ Broadcast \/ JoinCreated
    PROVE  Rest'
<1> USE DEF LifecycleInv
<1>1. /\ initialized' = initialized /\ slot' = slot /\ num_devices' = num_devices
      /\ count' = count /\ probe' = probe /\ index' = index /\ work' = work
  BY Zenon DEF CreatePool, CreateWorker, CreateWorkerFails, Broadcast, JoinCreated,
     AppStays,
         deviceVars, poolVars, probeVars
<1>2. Building /\ HeadIs("workers") /\ ~initialized /\ "workers" \in Parts /\ "probe" \in Parts
  BY Zenon DEF CreatePool, CreateWorker, CreateWorkerFails, Broadcast, JoinCreated,
     SettingUp,
         Building, TodoInv, HeadIs, Parts
<1>3. \A d \in Slots : d = num_devices => slot[d] = "closed"
  BY <1>2, Zenon DEF SlotInv, SettingUp, HeadIs, Building
<1>4. ASSUME Building', todo' = todo, app' \in {"init", "broadcast", "join_created"}
      PROVE  TodoInv' /\ SlotInv' /\ CountInv' /\ Left' = Left
  <2>1. TodoInv' /\ Left' = Left
    BY <1>1, <1>2, <1>4 DEF TodoInv, Distinct, Suffix, HeadIs, Left, Building, Using
  <2> QED
    BY <1>1, <1>2, <1>3, <1>4, <2>1, Zenon DEF SlotInv, CountInv
<1>5. CASE CreatePool /\ life' # life
  <2>1. /\ life' = [life EXCEPT !["workers"] = "live"] /\ app' = app /\ todo' = todo
        /\ worker' = worker /\ app = "init"
    BY <1>5, Zenon DEF CreatePool, SetLife, SettingUp, poolVars
  <2>2. life'["workers"] = "live" /\ \A q \in Parts \ {"workers"} : life'[q] = life[q]
    BY <1>2, <2>1, Zenon DEF TypeOK
  <2>3. TodoInv' /\ SlotInv' /\ CountInv' /\ Left' = Left
    BY <1>2, <1>4, <2>1, Zenon DEF Building
  <2>4. LifeInv'
    BY <1>1, <1>2, <2>1, <2>2, <2>3 DEF LifeInv, Building, Using, HeadIs, Optional, Parts
  <2>5. ThreadInv'
    BY <1>1, <1>2, <2>1, <2>2, Zenon DEF ThreadInv
  <2> QED
    BY <2>3, <2>4, <2>5, Zenon DEF Rest
<1>6. CASE CreatePool /\ life' = life
  <2>1. Unwind("workers") /\ life["workers"] = "absent" /\ worker' = worker
        /\ SettingUp("workers")
    <3>1. life' = [life EXCEPT !["workers"] = "live"] => life'["workers"] = "live"
      BY <1>2, Zenon DEF TypeOK
    <3> QED
      BY <1>6, <3>1, Zenon DEF CreatePool, SetLife, poolVars
  <2> QED
    BY <1>1, <1>3, <1>6, <2>1, UnwindStep, Zenon
<1>7. CASE CreateWorker \/ CreateWorkerFails \/ Broadcast
  <2>1. /\ life' = life /\ todo' = todo /\ Building'
        /\ app' \in {"init", "broadcast", "join_created"}
        /\ \A w \in Workers : worker'[w] = worker[w] \/ worker'[w] = "lock"
    BY <1>7, Zenon DEF CreateWorker, CreateWorkerFails, Broadcast, Awake, Building,
       SettingUp, TypeOK
  <2>2. life["workers"] = "live" \/ worker' = Awake
    BY <1>7, Zenon DEF CreateWorker, CreateWorkerFails, Broadcast
  <2>3. TodoInv' /\ SlotInv' /\ CountInv' /\ Left' = Left
    BY <1>4, <2>1, Zenon
  <2>4. LifeInv'
    <3>1. life["probe"] # "live"
      <4>1. "probe" \in Left
        BY <1>2, InitLeft, Zenon DEF TypeOK, TodoInv
      <4> QED
        BY <1>2, <4>1, Zenon DEF LifeInv, HeadIs
    <3> QED
      BY <1>1, <1>2, <2>1, <2>3, <3>1, Zenon DEF LifeInv, Building, Using, HeadIs
  <2>5. ThreadInv'
    <3>1. CASE life["workers"] = "live"
      BY <1>1, <2>1, <3>1, Zenon DEF ThreadInv
    <3>2. CASE worker' = Awake
      BY <1>1, <2>1, <3>2, Zenon DEF ThreadInv, Awake
    <3> QED
      BY <2>2, <3>1, <3>2, Zenon
  <2> QED
    BY <2>3, <2>4, <2>5, Zenon DEF Rest
<1>8. CASE JoinCreated
  <2>1. /\ life' = [life EXCEPT !["workers"] = "released"] /\ Unwind("workers")
        /\ worker' = worker /\ AllExited
    BY <1>8, Zenon DEF JoinCreated, SetLife, poolVars
  <2>2. life'["workers"] = "released" /\ \A q \in Parts \ {"workers"} : life'[q] = life[q]
    BY <1>2, <2>1, Zenon DEF TypeOK
  <2>3. TodoInv' /\ LifeInv' /\ SlotInv' /\ CountInv'
    BY <1>1, <1>2, <1>3, <2>1, <2>2, Unwinds, Zenon
  <2>4. ThreadInv'
    BY <1>1, <1>2, <2>1, <2>2, Zenon DEF ThreadInv, AllExited, Created
  <2> QED
    BY <2>3, <2>4, Zenon DEF Rest
<1> QED
  BY <1>5, <1>6, <1>7, <1>8, Zenon

\* The last step of kv_engine_init and its return.
LEMMA InitEnds ==
    ASSUME LifecycleInv, CreateProbe \/ InitReturn
    PROVE  Rest'
<1> USE DEF LifecycleInv
<1>1. CASE CreateProbe
  <2>1. /\ SettingUp("probe") /\ todo' = Tail(todo) /\ app' = app /\ SetLife("probe", "live")
        /\ "probe" \in Parts /\ "workers" \in Parts /\ probe' = "check"
        /\ initialized' = initialized /\ slot' = slot /\ num_devices' = num_devices
        /\ worker' = worker /\ work' = work
    BY <1>1, Zenon DEF CreateProbe, Done, Parts, deviceVars, poolVars
  <2>2. TodoInv' /\ LifeInv' /\ SlotInv' /\ CountInv'
    BY <2>1, Advance, AdvanceLife, AdvanceSlots, Zenon
  <2>3. life'["probe"] = "live" /\ life'["workers"] = life["workers"]
    BY <2>1, Zenon DEF SetLife, TypeOK
  <2>4. ThreadInv'
    BY <2>1, <2>3, Zenon DEF ThreadInv
  <2> QED
    BY <2>2, <2>4, Zenon DEF Rest
<1>2. CASE InitReturn
  <2>1. /\ app = "init" /\ todo = <<>> /\ app' = "ready" /\ initialized' /\ todo' = todo
        /\ life' = life /\ slot' = slot /\ num_devices' = num_devices
        /\ worker' = worker /\ work' = work /\ probe' = probe /\ index' = index
    BY <1>2, Zenon DEF InitReturn, deviceVars, poolVars, probeVars
  <2>2. Building /\ ~Building' /\ Using' /\ Left = {} /\ Left' = {}
    BY <2>1, InitLeft DEF Building, Using, Left, TypeOK, TodoInv
  <2>3. TodoInv' /\ CountInv'
    BY <2>1, <2>2, Zenon DEF TodoInv, Distinct, CountInv
  <2>4. LifeInv'
    BY <2>1, <2>2, Zenon DEF LifeInv
  <2>5. SlotInv'
    BY <2>1, <2>2, Zenon DEF SlotInv, SettingUp
  <2>6. ThreadInv'
    BY <2>1, Zenon DEF ThreadInv
  <2> QED
    BY <2>3, <2>4, <2>5, <2>6, Zenon DEF Rest
<1> QED
  BY <1>1, <1>2, Zenon

\* kv_engine_cleanup begins.
LEMMA CleanupBegins ==
    ASSUME LifecycleInv, Cleanup
    PROVE  Rest'
<1> USE DEF LifecycleInv
<1>1. /\ app = "ready" /\ app' = "teardown" /\ todo' = CleanupOrder
      /\ initialized' = initialized /\ life' = life /\ slot' = slot
      /\ num_devices' = num_devices /\ worker' = worker /\ work' = work
      /\ probe' = probe /\ index' = index
  BY Zenon DEF Cleanup, deviceVars, poolVars, probeVars
<1>2. Using /\ initialized /\ ~Building /\ ~Building' /\ ~Using'
  BY <1>1, Zenon DEF Using, Building, TodoInv
<1>3. /\ DOMAIN todo' = 1 .. 9 /\ Len(todo') = 9 /\ Len(CleanupOrder) = 9
      /\ todo'[1] = "probe" /\ todo'[2] = "workers" /\ todo'[3] = "buffer_pool"
      /\ todo'[4] = "mem_pool" /\ todo'[5] = "devices" /\ todo'[6] = "table"
      /\ todo'[7] = "strings" /\ todo'[8] = "stats_lock" /\ todo'[9] = "engine"
  BY <1>1 DEF CleanupOrder
<1>4. Distinct'
  BY <1>3 DEF Distinct
<1>5. Left' = Parts \ {"paths"}
  BY <1>3 DEF Left, Parts
<1>6. Suffix(CleanupOrder)'
  <2>1. \A i \in 1 .. 9 : i + (9 - 9) = i
    OBVIOUS
  <2> QED
    BY <1>1, <1>3, <2>1 DEF Suffix
<1>7. TodoInv' /\ CountInv'
  BY <1>1, <1>2, <1>4, <1>6, Zenon DEF TodoInv, CountInv
<1>8. LifeInv'
  BY <1>1, <1>2, <1>5, Zenon DEF LifeInv
<1>9. SlotInv'
  BY <1>1, <1>2, <1>5, Zenon DEF SlotInv, SettingUp, Parts
<1>10. ThreadInv'
  BY <1>1, Zenon DEF ThreadInv
<1> QED
  BY <1>7, <1>8, <1>9, <1>10, Zenon DEF Rest

\* A part is released that no thread uses, or whose thread has ended.
LEMMA LessStep ==
    ASSUME LifecycleInv, NEW p \in Parts \ {"devices"}, HeadIs(p), Released(p),
           ~Building, ~Using, app' = "teardown", Still,
           p = "workers" => life[p] # "live" \/ AllExited,
           p = "probe" => life[p] # "live" \/ probe = "exit"
    PROVE  Rest'
<1> USE DEF LifecycleInv
<1>1. /\ TodoInv' /\ LifeInv' /\ CountInv' /\ Left' = Left \ {p}
      /\ \A q \in Parts \ {p} : life'[q] = life[q]
      /\ life'[p] # "live"
  BY Less, Zenon DEF Still
<1>2. ~Building' /\ ~Using'
  BY Zenon DEF Building, Using
<1>3. SlotInv'
  BY <1>1, <1>2, LessSlots, Zenon DEF Still
<1>4. {"workers", "probe"} \subseteq Parts
  BY Zenon DEF Parts
<1>5. /\ p # "workers" => life'["workers"] = life["workers"]
      /\ p # "probe" => life'["probe"] = life["probe"]
  BY <1>1, <1>4, Zenon
<1>6. p = "workers" => \A w \in Workers : worker[w] \in {"none", "exited"}
  BY Zenon DEF AllExited, Created, ThreadInv
<1>7. p = "probe" => probe \in {"none", "exit"}
  BY Zenon DEF ThreadInv
<1>8. ThreadInv'
  BY <1>5, <1>6, <1>7, Zenon DEF ThreadInv, Still
<1> QED
  BY <1>1, <1>3, <1>8, Zenon DEF Rest

\* kv_engine_cleanup and the error paths.
LEMMA TeardownSteps ==
    ASSUME LifecycleInv, TeardownStep
    PROVE  Rest'
<1> USE DEF LifecycleInv
<1>0. {"workers", "probe", "devices"} \subseteq Parts
  BY Zenon DEF Parts
<1>1. ASSUME NEW p \in Parts, Release(p) PROVE Rest'
  <2>1. /\ HeadIs(p) /\ Released(p) /\ ~Building /\ ~Using /\ app' = "teardown"
        /\ p # "devices" /\ (p \in {"workers", "probe"} => life[p] # "live")
    BY <1>1, Zenon DEF Release, TearingDown, HeadIs, Building, Using
  <2>2. Still
    BY <1>1, Zenon DEF Release, Still, deviceVars, poolVars, probeVars
  <2> QED
    BY <2>1, <2>2, LessStep, Zenon
<1>2. CASE JoinWorkers
  <2>1. /\ HeadIs("workers") /\ Released("workers") /\ ~Building /\ ~Using
        /\ app' = "teardown" /\ AllExited
    BY <1>2, Zenon DEF JoinWorkers, TodoInv, Building, Using
  <2>2. Still
    BY <1>2, Zenon DEF JoinWorkers, AppStays, Still, deviceVars, poolVars, probeVars
  <2> QED
    BY <1>0, <2>1, <2>2, LessStep, Zenon
<1>3. CASE JoinProbe
  <2>1. /\ HeadIs("probe") /\ Released("probe") /\ ~Building /\ ~Using
        /\ app' = "teardown" /\ probe = "exit"
    BY <1>3, Zenon DEF JoinProbe, TodoInv, Building, Using
  <2>2. Still
    BY <1>3, Zenon DEF JoinProbe, Still, deviceVars, poolVars, probeVars
  <2> QED
    BY <1>0, <2>1, <2>2, LessStep, Zenon
<1>4. CASE CloseDevices
  <2>1. /\ HeadIs("devices") /\ Released("devices") /\ ~Building /\ ~Using
        /\ app = "teardown" /\ app' = "teardown" /\ initialized' = initialized
        /\ slot' = [d \in Slots |-> IF d < num_devices THEN "closed" ELSE slot[d]]
        /\ num_devices' = num_devices /\ worker' = worker /\ work' = work
        /\ probe' = probe /\ index' = index
    BY <1>4, Zenon DEF CloseDevices, TearingDown, HeadIs, Building, Using, poolVars,
       probeVars
  <2>2. /\ TodoInv' /\ LifeInv' /\ CountInv' /\ Left' = Left \ {"devices"}
        /\ \A q \in Parts \ {"devices"} : life'[q] = life[q]
    BY <1>0, <2>1, Less, Zenon
  <2>3. SlotInv'
    <3>1. ~Building' /\ ~Using'
      BY <2>1, Zenon DEF Building, Using
    <3> QED
      BY <2>1, <2>2, <3>1, Zenon DEF SlotInv, SettingUp
  <2>4. ThreadInv'
    BY <1>0, <2>1, <2>2, KeepThreads, Zenon
  <2> QED
    BY <2>2, <2>3, <2>4, Zenon DEF Rest
<1>5. CASE StopWorkers \/ StopProbe \/ SignalProbe \/ TeardownReturn
  <2>1. /\ initialized' = initialized /\ life' = life /\ todo' = todo /\ slot' = slot
        /\ num_devices' = num_devices /\ work' = work /\ index' = index
    BY <1>5, Zenon DEF StopWorkers, StopProbe, SignalProbe, TeardownReturn, AppStays,
                deviceVars, poolVars, probeVars
  <2>2. /\ worker' = worker \/ worker' = Awake
        /\ probe' = probe \/ (probe = "wait" /\ probe' = "recheck")
    BY <1>5, Zenon DEF StopWorkers, StopProbe, SignalProbe, TeardownReturn, AppStays,
                poolVars, probeVars
  <2>3. ~Building /\ ~Using /\ ~Building' /\ ~Using'
    BY <1>5, Zenon DEF StopWorkers, StopProbe, SignalProbe, TeardownReturn, TearingDown,
       Building, Using
  <2>4. /\ app' = "join_workers" => HeadIs("workers")
        /\ app' \in {"signal", "join_probe"} => HeadIs("probe")
        /\ app' = "end" => todo = <<>>
        /\ app' \notin {"broadcast", "join_created"}
    BY <1>5, Zenon DEF StopWorkers, StopProbe, SignalProbe, TeardownReturn, TearingDown,
       HeadIs, TodoInv
  <2>5. Left' = Left
    BY <2>1, Zenon DEF Left
  <2>6. TodoInv'
    BY <2>1, <2>3, <2>4, Zenon DEF TodoInv, Distinct, Suffix, HeadIs
  <2>7. LifeInv' /\ CountInv'
    BY <2>1, <2>3, <2>5, Zenon DEF LifeInv, CountInv, Building
  <2>8. SlotInv'
    BY <2>1, <2>3, <2>5, LessSlots, Zenon
  <2>9. ThreadInv'
    <3>1. \A w \in Workers : worker'[w] = worker[w] \/ (worker[w] = "wait" /\ worker'[w] = "lock")
      BY <2>2, Zenon DEF Awake
    <3> QED
      BY <2>1, <2>2, <3>1, Zenon DEF ThreadInv
  <2> QED
    BY <2>6, <2>7, <2>8, <2>9, Zenon DEF Rest
<1> QED
  BY <1>1, <1>2, <1>3, <1>4, <1>5, Zenon DEF TeardownStep

\* kv_engine_init is called.
LEMMA InitInv == Init => LifecycleInv
<1> SUFFICES ASSUME Init PROVE LifecycleInv
  BY Zenon
<1>1. todo = InitOrder /\ app = "init" /\ ~initialized /\ Building /\ ~Using
  BY Zenon DEF Init, Building, Using
<1>2. /\ DOMAIN todo = 1 .. 10 /\ Len(todo) = 10 /\ Len(InitOrder) = 10
      /\ todo[1] = "engine" /\ todo[2] = "strings" /\ todo[3] = "paths"
      /\ todo[4] = "devices" /\ todo[5] = "mem_pool" /\ todo[6] = "workers"
      /\ todo[7] = "stats_lock" /\ todo[8] = "buffer_pool" /\ todo[9] = "table"
      /\ todo[10] = "probe"
  BY <1>1 DEF InitOrder
<1>3. Distinct
  BY <1>2 DEF Distinct
<1>4. Left = Parts
  BY <1>2 DEF Left, Parts
<1>5. Suffix(InitOrder)
  <2>1. \A i \in 1 .. 10 : i + (10 - 10) = i
    OBVIOUS
  <2> QED
    BY <1>1, <1>2, <2>1 DEF Suffix
<1>6. TodoInv
  BY <1>1, <1>3, <1>5, Zenon DEF TodoInv
<1>7. TypeOK
  <2>1. todo \in Seq(Parts)
    BY <1>1 DEF InitOrder, Parts
  <2>2. initialized \in BOOLEAN /\ shutdown \in BOOLEAN /\ running \in BOOLEAN
    BY Zenon DEF Init
  <2>3. count \in 0 .. MaxDevices /\ num_devices \in 0 .. MaxDevices /\ index \in 0 .. MaxDevices
        /\ work \in 0 .. MaxWork
    BY LifecycleAssumption DEF Init
  <2>4. /\ life \in [Parts -> {"absent", "live", "released"}]
        /\ slot \in [Slots -> {"closed", "opening", "open"}]
        /\ worker \in [Workers -> {"none", "lock", "checked", "wait", "run", "exited"}]
    BY Zenon DEF Init
  <2> QED
    BY <2>1, <2>2, <2>3, <2>4, Zenon DEF Init, TypeOK
<1>8. LifeInv
  BY <1>1, <1>4, Zenon DEF Init, LifeInv, Parts
<1>9. SlotInv /\ CountInv
  BY LifecycleAssumption DEF Init, SlotInv, CountInv, Slots
<1>10. ThreadInv
  BY DEF Init, ThreadInv
<1> QED
  BY <1>6, <1>7, <1>8, <1>9, <1>10, Zenon DEF LifecycleInv

\* Every step keeps the invariant.
LEMMA NextInv == LifecycleInv /\ [Next]_vars => LifecycleInv'
<1> SUFFICES ASSUME LifecycleInv, [Next]_vars PROVE LifecycleInv'
  BY Zenon
<1>1. CASE InitStep
  <2>1. Rest'
    BY <1>1, SetUpSteps, DeviceSteps, PoolSteps, InitEnds, Zenon DEF InitStep
  <2> QED
    BY <1>1, <2>1, InitTypes, Zenon DEF LifecycleInv, Rest
<1>2. CASE TeardownStep
  BY <1>2, TeardownTypes, TeardownSteps, Zenon DEF LifecycleInv, Rest
<1>3. CASE \/ AddDevice \/ Submit \/ Cleanup \/ ProbeStep
           \/ \E w \in Workers : WorkerStep(w) \/ SpuriousWake(w)
  <2>1. Rest'
    BY <1>3, DeviceSteps, SubmitStep, CleanupBegins, ProbeSteps, WorkerSteps, Zenon
  <2> QED
    BY <1>3, <2>1, OtherTypes, Zenon DEF LifecycleInv, Rest
<1>4. CASE UNCHANGED vars
  <2>1. /\ app' = app /\ todo' = todo /\ initialized' = initialized /\ life' = life
        /\ slot' = slot /\ num_devices' = num_devices /\ count' = count /\ config' = config
        /\ worker' = worker /\ work' = work /\ shutdown' = shutdown
        /\ probe' = probe /\ index' = index /\ running' = running
    BY <1>4, Zenon DEF vars, deviceVars, poolVars, probeVars
  <2>2. TodoInv' /\ LifeInv' /\ SlotInv' /\ CountInv' /\ ThreadInv'
    BY <2>1, KeepTodo, KeepLife, KeepSlots, KeepThreads, Zenon DEF LifecycleInv
  <2>3. TypeOK'
    BY <2>1 DEF LifecycleInv, TypeOK
  <2> QED
    BY <2>2, <2>3, Zenon DEF LifecycleInv
<1> QED
  BY <1>1, <1>2, <1>3, <1>4, Zenon DEF Next, Terminated

-----------------------------------------------------------------------------
(* The theorems                                                            *)

\* The inductive invariant.
THEOREM LifecycleInvCorrect == Spec => []LifecycleInv
BY InitInv, NextInv, PTL DEF Spec

\* The variables keep their types; in particular no more devices are opened
\* than kv_engine_resolve_device_paths admits, and the probe's loop variable
\* stays inside the array.
THEOREM LifecycleTypeCorrect == Spec => []TypeOK
<1>1. LifecycleInv => TypeOK
  BY Zenon DEF LifecycleInv
<1> QED
  BY <1>1, LifecycleInvCorrect, PTL

\* The engine that a running thread of the engine sees, until it is joined.
LEMMA StillThere ==
    ASSUME LifecycleInv, NEW p \in {"workers", "probe"}, life[p] = "live", initialized
    PROVE  /\ life["engine"] = "live"
           /\ Building \/ Using \/ "devices" \in Left
           /\ p = "workers" => /\ life["table"] = "live" /\ life["stats_lock"] = "live"
                               /\ life["buffer_pool"] # "released"
<1> USE DEF LifecycleInv
<1>1. /\ p \in Parts /\ {"engine", "table", "stats_lock", "buffer_pool"} \subseteq Parts
      /\ {"engine", "table", "stats_lock"} \cap Optional = {} /\ p # "strings"
  BY Zenon DEF Parts, Optional
<1>2. CASE Using
  BY <1>1, <1>2, Zenon DEF LifeInv
<1>3. CASE ~Using
  <2>1. ~Building /\ Suffix(CleanupOrder) /\ p \in Left
    BY <1>1, <1>3, Zenon DEF TodoInv, LifeInv
  <2>2. /\ {"devices", "engine"} \subseteq Left
        /\ p = "workers" => {"table", "stats_lock", "buffer_pool"} \subseteq Left
    BY <2>1, CleanupLeft, Zenon DEF TypeOK
  <2> QED
    BY <1>1, <1>3, <2>1, <2>2, Zenon DEF LifeInv
<1> QED
  BY <1>2, <1>3, Zenon

\* kv_engine_add_device publishes a slot after opening it, and kv_engine_cleanup
\* joins the probe before it closes any: the probe uses what is there.
THEOREM VisitsCorrect == Spec => []VisitsOpenDevices
<1>1. LifecycleInv => VisitsOpenDevices
  <2> SUFFICES ASSUME LifecycleInv, probe \notin {"none", "exit"}
               PROVE  /\ life["engine"] = "live" /\ life["probe"] = "live"
                      /\ probe = "visit" => slot[index] = "open"
    BY Zenon DEF VisitsOpenDevices
  <2> USE DEF LifecycleInv
  <2>1. life["probe"] = "live" /\ (initialized \/ app = "init")
    BY Zenon DEF ThreadInv, LifeInv
  <2>2. life["engine"] = "live" /\ (Building \/ Using \/ "devices" \in Left)
    <3>1. CASE initialized
      BY <2>1, <3>1, StillThere, Zenon
    <3>2. CASE app = "init"
      <4>1. Building /\ "probe" \in Parts /\ "engine" \in Parts
        BY <3>2, Zenon DEF Building, Parts
      <4>2. "probe" \notin Left
        BY <2>1, <4>1, Zenon DEF LifeInv
      <4>3. todo = <<>>
        <5> SUFFICES ASSUME todo # <<>> PROVE FALSE
          BY Zenon
        <5> QED
          BY <4>1, <4>2, LastLeft, Zenon DEF TodoInv, TypeOK
      <4>4. "engine" \notin Left
        BY <4>1, <4>3, InitLeft, Zenon DEF TodoInv, TypeOK
      <4> QED
        BY <4>1, <4>4 DEF LifeInv, Optional
    <3> QED
      BY <2>1, <3>1, <3>2, Zenon
  <2>3. probe = "visit" => index \in Slots /\ index < num_devices
    BY LifecycleAssumption DEF ThreadInv, TypeOK, Slots
  <2> QED
    BY <2>1, <2>2, <2>3, Zenon DEF SlotInv
<1> QED
  BY <1>1, LifecycleInvCorrect, PTL

\* kv_engine_cleanup joins the workers before it releases anything a request
\* may use, so a worker that runs one finds it all.
THEOREM WorkersCorrect == Spec => []WorkersFindParts
<1>1. LifecycleInv => WorkersFindParts
  <2> SUFFICES ASSUME LifecycleInv, NEW w \in Workers, worker[w] \notin {"none", "exited"}
               PROVE  /\ life["workers"] = "live"
                      /\ worker[w] = "run" =>
                          /\ \A d \in 0 .. num_devices - 1 : slot[d] = "open"
                          /\ \A p \in {"engine", "table", "stats_lock"} : life[p] = "live"
                          /\ life["buffer_pool"] # "released"
    BY Zenon DEF WorkersFindParts
  <2> USE DEF LifecycleInv
  <2>1. life["workers"] = "live"
    BY Zenon DEF ThreadInv
  <2>2. ASSUME worker[w] = "run"
        PROVE  /\ \A p \in {"engine", "table", "stats_lock"} : life[p] = "live"
               /\ life["buffer_pool"] # "released"
               /\ Building \/ Using \/ "devices" \in Left
    BY <2>1, <2>2, StillThere, Zenon DEF ThreadInv
  <2>3. \A d \in 0 .. num_devices - 1 : d \in Slots /\ d < num_devices
    BY LifecycleAssumption DEF TypeOK, Slots
  <2> QED
    BY <2>1, <2>2, <2>3, Zenon DEF SlotInv
<1> QED
  BY <1>1, LifecycleInvCorrect, PTL

\* Whatever part kv_engine_init failed at, and after kv_engine_cleanup, nothing
\* is left but the copies of the configuration strings of a failed init.
THEOREM NothingLeftCorrect == Spec => []NothingLeft
<1>1. LifecycleInv => NothingLeft
  <2> SUFFICES ASSUME LifecycleInv, app = "end"
               PROVE  /\ \A p \in Parts : life[p] = "live" => p = "strings" /\ ~initialized
                      /\ \A d \in Slots : slot[d] = "closed"
                      /\ AllExited /\ probe \in {"none", "exit"}
    BY Zenon DEF NothingLeft
  <2> USE DEF LifecycleInv
  <2>1. ~Building /\ ~Using /\ Left = {}
    BY DEF Building, Using, TodoInv, Left
  <2>2. \A p \in Parts : life[p] = "live" => p = "strings" /\ ~initialized
    BY <2>1, Zenon DEF LifeInv
  <2>3. \A d \in Slots : slot[d] = "closed"
    <3>1. \A d \in Slots : d \in Int /\ num_devices \in Int
      BY LifecycleAssumption DEF Slots, TypeOK
    <3> QED
      BY <2>1, <3>1 DEF SlotInv, SettingUp
  <2>4. life["workers"] # "live" /\ life["probe"] # "live"
    BY <2>2, Zenon DEF Parts
  <2>5. AllExited /\ probe \in {"none", "exit"}
    BY <2>4, Zenon DEF ThreadInv, AllExited, Created
  <2> QED
    BY <2>2, <2>3, <2>5, Zenon
<1> QED
  BY <1>1, LifecycleInvCorrect, PTL
=============================================================================
