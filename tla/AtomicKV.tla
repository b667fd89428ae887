------------------------------ MODULE AtomicKV ------------------------------
(***************************************************************************)
(* What the synchronous operations promise concurrent callers: one map,    *)
(* and each call takes effect at one instant between its invocation and    *)
(* its return.  Only a call that reports a fault may or may not have had   *)
(* its effect.  Which map it is depends on the number of devices in use:   *)
(* each number finds what was stored under those that route a key alike.   *)
(* An existence check never reports an absent key; it may miss a stored    *)
(* one that is loose, which calls that overlap or fail, added devices and  *)
(* crashes can make it, until an update has the key to itself.             *)
(***************************************************************************)
CONSTANTS
    Threads, Keys, Values, NoValue,
    Counts   \* the numbers of devices an engine can have

VARIABLES
    map,      \* for each number of devices, the value it finds for each key
    devices,  \* the number of devices in use
    call,     \* the call each thread is making
    loose     \* the keys that existence checks may miss

kvVars == <<map, devices, call, loose>>

Kinds == {"store", "retrieve", "delete", "exists"}

\* flag is overwrite for a store and delete_value for a retrieve.
CallRecords ==
    [phase : {"pending", "applied"}, kind : Kinds, key : Keys,
     arg : Values \cup {NoValue}, flag : BOOLEAN,
     alone : BOOLEAN, out : Values \cup {NoValue},
     answer : {"done", "absent", "present", "error"}]

NoCall == [phase |-> "idle"]

Init ==
    /\ map = [n \in Counts |-> [k \in Keys |-> NoValue]]
    /\ devices \in Counts
    /\ call = [t \in Threads |-> NoCall]
    /\ loose = {}

Users(k) == {t \in Threads : call[t] # NoCall /\ call[t].key = k}

Invoke(t) ==
    /\ call[t] = NoCall
    /\ \E c \in {call'[t]} :
        /\ c \in CallRecords /\ c.phase = "pending"
        /\ c.alone = (Users(c.key) = {})
        /\ call' = [s \in Threads |->
                     IF s = t THEN c
                     ELSE IF s \in Users(c.key) THEN [call[s] EXCEPT !.alone = FALSE]
                     ELSE call[s]]
        /\ loose' = IF c.alone THEN loose ELSE loose \cup {c.key}
    /\ UNCHANGED <<map, devices>>

Found(k) == map[devices][k]

\* The effect of call c, and whether it succeeds.
Succeeds(c) ==
    CASE c.kind = "store" -> c.flag \/ Found(c.key) = NoValue
      [] c.kind = "retrieve" -> Found(c.key) # NoValue
      [] OTHER -> TRUE

Answer(c) ==
    IF Succeeds(c) THEN "done" ELSE IF c.kind = "store" THEN "present" ELSE "absent"

Removes(c) == c.kind = "delete" \/ (c.kind = "retrieve" /\ c.flag)
Updates(c) == Succeeds(c) /\ (c.kind = "store" \/ Removes(c))

\* The other numbers of devices in S find the new value as well; the rest finds
\* what it found before.
Effect(c) ==
    LET v == IF c.kind = "store" THEN c.arg ELSE NoValue
    IN  \E S \in SUBSET Counts :
            /\ devices \in S
            /\ map' = [n \in Counts |-> IF n \in S THEN [map[n] EXCEPT ![c.key] = v]
                                       ELSE map[n]]

\* What the call may return beside its answer.
Outs(c) ==
    CASE c.kind = "retrieve" -> {Found(c.key)}
      [] c.kind = "exists" -> {Found(c.key)} \cup {v \in {NoValue} : c.key \in loose}
      [] OTHER -> {NoValue}

\* An update that has its key to itself settles it, if there is memory.
Apply(t) ==
    LET c == call[t]
    IN  /\ c.phase = "pending"
        /\ \E out \in Outs(c) :
            call' = [call EXCEPT ![t] = [c EXCEPT !.phase = "applied",
                                                  !.answer = Answer(c), !.out = out]]
        /\ \/ Updates(c) /\ c.alone /\ loose' = loose \ {c.key}
           \/ Updates(c) /\ c.kind = "store" /\ loose' = loose \cup {c.key}
           \/ ~(Updates(c) /\ c.alone) /\ loose' = loose
        /\ IF Updates(c) THEN Effect(c) ELSE UNCHANGED map
        /\ UNCHANGED devices

\* A fault, or a refusal before anything was done.
Fail(t) ==
    LET c == call[t]
    IN  /\ c.phase = "pending"
        /\ call' = [call EXCEPT ![t] = [c EXCEPT !.phase = "applied",
                                                 !.answer = "error"]]
        /\ loose' \in {loose, loose \cup {c.key}}
        /\ UNCHANGED map \/ (Updates(c) /\ Effect(c))
        /\ UNCHANGED devices

Return(t) ==
    /\ call[t].phase = "applied"
    /\ call' = [call EXCEPT ![t] = NoCall]
    /\ UNCHANGED <<map, devices, loose>>

\* The number of devices changes between calls: existence checks may miss what
\* it brings to light.
AddDevice ==
    /\ \A t \in Threads : call[t] = NoCall
    /\ devices' \in Counts
    /\ loose' = loose \cup {k \in Keys : map[devices'][k] # Found(k)}
    /\ UNCHANGED <<map, call>>

\* All calls in progress are lost; some have had their effect.
Crash ==
    /\ call' = [t \in Threads |-> NoCall]
    /\ devices' \in Counts
    /\ loose' = Keys
    /\ UNCHANGED map

Next ==
    \/ \E t \in Threads : Invoke(t) \/ Apply(t) \/ Fail(t) \/ Return(t)
    \/ AddDevice \/ Crash

Spec == Init /\ [][Next]_kvVars
=============================================================================
