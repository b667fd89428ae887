----------------------------- MODULE WorkQueue ------------------------------
(***************************************************************************)
(* What a work queue promises its users, with no threads, locks, condition *)
(* variables or capacity: an item handed over is refused or accepted,      *)
(* accepted items start in the order of their acceptance, each one runs    *)
(* once, and a queue that is closed accepts nothing more and is disposed   *)
(* of only after everything it accepted has run.                           *)
(***************************************************************************)
EXTENDS Sequences

CONSTANT Items

VARIABLES
    pending,   \* accepted items that have not started, in order
    active,    \* items being executed
    done,      \* items executed
    refused,   \* items refused
    state      \* "open", "closed" or "gone"

wqVars == <<pending, active, done, refused, state>>

InQueue(i) == \E n \in DOMAIN pending : pending[n] = i

Fresh(i) == ~InQueue(i) /\ i \notin active \cup done \cup refused

Init ==
    /\ pending = <<>>
    /\ active = {}
    /\ done = {}
    /\ refused = {}
    /\ state = "open"

Accept(i) ==
    /\ state = "open"
    /\ Fresh(i)
    /\ pending' = Append(pending, i)
    /\ UNCHANGED <<active, done, refused, state>>

Refuse(i) ==
    /\ state # "gone"
    /\ Fresh(i)
    /\ refused' = refused \cup {i}
    /\ UNCHANGED <<pending, active, done, state>>

Start ==
    /\ state # "gone"
    /\ pending # <<>>
    /\ active' = active \cup {Head(pending)}
    /\ pending' = Tail(pending)
    /\ UNCHANGED <<done, refused, state>>

Finish(i) ==
    /\ state # "gone"
    /\ i \in active
    /\ active' = active \ {i}
    /\ done' = done \cup {i}
    /\ UNCHANGED <<pending, refused, state>>

Close ==
    /\ state = "open"
    /\ state' = "closed"
    /\ UNCHANGED <<pending, active, done, refused>>

Dispose ==
    /\ state = "closed"
    /\ pending = <<>>
    /\ active = {}
    /\ state' = "gone"
    /\ UNCHANGED <<pending, active, done, refused>>

Next ==
    \/ \E i \in Items : Accept(i) \/ Refuse(i) \/ Finish(i)
    \/ Start
    \/ Close
    \/ Dispose

Spec == Init /\ [][Next]_wqVars
=============================================================================
