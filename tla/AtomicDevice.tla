---------------------------- MODULE AtomicDevice ----------------------------
(***************************************************************************)
(* The device as the engine uses it: a map, on which each call of the kvs  *)
(* library has its effect and finds its answer at one instant between its  *)
(* invocation and its return.                                              *)
(***************************************************************************)
EXTENDS Integers

CONSTANTS Callers, Keys, Values, NoValue, Size

VARIABLES
    map,    \* the value of each key
    call    \* the call each caller is making

deviceVars == <<map, call>>

NoCall == [phase |-> "idle"]

\* flag is overwrite for a store and delete for a retrieve, room the size of the
\* buffer of a retrieve.  out is what the caller learns: the value retrieved (its
\* actual size, when the buffer is too small) or whether the key exists.
Results == {"none", "KVS_SUCCESS", "KVS_ERR_VALUE_UPDATE_NOT_ALLOWED",
            "KVS_ERR_KEY_NOT_EXIST", "KVS_ERR_BUFFER_SMALL", "KVS_ERR_OPTION_INVALID"}
CallRecords ==
    [phase : {"pending", "applied"},
     kind : {"store", "retrieve", "delete", "exist"},
     key : Keys, arg : Values \cup {NoValue}, flag : BOOLEAN, room : Nat,
     res : Results, out : Values \cup {NoValue, "yes", "no"}]

Init ==
    /\ map = [k \in Keys |-> NoValue]
    /\ call = [t \in Callers |-> NoCall]

Invoke(t) ==
    /\ call[t] = NoCall
    /\ call'[t] \in CallRecords
    /\ call'[t].phase = "pending" /\ call'[t].res = "none"
    /\ call' = [call EXCEPT ![t] = call'[t]]
    /\ UNCHANGED map

\* The answer to call c when its key has value v.
Answer(c, v) ==
    CASE c.kind = "store" /\ ~c.flag /\ v # NoValue
            -> "KVS_ERR_VALUE_UPDATE_NOT_ALLOWED"
      [] c.kind = "retrieve" /\ c.flag -> "KVS_ERR_OPTION_INVALID"
      [] c.kind = "retrieve" /\ ~c.flag /\ v = NoValue -> "KVS_ERR_KEY_NOT_EXIST"
      [] c.kind = "retrieve" /\ ~c.flag /\ v # NoValue /\ Size[v] > c.room
            -> "KVS_ERR_BUFFER_SMALL"
      [] OTHER -> "KVS_SUCCESS"

Learnt(c, v) ==
    CASE c.kind = "exist" -> IF v = NoValue THEN "no" ELSE "yes"
      [] c.kind = "retrieve" /\ ~c.flag -> v
      [] OTHER -> NoValue

Apply(t) ==
    LET c == call[t]
        r == Answer(c, map[c.key])
    IN  /\ c.phase = "pending"
        /\ call' = [call EXCEPT ![t] = [c EXCEPT !.phase = "applied", !.res = r,
                                                !.out = Learnt(c, map[c.key])]]
        /\ map' = IF r = "KVS_SUCCESS" /\ c.kind \in {"store", "delete"}
                  THEN [map EXCEPT ![c.key] = c.arg] ELSE map

Return(t) ==
    /\ call[t].phase = "applied"
    /\ call' = [call EXCEPT ![t] = NoCall]
    /\ UNCHANGED map

Next == \E t \in Callers : Invoke(t) \/ Apply(t) \/ Return(t)

Spec == Init /\ [][Next]_deviceVars
=============================================================================
