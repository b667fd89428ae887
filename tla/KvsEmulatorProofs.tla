------------------------- MODULE KvsEmulatorProofs --------------------------
(***************************************************************************)
(* Proofs about KvsEmulator, for any number of callers, contexts, keys and *)
(* values and any queue depth: no context is lost or shared, and the calls *)
(* of the library implement the atomic device.                             *)
(***************************************************************************)
EXTENDS KvsEmulator, TLAPS

Codes == {"KV_SUCCESS", "KV_ERR_KEY_EXIST", "KV_ERR_KEY_NOT_EXIST", "KV_ERR_BUFFER_SMALL",
          "KV_ERR_OPTION_INVALID"}
Answers == {"KVS_SUCCESS", "KVS_ERR_VALUE_UPDATE_NOT_ALLOWED", "KVS_ERR_KEY_NOT_EXIST",
            "KVS_ERR_BUFFER_SMALL", "KVS_ERR_OPTION_INVALID"}
Outs == Values \cup {NoValue, "yes", "no"}

\* A call under way, a command, and the state of a context.
CallStates ==
    [pc : {"prepare", "submit", "wait", "free"}, req : Requests,
     ctx : Contexts \cup {"none"}, res : Answers \cup {"none"}, out : Outs,
     answer : Answers \cup {"none"}]
Commands == [caller : Callers, ctx : Contexts, retcode : Codes \cup {"none"}]
ContextStates == [done : BOOLEAN, result : Codes \cup {"none"}]

Types ==
    /\ m_map \in [Keys -> Values \cup {NoValue}]
    /\ pool \in Seq(Contexts)
    /\ context \in [Contexts -> ContextStates]
    /\ sq \in Seq(Commands) /\ cq \in Seq(Commands)
    /\ Len(sq) <= QueueDepth /\ Len(cq) <= QueueDepth
    /\ sqThread \in [pc : {"dequeue", "complete", "exited"}, cmd : Commands \cup {NoCommand}]
    /\ sqThread.pc = "complete" => sqThread.cmd \in Commands
    /\ sqThread.pc # "complete" => sqThread.cmd = NoCommand
    /\ cqThread \in [pc : {"dequeue", "notify", "exited"}, cmd : Commands \cup {NoCommand}]
    /\ cqThread.pc = "notify" => cqThread.cmd \in Commands
    /\ cqThread.pc # "notify" => cqThread.cmd = NoCommand
    /\ caller \in [Callers -> {Idle} \cup CallStates]
    /\ \A t \in Callers : HasContext(t) => caller[t].ctx \in Contexts

-----------------------------------------------------------------------------
(* Operators                                                               *)

\* code_map sends every code to an answer, and only "none" to "none".
LEMMA Converted ==
    /\ \A r \in Codes : convert_return_code(r) \in Answers
    /\ convert_return_code("none") = "none"
    /\ "none" \notin Answers /\ "none" \notin Codes
BY Zenon DEF Codes, Answers, convert_return_code

\* A command leaves a value, and answers with a code and with something its caller
\* can be told.
LEMMA OutcomeType ==
    ASSUME NEW r \in Requests, NEW old \in Values \cup {NoValue}
    PROVE  /\ r.key \in Keys
           /\ execute_cmd(r, old).retcode \in Codes
           /\ execute_cmd(r, old).value \in Values \cup {NoValue}
           /\ execute_cmd(r, old).out \in Outs
<1>1. /\ r.key \in Keys /\ r.kind \in {"store", "retrieve", "delete", "exist"}
      /\ r.kind = "store" => r.arg \in Values
  BY Zenon DEF Requests
<1>2. CASE r.kind = "store"
  BY <1>1, <1>2, Zenon DEF execute_cmd, kv_store, Outcome, Codes, Outs
<1>3. CASE r.kind = "retrieve"
  BY <1>1, <1>3, Zenon DEF execute_cmd, kv_retrieve, Outcome, Codes, Outs
<1>4. CASE r.kind = "delete"
  BY <1>1, <1>4, Zenon DEF execute_cmd, kv_delete, Outcome, Codes, Outs
<1>5. CASE r.kind = "exist"
  BY <1>1, <1>5, Zenon DEF execute_cmd, kv_exist, Outcome, Codes, Outs
<1> QED
  BY <1>1, <1>2, <1>3, <1>4, <1>5, Zenon

\* The elements of a sequence, and what Append and Tail do to them.
LEMMA SeqSteps ==
    ASSUME NEW S, NEW q \in Seq(S)
    PROVE  /\ DOMAIN q = 1 .. Len(q) /\ Len(q) \in Nat
           /\ \A n \in DOMAIN q : q[n] \in S
           /\ q # <<>> =>
                /\ Len(q) > 0
                /\ Head(q) = q[1] /\ Head(q) \in S
                /\ Tail(q) \in Seq(S) /\ Len(Tail(q)) = Len(q) - 1
                /\ DOMAIN Tail(q) = 1 .. Len(q) - 1
                /\ \A n \in 1 .. Len(q) - 1 : Tail(q)[n] = q[n + 1]
           /\ \A x \in S :
                /\ Append(q, x) \in Seq(S) /\ Len(Append(q, x)) = Len(q) + 1
                /\ DOMAIN Append(q, x) = 1 .. Len(q) + 1
                /\ \A n \in 1 .. Len(q) : Append(q, x)[n] = q[n]
                /\ Append(q, x)[Len(q) + 1] = x
OBVIOUS

\* init_io_context fills the pool with every context once.
LEMMA PoolFilled ==
    LET p == [c \in Contexts |-> c]
    IN  /\ p \in Seq(Contexts)
        /\ \A m, n \in DOMAIN p : p[m] = p[n] => m = n
        /\ \A c \in Contexts : \E n \in DOMAIN p : p[n] = c
<1>1. PoolSize \in Nat
  BY EmulatorAssumption, Zenon
<1> QED
  BY <1>1 DEF Contexts

-----------------------------------------------------------------------------
(* Types                                                                   *)

\* A call is over exactly when its record is Idle.
LEMMA CallerPc ==
    ASSUME Types, NEW t \in Callers
    PROVE  /\ caller[t].pc = "idle" <=> caller[t] = Idle
           /\ caller[t].pc # "idle" => caller[t] \in CallStates
           /\ caller[t] \in CallStates => caller[t].pc \in {"prepare", "submit", "wait", "free"}
BY DEF Types, Idle, CallStates

\* A device that has just been opened.
LEMMA InitTypes == Init => Types
<1> SUFFICES ASSUME Init PROVE Types
  BY Zenon
<1>1. pool \in Seq(Contexts)
  BY PoolFilled, Zenon DEF Init
<1>2. sq \in Seq(Commands) /\ cq \in Seq(Commands) /\ Len(sq) = 0 /\ Len(cq) = 0
  BY DEF Init
<1>3. context \in [Contexts -> ContextStates]
  BY Zenon DEF Init, Cleared, ContextStates
<1>4. \A t \in Callers : caller[t].pc = "idle"
  BY Zenon DEF Init, Idle
<1> QED
  BY <1>1, <1>2, <1>3, <1>4, EmulatorAssumption DEF Init, Types, HasContext

\* Writing one field of a context.
LEMMA ContextFields ==
    ASSUME NEW s \in ContextStates
    PROVE  /\ \A b \in BOOLEAN : /\ [s EXCEPT !.done = b] \in ContextStates
                                 /\ [s EXCEPT !.done = b].done = b
                                 /\ [s EXCEPT !.done = b].result = s.result
           /\ \A r \in Codes : /\ [s EXCEPT !.result = r] \in ContextStates
                               /\ [s EXCEPT !.result = r].result = r
                               /\ [s EXCEPT !.result = r].done = s.done
BY Zenon DEF ContextStates

\* What each step of a caller does to its own call; the other calls stay as they are.
\* A new call has no context, no answer and nothing in its buffer.
LEMMA CallEffect ==
    ASSUME Types, NEW t \in Callers, Call(t)
    PROVE  /\ caller' \in [Callers -> {Idle} \cup CallStates]
           /\ \A u \in Callers \ {t} : caller'[u] = caller[u]
           /\ caller[t] = Idle /\ caller'[t].pc = "prepare" /\ caller'[t].answer = "none"
           /\ caller'[t].out = NoValue /\ caller'[t].req \in Requests
<1>1. PICK r \in Requests :
        caller' = [caller EXCEPT ![t] =
              [pc |-> "prepare", req |-> r, ctx |-> "none", res |-> "none", out |-> NoValue,
               answer |-> "none"]]
  BY Zenon DEF Call
<1> QED
  BY <1>1, Zenon DEF Call, Types, CallStates, Outs

\* prep_io_context takes the first context of the pool and clears done_sync.
LEMMA PrepareEffect ==
    ASSUME Types, NEW t \in Callers, Prepare(t)
    PROVE  /\ caller' \in [Callers -> {Idle} \cup CallStates]
           /\ \A u \in Callers \ {t} : caller'[u] = caller[u]
           /\ caller[t].pc = "prepare" /\ caller'[t].pc = "submit"
           /\ caller'[t].ctx = pool[1] /\ pool[1] \in Contexts
           /\ caller'[t].answer = caller[t].answer /\ caller'[t].out = caller[t].out
           /\ caller'[t].req = caller[t].req
           /\ context' \in [Contexts -> ContextStates]
           /\ ~context'[pool[1]].done
           /\ \A c \in Contexts \ {pool[1]} : context'[c] = context[c]
<1>1. caller[t] \in CallStates /\ Head(pool) = pool[1] /\ pool[1] \in Contexts
  BY SeqSteps, CallerPc DEF Prepare, Types
<1>2. caller' = [caller EXCEPT ![t] = [caller[t] EXCEPT !.pc = "submit", !.ctx = pool[1]]]
  BY <1>1, Zenon DEF Prepare
<1>3. context' = [context EXCEPT ![pool[1]] = [context[pool[1]] EXCEPT !.done = FALSE]]
  BY <1>1, Zenon DEF Prepare
<1>4. [caller[t] EXCEPT !.pc = "submit", !.ctx = pool[1]] \in CallStates
  BY <1>1, Zenon DEF CallStates
<1>5. PICK b \in BOOLEAN : b = FALSE
  BY Zenon
<1>6. /\ [context[pool[1]] EXCEPT !.done = b] \in ContextStates
      /\ [context[pool[1]] EXCEPT !.done = b].done = b
  BY <1>1, ContextFields DEF Types
<1>7. context' = [context EXCEPT ![pool[1]] = [context[pool[1]] EXCEPT !.done = b]]
  BY <1>3, <1>5, Zenon
<1>8. context'[pool[1]].done = b /\ context' \in [Contexts -> ContextStates]
  BY <1>1, <1>6, <1>7, Zenon DEF Types
<1>9. ~context'[pool[1]].done
  BY <1>5, <1>8, Zenon
<1> QED
  BY <1>1, <1>2, <1>4, <1>7, <1>8, <1>9 DEF Prepare, Types, CallStates

\* submit_io puts a command of the caller, with its context, at the queue's tail.
LEMMA SubmitEffect ==
    ASSUME Types, NEW t \in Callers, Submit(t)
    PROVE  /\ caller' \in [Callers -> {Idle} \cup CallStates]
           /\ \A u \in Callers \ {t} : caller'[u] = caller[u]
           /\ caller[t].pc = "submit" /\ caller'[t].pc = "wait"
           /\ caller'[t].ctx = caller[t].ctx /\ caller[t].ctx \in Contexts
           /\ caller'[t].answer = caller[t].answer /\ caller'[t].out = caller[t].out
           /\ caller'[t].req = caller[t].req
           /\ \E x \in Commands :
                x.caller = t /\ x.ctx = caller[t].ctx /\ sq' = Append(sq, x)
<1>1. caller[t] \in CallStates /\ caller[t].ctx \in Contexts
  BY CallerPc, Zenon DEF Submit, Types, HasContext
<1>2. caller' = [caller EXCEPT ![t] = [caller[t] EXCEPT !.pc = "wait"]]
  BY <1>1, Zenon DEF Submit
<1>3. [caller[t] EXCEPT !.pc = "wait"] \in CallStates
  BY <1>1, Zenon DEF CallStates
<1>4. [caller |-> t, ctx |-> caller[t].ctx, retcode |-> "none"] \in Commands
  BY <1>1, Zenon DEF Commands
<1>5. \E x \in Commands : x.caller = t /\ x.ctx = caller[t].ctx /\ sq' = Append(sq, x)
  BY <1>4, Zenon DEF Submit
<1> QED
  BY <1>1, <1>2, <1>3, <1>5 DEF Submit, Types, CallStates

\* The waiting caller finds done_sync set and takes the result of its context.
LEMMA ReadEffect ==
    ASSUME Types, NEW t \in Callers, ReadResult(t)
    PROVE  /\ caller' \in [Callers -> {Idle} \cup CallStates]
           /\ \A u \in Callers \ {t} : caller'[u] = caller[u]
           /\ caller[t].pc = "wait" /\ caller'[t].pc = "free"
           /\ caller[t].ctx \in Contexts /\ context[caller[t].ctx].done
           /\ caller'[t].ctx = caller[t].ctx
           /\ caller'[t].answer = caller[t].answer /\ caller'[t].out = caller[t].out
           /\ caller'[t].req = caller[t].req
           /\ caller'[t].res = convert_return_code(context[caller[t].ctx].result)
<1> DEFINE r == convert_return_code(context[caller[t].ctx].result)
<1>1. caller[t] \in CallStates /\ caller[t].ctx \in Contexts
  BY CallerPc, Zenon DEF ReadResult, Types, HasContext
<1>2. caller' = [caller EXCEPT ![t] = [caller[t] EXCEPT !.pc = "free", !.res = r]]
  BY <1>1, Zenon DEF ReadResult
<1>3. r \in Answers \cup {"none"}
  BY <1>1, Converted, Zenon DEF Types, ContextStates
<1> HIDE DEF r
<1>4. [caller[t] EXCEPT !.pc = "free", !.res = r] \in CallStates
  BY <1>1, <1>3, Zenon DEF CallStates
<1>5. caller[t].pc = "wait" /\ context[caller[t].ctx].done
  BY Zenon DEF ReadResult, Completed
<1> QED
  BY <1>1, <1>2, <1>4, <1>5 DEF Types, CallStates, r

\* free_context gives the context back to the pool.
LEMMA FreeEffect ==
    ASSUME Types, NEW t \in Callers, FreeContext(t)
    PROVE  /\ caller' \in [Callers -> {Idle} \cup CallStates]
           /\ \A u \in Callers \ {t} : caller'[u] = caller[u]
           /\ caller[t].pc = "free" /\ caller'[t] = Idle /\ caller'[t].pc = "idle"
           /\ caller[t].ctx \in Contexts
           /\ context' \in [Contexts -> ContextStates]
           /\ \A c \in Contexts \ {caller[t].ctx} : context'[c] = context[c]
           /\ pool' = Append(pool, caller[t].ctx)
<1>1. caller[t] \in CallStates /\ caller[t].ctx \in Contexts
  BY CallerPc, Zenon DEF FreeContext, Types, HasContext
<1>2. Cleared \in ContextStates
  BY Zenon DEF Cleared, ContextStates
<1>3. Idle.pc = "idle"
  BY Zenon DEF Idle
<1> QED
  BY <1>1, <1>2, <1>3, Zenon DEF FreeContext, Types

\* The command at the head of the submission queue, whose caller waits, acts on the
\* map and on its caller's buffer, and is on its way to the completion queue.
LEMMA ExecuteEffect ==
    ASSUME Types, Execute, NEW x, x = sq[1], x.caller \in Callers,
           caller[x.caller].pc = "wait"
    PROVE  LET t == x.caller
               r == caller[t].req
               o == execute_cmd(r, m_map[r.key])
           IN  /\ r \in Requests /\ r.key \in Keys /\ o.retcode \in Codes
               /\ caller' \in [Callers -> {Idle} \cup CallStates]
               /\ \A u \in Callers \ {t} : caller'[u] = caller[u]
               /\ caller'[t].pc = "wait" /\ caller'[t].ctx = caller[t].ctx
               /\ caller'[t].req = r /\ caller'[t].out = o.out
               /\ caller'[t].answer = convert_return_code(o.retcode)
               /\ m_map' = [m_map EXCEPT ![r.key] = o.value]
               /\ m_map' \in [Keys -> Values \cup {NoValue}]
               /\ sqThread'.pc = "complete" /\ sqThread'.cmd \in Commands
               /\ sqThread' \in [pc : {"dequeue", "complete", "exited"},
                                 cmd : Commands \cup {NoCommand}]
               /\ sqThread'.cmd.caller = t /\ sqThread'.cmd.ctx = x.ctx
               /\ sqThread'.cmd.retcode = o.retcode
               /\ sq # <<>> /\ sq' = Tail(sq)
<1> DEFINE t == x.caller
           r == caller[t].req
           o == execute_cmd(r, m_map[r.key])
<1>0. sq # <<>>
  BY Zenon DEF Execute
<1>1. sq # <<>> /\ Head(sq) = x /\ x \in Commands
  BY <1>0, SeqSteps DEF Types
<1>2. caller[t] \in CallStates /\ r \in Requests
  BY CallerPc, Zenon DEF CallStates
<1>3. r.key \in Keys /\ m_map[r.key] \in Values \cup {NoValue}
  BY <1>2, Zenon DEF Requests, Types
<1>4. o.retcode \in Codes /\ o.value \in Values \cup {NoValue} /\ o.out \in Outs
  BY <1>2, <1>3, OutcomeType, Zenon
<1>5. convert_return_code(o.retcode) \in Answers
  BY <1>4, Converted, Zenon
<1>6. /\ caller' = [caller EXCEPT ![t] = [caller[t] EXCEPT !.out = o.out,
                                          !.answer = convert_return_code(o.retcode)]]
      /\ m_map' = [m_map EXCEPT ![r.key] = o.value]
      /\ sqThread' = [pc |-> "complete", cmd |-> [x EXCEPT !.retcode = o.retcode]]
      /\ sq' = Tail(sq)
  BY <1>1, Zenon DEF Execute
<1> HIDE DEF o
<1>7. [caller[t] EXCEPT !.out = o.out, !.answer = convert_return_code(o.retcode)]
        \in CallStates
  BY <1>2, <1>4, <1>5, Zenon DEF CallStates
<1>8. [x EXCEPT !.retcode = o.retcode] \in Commands
  BY <1>1, <1>4, Zenon DEF Commands
<1>9. /\ sqThread'.pc = "complete" /\ sqThread'.cmd \in Commands
      /\ sqThread' \in [pc : {"dequeue", "complete", "exited"},
                        cmd : Commands \cup {NoCommand}]
      /\ sqThread'.cmd.caller = t /\ sqThread'.cmd.ctx = x.ctx
      /\ sqThread'.cmd.retcode = o.retcode
  BY <1>1, <1>6, <1>8, Zenon DEF Commands
<1>10. /\ caller' \in [Callers -> {Idle} \cup CallStates]
       /\ \A u \in Callers \ {t} : caller'[u] = caller[u]
       /\ caller'[t].pc = "wait" /\ caller'[t].ctx = caller[t].ctx
       /\ caller'[t].req = r /\ caller'[t].out = o.out
       /\ caller'[t].answer = convert_return_code(o.retcode)
  BY <1>2, <1>6, <1>7 DEF Types, CallStates
<1>11. m_map' \in [Keys -> Values \cup {NoValue}]
  BY <1>3, <1>4, <1>6, Zenon DEF Types
<1> QED
  BY <1>1, <1>2, <1>3, <1>4, <1>6, <1>9, <1>10, <1>11, Zenon DEF o

-----------------------------------------------------------------------------
(* The invariant                                                           *)

\* A command in flight: its caller waits with its context, which is not done.
Flight(x) ==
    /\ x.caller \in Callers /\ x.ctx \in Contexts
    /\ caller[x.caller].pc = "wait" /\ caller[x.caller].ctx = x.ctx
    /\ ~context[x.ctx].done

\* It has acted on the map, and carries its answer.
Executed(x) ==
    /\ Flight(x)
    /\ x.retcode \in Codes
    /\ caller[x.caller].answer = convert_return_code(x.retcode)

\* Every command is in one place, in flight, and executed once it has left the
\* submission queue.
FlightInv ==
    /\ \A n \in DOMAIN sq : Flight(sq[n]) /\ caller[sq[n].caller].answer = "none"
    /\ \A n \in DOMAIN cq : Executed(cq[n])
    /\ sqThread.pc = "complete" => Executed(sqThread.cmd)
    /\ cqThread.pc = "notify" =>
         /\ Executed(cqThread.cmd)
         /\ context[cqThread.cmd.ctx].result = cqThread.cmd.retcode
    /\ \A m, n \in DOMAIN sq : sq[m].caller = sq[n].caller => m = n
    /\ \A m, n \in DOMAIN cq : cq[m].caller = cq[n].caller => m = n
    /\ sqThread.pc = "complete" =>
         \A n \in DOMAIN cq : cq[n].caller # sqThread.cmd.caller
    /\ cqThread.pc = "notify" =>
         \A n \in DOMAIN cq : cq[n].caller # cqThread.cmd.caller
    /\ sqThread.pc = "complete" /\ cqThread.pc = "notify" =>
         sqThread.cmd.caller # cqThread.cmd.caller

\* What a caller has been answered, by where it is.
Answered(t) ==
    /\ caller[t].pc \in {"prepare", "submit"} => caller[t].answer = "none"
    /\ caller[t].pc = "submit" => ~context[caller[t].ctx].done
    /\ caller[t].pc = "wait" /\ context[caller[t].ctx].done =>
         /\ context[caller[t].ctx].result \in Codes
         /\ caller[t].answer = convert_return_code(context[caller[t].ctx].result)
    /\ caller[t].pc = "free" => caller[t].answer \in Answers /\ caller[t].res = caller[t].answer
CallInv == \A t \in Callers : Answered(t)

\* A context is in one cell of the pool or belongs to one call.
OwnInv ==
    /\ \A m, n \in DOMAIN pool : pool[m] = pool[n] => m = n
    /\ \A t \in Callers, n \in DOMAIN pool : HasContext(t) => caller[t].ctx # pool[n]
    /\ \A t, u \in Callers :
         HasContext(t) /\ HasContext(u) /\ caller[t].ctx = caller[u].ctx => t = u
    /\ driver = "open" =>
         \A c \in Contexts : \/ \E n \in DOMAIN pool : pool[n] = c
                             \/ \E t \in Callers : HasContext(t) /\ caller[t].ctx = c

EmulatorInv == Types /\ FlightInv /\ CallInv /\ OwnInv

\* Nothing is in flight on a device that has just been opened.
LEMMA InitInv == Init => EmulatorInv
<1> SUFFICES ASSUME Init PROVE EmulatorInv
  BY Zenon
<1>1. /\ DOMAIN sq = {} /\ DOMAIN cq = {}
      /\ sqThread.pc = "dequeue" /\ cqThread.pc = "dequeue"
      /\ \A t \in Callers : caller[t].pc = "idle"
  BY DEF Init, Idle
<1>2. FlightInv /\ CallInv
  BY <1>1, Zenon DEF FlightInv, CallInv, Answered
<1>3. OwnInv
  BY <1>1, PoolFilled, Zenon DEF Init, OwnInv, HasContext
<1> QED
  BY <1>2, <1>3, InitTypes, Zenon DEF EmulatorInv

\* The interrupt thread takes the completion at the head of its queue and writes
\* the result into its context.
LEMMA DequeueEffect ==
    ASSUME Types, FlightInv, CqDequeue
    PROVE  /\ cq # <<>> /\ cq' = Tail(cq) /\ 1 \in DOMAIN cq
           /\ cqThread' \in [pc : {"dequeue", "notify", "exited"},
                             cmd : Commands \cup {NoCommand}]
           /\ cqThread.pc = "dequeue" /\ cqThread'.pc = "notify"
           /\ cqThread'.cmd = cq[1] /\ cq[1] \in Commands /\ Executed(cq[1])
           /\ context' \in [Contexts -> ContextStates]
           /\ context'[cq[1].ctx].result = cq[1].retcode
           /\ \A c \in Contexts : context'[c].done = context[c].done
           /\ \A c \in Contexts \ {cq[1].ctx} : context'[c] = context[c]
<1>1. /\ cq # <<>> /\ Head(cq) = cq[1] /\ cq[1] \in Commands /\ 1 \in DOMAIN cq
  BY SeqSteps DEF CqDequeue, Types
<1>2. Executed(cq[1]) /\ cq[1].ctx \in Contexts /\ cq[1].retcode \in Codes
  BY <1>1, Zenon DEF FlightInv, Executed, Flight
<1> DEFINE x == cq[1]
<1>3. context' = [context EXCEPT ![x.ctx] = [context[x.ctx] EXCEPT !.result = x.retcode]]
  BY <1>1, <1>2, Zenon DEF CqDequeue, Written, CompletionOrder
<1>4. /\ context[x.ctx] \in ContextStates
      /\ [context[x.ctx] EXCEPT !.result = x.retcode] \in ContextStates
      /\ [context[x.ctx] EXCEPT !.result = x.retcode].result = x.retcode
      /\ [context[x.ctx] EXCEPT !.result = x.retcode].done = context[x.ctx].done
  BY <1>2, ContextFields DEF Types
<1>5. /\ context' \in [Contexts -> ContextStates]
      /\ context'[x.ctx].result = x.retcode
      /\ context'[x.ctx].done = context[x.ctx].done
      /\ \A c \in Contexts \ {x.ctx} : context'[c] = context[c]
  BY <1>2, <1>3, <1>4, Zenon DEF Types
<1>6. \A c \in Contexts : context'[c].done = context[c].done
  BY <1>5, Zenon
<1> QED
  BY <1>1, <1>2, <1>5, <1>6, Zenon DEF CqDequeue

\* The second write of on_io_complete sets done_sync, and the command is gone.
LEMMA NotifyEffect ==
    ASSUME Types, FlightInv, OnIoComplete
    PROVE  LET x == cqThread.cmd
           IN  /\ cqThread.pc = "notify" /\ cqThread'.pc = "dequeue"
               /\ cqThread'.cmd = NoCommand
               /\ cqThread' \in [pc : {"dequeue", "notify", "exited"},
                                 cmd : Commands \cup {NoCommand}]
               /\ x \in Commands /\ Executed(x)
               /\ context' \in [Contexts -> ContextStates]
               /\ context'[x.ctx].done /\ context'[x.ctx].result = x.retcode
               /\ \A c \in Contexts \ {x.ctx} : context'[c] = context[c]
<1> DEFINE x == cqThread.cmd
<1>1. cqThread.pc = "notify" /\ x \in Commands /\ Executed(x) /\ x.ctx \in Contexts
      /\ context[x.ctx].result = x.retcode
  BY Zenon DEF OnIoComplete, Types, FlightInv, Executed, Flight
<1>2. PICK b \in BOOLEAN : b = TRUE
  BY Zenon
<1>3. context' = [context EXCEPT ![x.ctx] = [context[x.ctx] EXCEPT !.done = TRUE]]
  BY <1>1, Zenon DEF OnIoComplete, Written, CompletionOrder
<1>4. context' = [context EXCEPT ![x.ctx] = [context[x.ctx] EXCEPT !.done = b]]
  BY <1>2, <1>3, Zenon
<1>5. /\ [context[x.ctx] EXCEPT !.done = b] \in ContextStates
      /\ [context[x.ctx] EXCEPT !.done = b].done = b
      /\ [context[x.ctx] EXCEPT !.done = b].result = x.retcode
  BY <1>1, ContextFields DEF Types
<1>6. /\ context' \in [Contexts -> ContextStates]
      /\ context'[x.ctx].done = b /\ context'[x.ctx].result = x.retcode
      /\ \A c \in Contexts \ {x.ctx} : context'[c] = context[c]
  BY <1>1, <1>4, <1>5, Zenon DEF Types
<1>7. context'[x.ctx].done
  BY <1>2, <1>6, Zenon
<1>8. cqThread' = [pc |-> "dequeue", cmd |-> NoCommand]
  BY Zenon DEF OnIoComplete
<1> QED
  BY <1>1, <1>6, <1>7, <1>8, Zenon

\* The variables keep their types.
LEMMA NextTypes == Types /\ FlightInv /\ [Next]_vars => Types'
<1> SUFFICES ASSUME Types, FlightInv, [Next]_vars PROVE Types'
  BY Zenon
<1>0. QueueDepth \in Nat /\ Len(sq) \in Nat /\ Len(cq) \in Nat
  BY EmulatorAssumption, SeqSteps, Zenon DEF Types
<1>1. ASSUME NEW t \in Callers, Call(t) PROVE Types'
  BY <1>1, CallEffect, ZenonT(60) DEF Types, Call, HasContext
<1>2. ASSUME NEW t \in Callers, Prepare(t) PROVE Types'
  <2>1. pool' \in Seq(Contexts)
    BY <1>2, SeqSteps, Zenon DEF Types, Prepare
  <2> QED
    BY <1>2, <2>1, PrepareEffect, ZenonT(60) DEF Types, Prepare, HasContext
<1>3. ASSUME NEW t \in Callers, Submit(t) PROVE Types'
  <2>1. PICK x \in Commands : sq' = Append(sq, x)
    BY <1>3, SubmitEffect, Zenon
  <2>2. sq' \in Seq(Commands) /\ Len(sq') <= QueueDepth
    BY <1>0, <1>3, <2>1, SeqSteps DEF Types, Submit, HasRoom
  <2> QED
    <3>1. UNCHANGED <<m_map, pool, context, cq, sqThread, cqThread>>
      BY <1>3, Zenon DEF Submit
    <3>2. caller' \in [Callers -> {Idle} \cup CallStates]
      BY <1>3, SubmitEffect, Zenon
    <3>3. ASSUME NEW u \in Callers, HasContext(u)' PROVE caller'[u].ctx \in Contexts
      <4>1. CASE u = t
        BY <1>3, <4>1, SubmitEffect, Zenon
      <4>2. CASE u # t
        <5>1. caller'[u] = caller[u]
          BY <1>3, <4>2, SubmitEffect
        <5> QED
          BY <3>3, <5>1, Zenon DEF Types, HasContext
      <4> QED
        BY <4>1, <4>2, Zenon
    <3> QED
      BY <2>2, <3>1, <3>2, <3>3, Zenon DEF Types
<1>4. ASSUME NEW t \in Callers, ReadResult(t) PROVE Types'
  BY <1>4, ReadEffect, ZenonT(60) DEF Types, ReadResult, HasContext
<1>5. ASSUME NEW t \in Callers, FreeContext(t) PROVE Types'
  <2>0. caller[t].ctx \in Contexts /\ pool' = Append(pool, caller[t].ctx)
    BY <1>5, FreeEffect, Zenon
  <2>1. pool' \in Seq(Contexts)
    BY <2>0 DEF Types
  <2> QED
    BY <1>5, <2>1, FreeEffect, ZenonT(60) DEF Types, FreeContext, HasContext
<1>6. CASE Execute
  <2>1. sq # <<>>
    BY <1>6, Zenon DEF Execute
  <2>2. /\ 1 \in DOMAIN sq /\ Tail(sq) \in Seq(Commands) /\ Len(Tail(sq)) = Len(sq) - 1
    BY <2>1, SeqSteps DEF Types
  <2>3. sq[1].caller \in Callers /\ caller[sq[1].caller].pc = "wait"
    BY <2>2, Zenon DEF FlightInv, Flight
  <2>4. UNCHANGED <<pool, context, cq, cqThread>>
    BY <1>6, Zenon DEF Execute
  <2>5. /\ caller' \in [Callers -> {Idle} \cup CallStates]
        /\ \A u \in Callers : /\ caller'[u].pc = caller[u].pc
                              /\ caller'[u].ctx = caller[u].ctx
        /\ m_map' \in [Keys -> Values \cup {NoValue}]
        /\ sqThread'.pc = "complete" /\ sqThread'.cmd \in Commands
        /\ sqThread' \in [pc : {"dequeue", "complete", "exited"},
                          cmd : Commands \cup {NoCommand}]
        /\ sq' = Tail(sq)
    <3>1. PICK x : x = sq[1]
      BY Zenon
    <3>2. x.caller \in Callers /\ caller[x.caller].pc = "wait"
      BY <2>3, <3>1, Zenon
    <3>3. /\ caller' \in [Callers -> {Idle} \cup CallStates]
          /\ \A u \in Callers \ {x.caller} : caller'[u] = caller[u]
          /\ caller'[x.caller].pc = "wait" /\ caller'[x.caller].ctx = caller[x.caller].ctx
          /\ m_map' \in [Keys -> Values \cup {NoValue}]
          /\ sqThread'.pc = "complete" /\ sqThread'.cmd \in Commands
          /\ sqThread' \in [pc : {"dequeue", "complete", "exited"},
                            cmd : Commands \cup {NoCommand}]
          /\ sq' = Tail(sq)
      BY <1>6, <3>1, <3>2, ExecuteEffect, ZenonT(60)
    <3> QED
      BY <3>2, <3>3, Zenon
  <2>6. Len(sq) \in Nat /\ Len(sq) <= QueueDepth
    BY <1>0 DEF Types
  <2>7. Len(sq') <= QueueDepth
    BY <1>0, <2>2, <2>5, <2>6
  <2> QED
    BY <2>2, <2>4, <2>5, <2>7, Zenon DEF Types, HasContext
<1>7. CASE SqComplete
  <2>1. cq' \in Seq(Commands) /\ Len(cq') <= QueueDepth
    BY <1>0, <1>7, SeqSteps DEF Types, SqComplete, HasRoom
  <2>2. sqThread' = [pc |-> "dequeue", cmd |-> NoCommand]
    BY <1>7, Zenon DEF SqComplete
  <2> QED
    BY <1>7, <2>1, <2>2 DEF Types, SqComplete, HasContext
<1>8. CASE CqDequeue
  <2>1. cq' \in Seq(Commands) /\ Len(cq') <= QueueDepth
    BY <1>0, <1>8, SeqSteps DEF Types, CqDequeue
  <2> QED
    BY <1>8, <2>1, DequeueEffect, Zenon DEF Types, CqDequeue, HasContext
<1>9. CASE OnIoComplete
  BY <1>9, NotifyEffect, Zenon DEF Types, OnIoComplete, HasContext
<1>10. CASE SqExit \/ CqExit
  BY <1>10 DEF Types, SqExit, CqExit, HasContext
<1>11. CASE Close
  <2>0. pool' = <<>>
    BY <1>11, Zenon DEF Close
  <2>1. pool' \in Seq(Contexts)
    BY <2>0
  <2> QED
    BY <1>11, <2>1, Zenon DEF Types, Close, HasContext
<1>12. CASE Terminate \/ Closed \/ UNCHANGED vars
  BY <1>12, Zenon DEF Types, Terminate, Closed, vars, HasContext
<1> QED
  BY <1>1, <1>2, <1>3, <1>4, <1>5, <1>6, <1>7, <1>8, <1>9, <1>10, <1>11, <1>12, Zenon
     DEF Next, CallerStep, SqStep, CqStep

-----------------------------------------------------------------------------
(* Steps of a caller outside the queues                                    *)

\* A step that leaves a caller and its context alone leaves its answer alone.
LEMMA AnsweredKept ==
    ASSUME CallInv, NEW u \in Callers, caller'[u] = caller[u],
           HasContext(u) => context'[caller[u].ctx] = context[caller[u].ctx]
    PROVE  Answered(u)'
<1>1. Answered(u)
  BY Zenon DEF CallInv
<1> QED
  BY <1>1, Zenon DEF Answered, HasContext

\* Executed commands stay executed where they are.
LEMMA CommandsKept ==
    ASSUME \A y : Executed(y) => Executed(y)'
    PROVE  /\ cq' = cq /\ (\A n \in DOMAIN cq : Executed(cq[n])) =>
                \A n \in DOMAIN cq' : Executed(cq[n])'
           /\ sqThread'.cmd = sqThread.cmd /\ Executed(sqThread.cmd) => Executed(sqThread.cmd)'
           /\ cqThread'.cmd = cqThread.cmd /\ Executed(cqThread.cmd) => Executed(cqThread.cmd)'
<1>1. cq' = cq /\ (\A n \in DOMAIN cq : Executed(cq[n])) => \A n \in DOMAIN cq' : Executed(cq[n])'
  BY DEF Executed, Flight
<1>2. sqThread'.cmd = sqThread.cmd /\ Executed(sqThread.cmd) => Executed(sqThread.cmd)'
  BY DEF Executed, Flight
<1>3. cqThread'.cmd = cqThread.cmd /\ Executed(cqThread.cmd) => Executed(cqThread.cmd)'
  BY DEF Executed, Flight
<1> QED
  BY <1>1, <1>2, <1>3, Zenon

\* A step of a caller that has no command in flight, touching at most one context
\* that no other call owns, leaves every command as it was.
LEMMA QuietStep ==
    ASSUME Types, FlightInv, OwnInv, UNCHANGED <<sq, cq, sqThread, cqThread>>,
           NEW t \in Callers, \A u \in Callers \ {t} : caller'[u] = caller[u],
           caller[t].pc = "wait" => context[caller[t].ctx].done,
           NEW d, \A c \in Contexts \ {d} : context'[c] = context[c],
           \A u \in Callers \ {t} : HasContext(u) => caller[u].ctx # d
    PROVE  FlightInv'
<1>1. \A x : Flight(x) =>
        /\ x.caller # t /\ x.ctx # d
        /\ caller'[x.caller] = caller[x.caller] /\ context'[x.ctx] = context[x.ctx]
  BY Zenon DEF Flight, HasContext
<1>2. \A x : Flight(x) => Flight(x)'
  BY <1>1, Zenon DEF Flight
<1>3. \A x : Executed(x) => Executed(x)'
  BY <1>1, <1>2, Zenon DEF Executed
<1>4. \A n \in DOMAIN sq' : Flight(sq[n])' /\ caller'[sq'[n].caller].answer = "none"
  BY SMTT(30), <1>1, <1>2 DEF FlightInv, Flight
<1>5. \A n \in DOMAIN cq' : Executed(cq[n])'
  BY <1>3, CommandsKept, Zenon DEF FlightInv
<1>6. sqThread'.pc = "complete" => Executed(sqThread.cmd)'
  BY <1>3, CommandsKept, Zenon DEF FlightInv
<1>7. cqThread'.pc = "notify" =>
         /\ Executed(cqThread.cmd)'
         /\ context'[cqThread'.cmd.ctx].result = cqThread'.cmd.retcode
  <2>1. cqThread.pc = "notify" =>
          /\ Executed(cqThread.cmd) /\ Flight(cqThread.cmd)
          /\ context[cqThread.cmd.ctx].result = cqThread.cmd.retcode
    BY Zenon DEF FlightInv, Executed
  <2> QED
    BY <1>1, <1>3, <2>1, CommandsKept, Zenon
<1> QED
  BY <1>4, <1>5, <1>6, <1>7, Zenon DEF FlightInv

\* A call begins.
LEMMA CallStep ==
    ASSUME EmulatorInv, NEW t \in Callers, Call(t)
    PROVE  FlightInv' /\ CallInv' /\ OwnInv'
<1> USE DEF EmulatorInv
<1>0. /\ UNCHANGED <<sq, cq, sqThread, cqThread, context, pool, driver>>
      /\ \A u \in Callers \ {t} : caller'[u] = caller[u]
      /\ caller[t].pc = "idle" /\ caller'[t].pc = "prepare" /\ caller'[t].answer = "none"
  BY CallEffect, CallerPc, Zenon DEF Call
<1>1. FlightInv'
  <2>1. PICK d : d \notin Contexts
    BY NoSetContainsEverything, Zenon
  <2>2. \A u \in Callers \ {t} : HasContext(u) => caller[u].ctx # d
    BY <2>1 DEF Types
  <2>3. \A c \in Contexts \ {d} : context'[c] = context[c]
    BY <1>0, Zenon
  <2>4. caller[t].pc = "wait" => context[caller[t].ctx].done
    BY <1>0, Zenon
  <2> QED
    BY <1>0, <2>2, <2>3, <2>4, QuietStep, Zenon
<1>2. CallInv'
  BY <1>0 DEF CallInv, Answered
<1>3. OwnInv'
  BY <1>0 DEF OwnInv, HasContext
<1> QED
  BY <1>1, <1>2, <1>3, Zenon

\* A call takes the first context of the pool.
LEMMA PrepareStep ==
    ASSUME EmulatorInv, NEW t \in Callers, Prepare(t)
    PROVE  FlightInv' /\ CallInv' /\ OwnInv'
<1> USE DEF EmulatorInv
<1>0. /\ UNCHANGED <<sq, cq, sqThread, cqThread, driver>> /\ pool # <<>> /\ pool' = Tail(pool)
  BY Zenon DEF Prepare
<1>1. /\ DOMAIN pool = 1 .. Len(pool) /\ Len(pool) \in Nat /\ Len(pool) > 0
      /\ DOMAIN pool' = 1 .. Len(pool) - 1
      /\ \A n \in 1 .. Len(pool) - 1 : pool'[n] = pool[n + 1]
      /\ \A n \in DOMAIN pool : pool[n] \in Contexts
  BY <1>0, SeqSteps DEF Types
<1>2. PICK d \in Contexts : d = pool[1]
  BY <1>1
<1>3. /\ \A u \in Callers \ {t} : caller'[u] = caller[u]
      /\ caller[t].pc = "prepare" /\ caller'[t].pc = "submit" /\ caller'[t].ctx = d
      /\ caller'[t].answer = caller[t].answer
      /\ ~context'[d].done /\ \A c \in Contexts \ {d} : context'[c] = context[c]
  BY <1>2, PrepareEffect, Zenon
<1>4. \A u \in Callers : HasContext(u) => caller[u].ctx # d /\ caller[u].ctx \in Contexts
  <2>1. 1 \in DOMAIN pool
    BY <1>1
  <2> QED
    BY <1>2, <2>1, Zenon DEF OwnInv, Types
<1>5. FlightInv'
  <2>1. \A u \in Callers \ {t} : HasContext(u) => caller[u].ctx # d
    BY <1>4, Zenon
  <2>2. caller[t].pc = "wait" => context[caller[t].ctx].done
    BY <1>3, Zenon
  <2>3. \A c \in Contexts \ {d} : context'[c] = context[c]
    BY <1>3, Zenon
  <2>4. \A u \in Callers \ {t} : caller'[u] = caller[u]
    BY <1>3, Zenon
  <2>5. UNCHANGED <<sq, cq, sqThread, cqThread>>
    BY <1>0, Zenon
  <2> QED
    BY <2>1, <2>2, <2>3, <2>4, <2>5, QuietStep
<1>6. CallInv'
  BY SMTT(30), <1>3, <1>4 DEF CallInv, Answered, HasContext
<1>7. OwnInv'
  <2>1. \A m, n \in DOMAIN pool' : pool'[m] = pool'[n] => m = n
    BY <1>1 DEF OwnInv
  <2>2. \A u \in Callers, n \in DOMAIN pool' : HasContext(u)' => caller'[u].ctx # pool'[n]
    BY <1>1, <1>2, <1>3 DEF OwnInv, HasContext
  <2>3. \A u, v \in Callers :
         HasContext(u)' /\ HasContext(v)' /\ caller'[u].ctx = caller'[v].ctx => u = v
    BY SMTT(30), <1>3, <1>4 DEF OwnInv, HasContext
  <2>4. ASSUME driver' = "open", NEW c \in Contexts
        PROVE  \/ \E n \in DOMAIN pool' : pool'[n] = c
               \/ \E u \in Callers : HasContext(u)' /\ caller'[u].ctx = c
    <3>1. CASE c = d
      BY <1>3, <3>1, Zenon DEF HasContext
    <3>2. ASSUME c # d, NEW n \in DOMAIN pool, pool[n] = c
          PROVE  \E m \in DOMAIN pool' : pool'[m] = c
      <4>1. n - 1 \in 1 .. Len(pool) - 1 /\ pool'[n - 1] = c
        BY <1>1, <1>2, <3>2
      <4> QED
        BY <1>1, <4>1, Zenon
    <3>3. ASSUME NEW u \in Callers, HasContext(u), caller[u].ctx = c
          PROVE  HasContext(u)' /\ caller'[u].ctx = c
      BY <1>3, <3>3, Zenon DEF HasContext
    <3> QED
      BY <1>0, <2>4, <3>1, <3>2, <3>3, Zenon DEF OwnInv
  <2> QED
    BY <2>1, <2>2, <2>3, <2>4, Zenon DEF OwnInv
<1> QED
  BY <1>5, <1>6, <1>7, Zenon

\* A call finds its context done and reads the result.
LEMMA ReadStep ==
    ASSUME EmulatorInv, NEW t \in Callers, ReadResult(t)
    PROVE  FlightInv' /\ CallInv' /\ OwnInv'
<1> USE DEF EmulatorInv
<1>0. UNCHANGED <<sq, cq, sqThread, cqThread, context, pool, driver>>
  BY Zenon DEF ReadResult
<1>1. /\ \A u \in Callers \ {t} : caller'[u] = caller[u]
      /\ caller[t].pc = "wait" /\ caller'[t].pc = "free"
      /\ caller[t].ctx \in Contexts /\ context[caller[t].ctx].done
      /\ caller'[t].ctx = caller[t].ctx /\ caller'[t].answer = caller[t].answer
      /\ caller'[t].res = convert_return_code(context[caller[t].ctx].result)
  BY ReadEffect, Zenon
<1>2. FlightInv'
  <2>0. PICK d \in Contexts : d = caller[t].ctx
    BY <1>1, Zenon
  <2>1. \A u \in Callers \ {t} : HasContext(u) => caller[u].ctx # d
    BY <1>1, <2>0, Zenon DEF OwnInv, HasContext
  <2>2. caller[t].pc = "wait" => context[caller[t].ctx].done
    BY <1>1, Zenon
  <2>3. \A c \in Contexts \ {d} : context'[c] = context[c]
    BY <1>0, Zenon
  <2> QED
    BY <1>0, <1>1, <2>1, <2>2, <2>3, QuietStep, Zenon
<1>3. CallInv'
  BY SMTT(30), <1>0, <1>1, Converted DEF CallInv, Answered
<1>4. OwnInv'
  <2>1. \A u \in Callers : (HasContext(u)' <=> HasContext(u)) /\ caller'[u].ctx = caller[u].ctx
    BY <1>1, Zenon DEF HasContext
  <2> QED
    BY <1>0, <2>1 DEF OwnInv
<1> QED
  BY <1>2, <1>3, <1>4, Zenon

\* A call gives its context back.
LEMMA FreeStep ==
    ASSUME EmulatorInv, NEW t \in Callers, FreeContext(t)
    PROVE  FlightInv' /\ CallInv' /\ OwnInv'
<1> USE DEF EmulatorInv
<1>0. UNCHANGED <<sq, cq, sqThread, cqThread, driver>>
  BY Zenon DEF FreeContext
<1>1. PICK d \in Contexts : d = caller[t].ctx
  BY FreeEffect, Zenon
<1>2. /\ \A u \in Callers \ {t} : caller'[u] = caller[u]
      /\ caller[t].pc = "free" /\ caller'[t].pc = "idle"
      /\ \A c \in Contexts \ {d} : context'[c] = context[c]
      /\ pool' = Append(pool, d)
  BY <1>1, FreeEffect, Zenon
<1>3. /\ DOMAIN pool = 1 .. Len(pool) /\ Len(pool) \in Nat
      /\ DOMAIN pool' = 1 .. Len(pool) + 1
      /\ \A n \in 1 .. Len(pool) : pool'[n] = pool[n]
      /\ pool'[Len(pool) + 1] = d
  BY <1>2, SeqSteps DEF Types
<1>4. /\ \A u \in Callers \ {t} : HasContext(u) => caller[u].ctx # d
      /\ \A u \in Callers : HasContext(u) => caller[u].ctx \in Contexts
      /\ \A n \in DOMAIN pool : pool[n] # d
  BY <1>1, <1>2 DEF OwnInv, HasContext, Types
<1>5. FlightInv'
  <2>1. caller[t].pc = "wait" => context[caller[t].ctx].done
    BY <1>2, Zenon
  <2>2. /\ \A u \in Callers \ {t} : caller'[u] = caller[u]
        /\ \A c \in Contexts \ {d} : context'[c] = context[c]
        /\ \A u \in Callers \ {t} : HasContext(u) => caller[u].ctx # d
    BY <1>2, <1>4, Zenon
  <2> QED
    BY <1>0, <2>1, <2>2, QuietStep, ZenonT(60)
<1>6. CallInv'
  <2>1. \A u \in Callers \ {t} : Answered(u)'
    BY <1>2, <1>4, AnsweredKept, Zenon
  <2>2. Answered(t)'
    BY <1>2, Zenon DEF Answered
  <2> QED
    BY <2>1, <2>2, Zenon DEF CallInv
<1>7. OwnInv'
  <2>1. \A m, n \in DOMAIN pool' : pool'[m] = pool'[n] => m = n
    BY SMTT(30), <1>3, <1>4 DEF OwnInv
  <2>2. \A u \in Callers, n \in DOMAIN pool' : HasContext(u)' => caller'[u].ctx # pool'[n]
    BY SMTT(30), <1>2, <1>3, <1>4 DEF OwnInv, HasContext
  <2>3. \A u, v \in Callers :
         HasContext(u)' /\ HasContext(v)' /\ caller'[u].ctx = caller'[v].ctx => u = v
    BY <1>2 DEF OwnInv, HasContext
  <2>4. ASSUME driver' = "open", NEW c \in Contexts
        PROVE  \/ \E n \in DOMAIN pool' : pool'[n] = c
               \/ \E u \in Callers : HasContext(u)' /\ caller'[u].ctx = c
    BY <1>0, <1>1, <1>2, <1>3, <2>4 DEF OwnInv, HasContext
  <2> QED
    BY <2>1, <2>2, <2>3, <2>4, Zenon DEF OwnInv
<1> QED
  BY <1>5, <1>6, <1>7, Zenon

-----------------------------------------------------------------------------
(* Steps of a command                                                      *)

\* Calls keep their contexts when only answers, results and done flags change.
LEMMA OwnStep ==
    ASSUME OwnInv, UNCHANGED <<pool, driver>>,
           \A u \in Callers : /\ HasContext(u)' <=> HasContext(u)
                              /\ caller'[u].ctx = caller[u].ctx
    PROVE  OwnInv'
BY DEF OwnInv

\* A command enters the submission queue.
LEMMA SubmitStep ==
    ASSUME EmulatorInv, NEW t \in Callers, Submit(t)
    PROVE  FlightInv' /\ CallInv' /\ OwnInv'
<1> USE DEF EmulatorInv
<1>0. UNCHANGED <<cq, sqThread, cqThread, context, pool, driver>>
  BY Zenon DEF Submit
<1>1. /\ \A u \in Callers \ {t} : caller'[u] = caller[u]
      /\ caller[t].pc = "submit" /\ caller'[t].pc = "wait"
      /\ caller'[t].ctx = caller[t].ctx /\ caller[t].ctx \in Contexts
      /\ caller'[t].answer = caller[t].answer
  BY SubmitEffect, Zenon
<1>2. PICK x \in Commands : x.caller = t /\ x.ctx = caller[t].ctx /\ sq' = Append(sq, x)
  BY SubmitEffect, Zenon
<1>3. /\ DOMAIN sq = 1 .. Len(sq) /\ Len(sq) \in Nat
      /\ DOMAIN sq' = 1 .. Len(sq) + 1
      /\ \A n \in 1 .. Len(sq) : sq'[n] = sq[n]
      /\ sq'[Len(sq) + 1] = x
  BY <1>2, SeqSteps DEF Types
<1>4. caller[t].answer = "none" /\ ~context[caller[t].ctx].done
  BY <1>1, Zenon DEF CallInv, Answered
<1>5. \A y : Flight(y) => y.caller # t /\ Flight(y)' /\ caller'[y.caller] = caller[y.caller]
  BY <1>0, <1>1, Zenon DEF Flight
<1>6. \A y : Executed(y) => Executed(y)'
  BY <1>5, Zenon DEF Executed
<1>7. Flight(x)' /\ caller'[x.caller].answer = "none"
  BY <1>0, <1>1, <1>2, <1>4, Zenon DEF Flight
<1>8. FlightInv'
  <2>1. ASSUME NEW n \in DOMAIN sq'
        PROVE  Flight(sq[n])' /\ caller'[sq'[n].caller].answer = "none"
    <3>1. CASE n \in DOMAIN sq
      BY SMTT(30), <1>3, <1>5, <3>1 DEF FlightInv, Flight
    <3>2. CASE n = Len(sq) + 1
      BY <1>3, <1>7, <3>2, Zenon DEF Flight
    <3> QED
      BY <1>3, <3>1, <3>2
  <2>2. \A n \in DOMAIN cq' : Executed(cq[n])'
    BY <1>0, <1>6, CommandsKept, Zenon DEF FlightInv
  <2>3. sqThread'.pc = "complete" => Executed(sqThread.cmd)'
    BY <1>0, <1>6, CommandsKept, Zenon DEF FlightInv
  <2>4. cqThread'.pc = "notify" =>
         /\ Executed(cqThread.cmd)'
         /\ context'[cqThread'.cmd.ctx].result = cqThread'.cmd.retcode
    BY <1>0, <1>6, CommandsKept, Zenon DEF FlightInv
  <2>5. \A m, n \in DOMAIN sq' : sq'[m].caller = sq'[n].caller => m = n
    BY SMTT(30), <1>2, <1>3, <1>5 DEF FlightInv
  <2> QED
    BY <1>0, <2>1, <2>2, <2>3, <2>4, <2>5, Zenon DEF FlightInv
<1>9. CallInv'
  <2>1. \A u \in Callers \ {t} : Answered(u)'
    BY <1>0, <1>1, AnsweredKept, Zenon
  <2>2. Answered(t)'
    BY <1>0, <1>1, <1>4, Zenon DEF Answered
  <2> QED
    BY <2>1, <2>2, Zenon DEF CallInv
<1>10. OwnInv'
  BY <1>0, <1>1, OwnStep, Zenon DEF HasContext
<1> QED
  BY <1>8, <1>9, <1>10, Zenon

\* The submission queue's thread executes the command at the head of its queue.
LEMMA ExecuteStep ==
    ASSUME EmulatorInv, Execute
    PROVE  FlightInv' /\ CallInv' /\ OwnInv'
<1> USE DEF EmulatorInv
<1>0. /\ UNCHANGED <<cq, cqThread, context, pool, driver>>
      /\ sqThread.pc = "dequeue" /\ sq # <<>>
  BY Zenon DEF Execute
<1>1. /\ DOMAIN sq = 1 .. Len(sq) /\ Len(sq) \in Nat /\ Len(sq) > 0
      /\ DOMAIN Tail(sq) = 1 .. Len(sq) - 1
      /\ \A n \in 1 .. Len(sq) - 1 : Tail(sq)[n] = sq[n + 1]
  BY <1>0, SeqSteps DEF Types
<1>2. PICK x : x = sq[1]
  BY Zenon
<1>3. PICK t \in Callers : t = x.caller
  BY <1>1, <1>2 DEF FlightInv, Flight
<1>4. Flight(x) /\ caller[t].answer = "none" /\ caller[t].pc = "wait" /\ caller[t].ctx = x.ctx
  <2>1. 1 \in DOMAIN sq
    BY <1>1
  <2> QED
    BY <1>2, <1>3, <2>1, Zenon DEF FlightInv, Flight
<1>5. PICK r \in Codes :
      /\ \A u \in Callers \ {t} : caller'[u] = caller[u]
      /\ caller'[t].pc = "wait" /\ caller'[t].ctx = caller[t].ctx
      /\ caller'[t].answer = convert_return_code(r)
      /\ sqThread'.pc = "complete"
      /\ sqThread'.cmd.caller = t /\ sqThread'.cmd.ctx = x.ctx /\ sqThread'.cmd.retcode = r
      /\ sq' = Tail(sq)
  <2>1. x = sq[1] /\ x.caller \in Callers /\ caller[x.caller].pc = "wait"
    BY <1>2, <1>3, <1>4, Zenon
  <2>2. PICK o : o = execute_cmd(caller[x.caller].req, m_map[caller[x.caller].req.key])
    BY Zenon
  <2>3. /\ o.retcode \in Codes
        /\ \A u \in Callers \ {x.caller} : caller'[u] = caller[u]
        /\ caller'[x.caller].pc = "wait" /\ caller'[x.caller].ctx = caller[x.caller].ctx
        /\ caller'[x.caller].answer = convert_return_code(o.retcode)
    BY <2>1, <2>2, ExecuteEffect, Zenon
  <2>4. /\ sqThread'.pc = "complete" /\ sqThread'.cmd.caller = x.caller
        /\ sqThread'.cmd.ctx = x.ctx /\ sqThread'.cmd.retcode = o.retcode
        /\ sq' = Tail(sq)
    BY <2>1, <2>2, ExecuteEffect, Zenon
  <2> QED
    BY <1>3, <2>3, <2>4, Zenon
<1>6. convert_return_code(r) \in Answers /\ convert_return_code(r) # "none"
  BY Converted, Zenon
<1>7. \A y : Flight(y) => Flight(y)'
  BY <1>0, <1>5, Zenon DEF Flight
<1>8. \A y : Executed(y) => y.caller # t /\ Executed(y)'
  BY <1>0, <1>4, <1>5, <1>7, Converted DEF Executed, Flight
<1>9. FlightInv'
  <2>1. ASSUME NEW n \in DOMAIN sq'
        PROVE  Flight(sq[n])' /\ caller'[sq'[n].caller].answer = "none"
    <3>1. n + 1 \in DOMAIN sq /\ sq'[n] = sq[n + 1] /\ n + 1 # 1
      BY SMTT(30), <1>1, <1>5
    <3>2. sq[n + 1].caller # t
      <4>1. 1 \in DOMAIN sq
        BY <1>1
      <4> QED
        BY <1>2, <1>3, <3>1, <4>1, Zenon DEF FlightInv
    <3>3. Flight(sq[n + 1]) /\ caller[sq[n + 1].caller].answer = "none"
      BY <3>1, Zenon DEF FlightInv
    <3> QED
      BY <1>0, <1>5, <3>1, <3>2, <3>3, ZenonT(60) DEF Flight
  <2>2. \A n \in DOMAIN cq' : Executed(cq[n])' /\ cq[n].caller # t
    BY <1>0, <1>8, CommandsKept, Zenon DEF FlightInv
  <2>3. Executed(sqThread.cmd)'
    BY <1>0, <1>3, <1>4, <1>5, Zenon DEF Executed, Flight
  <2>4. cqThread'.pc = "notify" =>
         /\ Executed(cqThread.cmd)' /\ cqThread.cmd.caller # t
         /\ context'[cqThread'.cmd.ctx].result = cqThread'.cmd.retcode
    BY <1>0, <1>8, CommandsKept, Zenon DEF FlightInv
  <2>5. \A m, n \in DOMAIN sq' : sq'[m].caller = sq'[n].caller => m = n
    <3>1. \A m, n \in DOMAIN sq : sq[m].caller = sq[n].caller => m = n
      BY Zenon DEF FlightInv
    <3>2. sq' = Tail(sq)
      BY <1>5, Zenon
    <3> QED
      BY <1>1, <3>1, <3>2
  <2> QED
    BY <1>0, <1>5, <2>1, <2>2, <2>3, <2>4, <2>5, ZenonT(60) DEF FlightInv
<1>10. CallInv'
  <2>1. ~context[caller[t].ctx].done
    BY <1>4, Zenon DEF Flight
  <2>2. \A u \in Callers \ {t} : Answered(u)'
    BY <1>0, <1>5, AnsweredKept, Zenon
  <2>3. Answered(t)'
    BY <1>0, <1>4, <1>5, <2>1, Zenon DEF Answered
  <2> QED
    BY <2>2, <2>3, Zenon DEF CallInv
<1>11. OwnInv'
  BY <1>0, <1>4, <1>5, OwnStep, ZenonT(60) DEF HasContext
<1> QED
  BY <1>9, <1>10, <1>11, Zenon

\* It passes the command to the completion queue.
LEMMA CompleteStep ==
    ASSUME EmulatorInv, SqComplete
    PROVE  FlightInv' /\ CallInv' /\ OwnInv'
<1> USE DEF EmulatorInv
<1>0. /\ UNCHANGED <<sq, cqThread, context, pool, driver, caller>>
      /\ sqThread.pc = "complete" /\ sqThread'.pc = "dequeue"
  BY Zenon DEF SqComplete
<1>1. PICK x \in Commands : x = sqThread.cmd
  BY <1>0, Zenon DEF Types
<1>2. /\ DOMAIN cq = 1 .. Len(cq) /\ Len(cq) \in Nat
      /\ DOMAIN cq' = 1 .. Len(cq) + 1
      /\ \A n \in 1 .. Len(cq) : cq'[n] = cq[n]
      /\ cq'[Len(cq) + 1] = x
  BY <1>1, SeqSteps DEF Types, SqComplete
<1>4. FlightInv'
  <2>1. ASSUME NEW n \in DOMAIN cq' PROVE Executed(cq[n])'
    <3>1. CASE n \in DOMAIN cq
      <4>1. Executed(cq[n]) /\ cq'[n] = cq[n]
        BY <1>2, <3>1, Zenon DEF FlightInv
      <4> QED
        BY <1>0, <4>1, Zenon DEF Executed, Flight
    <3>2. CASE n = Len(cq) + 1
      <4>1. Executed(sqThread.cmd) /\ cq'[n] = sqThread.cmd
        BY <1>0, <1>1, <1>2, <3>2, Zenon DEF FlightInv
      <4> QED
        BY <1>0, <4>1, Zenon DEF Executed, Flight
    <3> QED
      BY <1>2, <3>1, <3>2
  <2>2. \A n \in DOMAIN sq' : Flight(sq[n])' /\ caller'[sq'[n].caller].answer = "none"
    BY <1>0, Zenon DEF FlightInv, Flight
  <2>3. cqThread'.pc = "notify" =>
         /\ Executed(cqThread.cmd)'
         /\ context'[cqThread'.cmd.ctx].result = cqThread'.cmd.retcode
    BY <1>0, Zenon DEF FlightInv, Executed, Flight
  <2>4. \A m, n \in DOMAIN cq' : cq'[m].caller = cq'[n].caller => m = n
    BY <1>0, <1>1, <1>2 DEF FlightInv
  <2>5. cqThread'.pc = "notify" => \A n \in DOMAIN cq' : cq'[n].caller # cqThread'.cmd.caller
    BY <1>0, <1>1, <1>2 DEF FlightInv
  <2> QED
    BY <1>0, <2>1, <2>2, <2>3, <2>4, <2>5, Zenon DEF FlightInv
<1>5. CallInv'
  BY <1>0, Zenon DEF CallInv, Answered
<1>6. OwnInv'
  BY <1>0, OwnStep, Zenon DEF HasContext
<1> QED
  BY <1>4, <1>5, <1>6, Zenon

\* The interrupt thread takes the command and writes its result.
LEMMA DequeueStep ==
    ASSUME EmulatorInv, CqDequeue
    PROVE  FlightInv' /\ CallInv' /\ OwnInv'
<1> USE DEF EmulatorInv
<1>0. UNCHANGED <<sq, sqThread, caller, pool, driver>>
  BY Zenon DEF CqDequeue
<1>1. /\ cq # <<>> /\ cq' = Tail(cq) /\ 1 \in DOMAIN cq
      /\ cqThread.pc = "dequeue" /\ cqThread'.pc = "notify"
      /\ cqThread'.cmd = cq[1] /\ Executed(cq[1])
      /\ context'[cq[1].ctx].result = cq[1].retcode
      /\ \A c \in Contexts : context'[c].done = context[c].done
      /\ \A c \in Contexts \ {cq[1].ctx} : context'[c] = context[c]
  BY DequeueEffect, Zenon
<1>2. /\ DOMAIN cq = 1 .. Len(cq) /\ Len(cq) \in Nat
      /\ DOMAIN cq' = 1 .. Len(cq) - 1
      /\ \A n \in 1 .. Len(cq) - 1 : cq'[n] = cq[n + 1]
  BY <1>1, SeqSteps DEF Types
<1>3. \A y : /\ Flight(y) => Flight(y)'
             /\ Executed(y) => Executed(y)'
  BY <1>0, <1>1, Zenon DEF Flight, Executed
<1>4. FlightInv'
  <2>0. \A n \in DOMAIN cq' :
          n \in Nat /\ n + 1 \in DOMAIN cq /\ cq'[n] = cq[n + 1] /\ n + 1 # 1
    BY <1>2
  <2>1. ASSUME NEW n \in DOMAIN cq'
        PROVE  Executed(cq[n])' /\ cq'[n].caller # cq[1].caller
    <3>1. n + 1 \in DOMAIN cq /\ cq'[n] = cq[n + 1] /\ n + 1 # 1
      BY <2>0, Zenon
    <3>2. Executed(cq[n + 1]) /\ cq[n + 1].caller # cq[1].caller
      BY <1>1, <3>1, Zenon DEF FlightInv
    <3> QED
      BY <1>3, <3>1, <3>2, Zenon DEF Executed, Flight
  <2>2. \A n \in DOMAIN sq' : Flight(sq[n])' /\ caller'[sq'[n].caller].answer = "none"
    BY <1>0, <1>3, Zenon DEF FlightInv, Flight
  <2>3. sqThread'.pc = "complete" =>
          Executed(sqThread.cmd)' /\ sqThread.cmd.caller # cq[1].caller
    BY <1>0, <1>1, <1>3, Zenon DEF FlightInv, Executed, Flight
  <2>4. /\ Executed(cqThread.cmd)'
        /\ context'[cqThread'.cmd.ctx].result = cqThread'.cmd.retcode
    BY <1>1, <1>3 DEF Executed, Flight
  <2>5. \A m, n \in DOMAIN cq' : cq'[m].caller = cq'[n].caller => m = n
    <3>1. \A m, n \in DOMAIN cq : cq[m].caller = cq[n].caller => m = n
      BY Zenon DEF FlightInv
    <3>2. \A m, n \in DOMAIN cq' : cq'[m].caller = cq'[n].caller => m + 1 = n + 1
      BY <2>0, <3>1
    <3>3. \A m, n \in Nat : m + 1 = n + 1 => m = n
      OBVIOUS
    <3> QED
      BY <2>0, <3>2, <3>3, Zenon
  <2>6. sqThread'.pc = "complete" =>
         \A n \in DOMAIN cq' : cq'[n].caller # sqThread'.cmd.caller
    <3>1. sqThread.pc = "complete" => \A n \in DOMAIN cq : cq[n].caller # sqThread.cmd.caller
      BY Zenon DEF FlightInv
    <3> QED
      BY <1>0, <2>0, <3>1, Zenon
  <2>7. cqThread'.pc = "notify" /\ cqThread'.cmd.caller = cq[1].caller
    BY <1>1, Zenon
  <2>8. \A n \in DOMAIN cq' : cq'[n].caller # cqThread'.cmd.caller
    BY <2>1, <2>7, Zenon
  <2>9. sqThread'.pc = "complete" => sqThread'.cmd.caller # cqThread'.cmd.caller
    BY <1>0, <2>3, <2>7, Zenon
  <2>10. \A m, n \in DOMAIN sq' : sq'[m].caller = sq'[n].caller => m = n
    BY <1>0, Zenon DEF FlightInv
  <2> QED
    BY <2>1, <2>2, <2>3, <2>4, <2>5, <2>6, <2>8, <2>9, <2>10, Zenon DEF FlightInv
<1>5. CallInv'
  <2>1. \A t \in Callers : HasContext(t) =>
            /\ context'[caller[t].ctx].done = context[caller[t].ctx].done
            /\ context[caller[t].ctx].done => context'[caller[t].ctx] = context[caller[t].ctx]
    BY <1>1, Zenon DEF Executed, Flight, Types
  <2> QED
    BY <1>0, <2>1, ZenonT(60) DEF CallInv, Answered, HasContext
<1>6. OwnInv'
  BY <1>0, OwnStep, Zenon DEF HasContext
<1> QED
  BY <1>4, <1>5, <1>6, Zenon

\* It sets the context's done flag: the command is no longer in flight.
LEMMA NotifyStep ==
    ASSUME EmulatorInv, OnIoComplete
    PROVE  FlightInv' /\ CallInv' /\ OwnInv'
<1> USE DEF EmulatorInv
<1>0. UNCHANGED <<sq, cq, sqThread, caller, pool, driver>>
  BY Zenon DEF OnIoComplete
<1>1. PICK x : x = cqThread.cmd
  BY Zenon
<1>2. /\ cqThread.pc = "notify" /\ cqThread'.pc = "dequeue" /\ Executed(x)
      /\ context'[x.ctx].done /\ context'[x.ctx].result = x.retcode
      /\ \A c \in Contexts \ {x.ctx} : context'[c] = context[c]
  BY <1>1, NotifyEffect, Zenon
<1>3. PICK t \in Callers : /\ t = x.caller /\ caller[t].pc = "wait" /\ caller[t].ctx = x.ctx
                           /\ caller[t].answer = convert_return_code(x.retcode)
                           /\ x.retcode \in Codes /\ x.ctx \in Contexts
  BY <1>2, Zenon DEF Executed, Flight
<1>4. \A u \in Callers \ {t} : HasContext(u) =>
        caller[u].ctx \in Contexts /\ context'[caller[u].ctx] = context[caller[u].ctx]
  <2>1. \A u \in Callers : HasContext(u) => caller[u].ctx \in Contexts
    BY Zenon DEF Types
  <2>2. HasContext(t)
    BY <1>3, Zenon DEF HasContext
  <2>3. \A u \in Callers \ {t} : HasContext(u) => caller[u].ctx # x.ctx
    BY <1>3, <2>2, ZenonT(60) DEF OwnInv
  <2> QED
    BY <1>2, <2>1, <2>3, Zenon
<1>5. \A y : /\ Flight(y) /\ y.caller # t => Flight(y)'
             /\ Executed(y) /\ y.caller # t => Executed(y)'
  BY <1>0, <1>4, Zenon DEF Flight, Executed, HasContext
<1>6. FlightInv'
  <2>1. \A n \in DOMAIN sq : sq[n].caller # t
    BY <1>3, Converted DEF FlightInv
  <2>2. \A n \in DOMAIN sq' : Flight(sq[n])' /\ caller'[sq'[n].caller].answer = "none"
    BY <1>0, <1>5, <2>1, ZenonT(60) DEF FlightInv, Flight
  <2>3. \A n \in DOMAIN cq : cq[n].caller # t
    BY <1>1, <1>2, <1>3, Zenon DEF FlightInv
  <2>4. \A n \in DOMAIN cq' : Executed(cq[n])'
    BY <1>0, <1>5, <2>3, ZenonT(60) DEF FlightInv, Executed, Flight
  <2>5. sqThread'.pc = "complete" => Executed(sqThread.cmd)'
    BY <1>0, <1>1, <1>2, <1>3, <1>5, Zenon DEF FlightInv, Executed, Flight
  <2> QED
    BY <1>0, <1>2, <2>2, <2>4, <2>5, Zenon DEF FlightInv
<1>7. CallInv'
  <2>1. \A u \in Callers \ {t} :
          /\ caller'[u] = caller[u]
          /\ HasContext(u) => context'[caller[u].ctx] = context[caller[u].ctx]
    BY <1>0, <1>4, Zenon
  <2>2. /\ caller'[t] = caller[t] /\ caller'[t].pc = "wait"
        /\ context'[caller'[t].ctx].result = x.retcode /\ x.retcode \in Codes
        /\ caller'[t].answer = convert_return_code(x.retcode)
    BY <1>0, <1>2, <1>3, Zenon
  <2>3. \A u \in Callers \ {t} : Answered(u)'
    BY <2>1, AnsweredKept, Zenon
  <2>4. Answered(t)'
    BY <2>2, Zenon DEF Answered
  <2> QED
    BY <2>3, <2>4, Zenon DEF CallInv
<1>8. OwnInv'
  BY <1>0, OwnStep, Zenon DEF HasContext
<1> QED
  BY <1>6, <1>7, <1>8, Zenon

\* Closing the device, and its threads' exits, concern no command.
LEMMA CloseStep ==
    ASSUME EmulatorInv, SqExit \/ CqExit \/ Close \/ Terminate \/ Closed \/ UNCHANGED vars
    PROVE  FlightInv' /\ CallInv' /\ OwnInv'
<1> USE DEF EmulatorInv
<1>1. /\ UNCHANGED <<sq, cq, caller, context>>
      /\ sqThread'.pc = "complete" <=> sqThread.pc = "complete"
      /\ cqThread'.pc = "notify" <=> cqThread.pc = "notify"
      /\ sqThread'.cmd = sqThread.cmd /\ cqThread'.cmd = cqThread.cmd
  BY Zenon DEF SqExit, CqExit, Close, Terminate, Closed, vars, Types
<1>2. \/ pool' = pool /\ (driver' = "open" => driver = "open")
      \/ pool' = <<>> /\ driver' # "open" /\ \A t \in Callers : caller[t] = Idle
  BY Zenon DEF SqExit, CqExit, Close, Terminate, Closed, vars
<1>3. FlightInv'
  <2>1. \A y : /\ Flight(y) => Flight(y)'
               /\ Executed(y) => Executed(y)'
    BY <1>1, Zenon DEF Flight, Executed
  <2>2. \A n \in DOMAIN sq' : Flight(sq[n])' /\ caller'[sq'[n].caller].answer = "none"
    BY <1>1, <2>1, Zenon DEF FlightInv, Flight
  <2>3. \A n \in DOMAIN cq' : Executed(cq[n])'
    BY <1>1, <2>1, CommandsKept, Zenon DEF FlightInv
  <2>4. sqThread'.pc = "complete" => Executed(sqThread.cmd)'
    BY <1>1, <2>1, CommandsKept, Zenon DEF FlightInv
  <2>5. cqThread'.pc = "notify" => Executed(cqThread.cmd)'
    BY <1>1, <2>1, CommandsKept, Zenon DEF FlightInv
  <2> QED
    BY <1>1, <2>2, <2>3, <2>4, <2>5, ZenonT(60) DEF FlightInv
<1>4. CallInv'
  BY <1>1, Zenon DEF CallInv, Answered
<1>5. OwnInv'
  BY <1>1, <1>2 DEF OwnInv, HasContext
<1> QED
  BY <1>3, <1>4, <1>5, Zenon

\* Every step preserves the invariant.
LEMMA NextInv == EmulatorInv /\ [Next]_vars => EmulatorInv'
<1> SUFFICES ASSUME EmulatorInv, [Next]_vars PROVE FlightInv' /\ CallInv' /\ OwnInv'
  BY NextTypes, Zenon DEF EmulatorInv
<1> QED
  BY CallStep, PrepareStep, SubmitStep, ReadStep, FreeStep, ExecuteStep, CompleteStep,
     DequeueStep, NotifyStep, CloseStep, Zenon DEF Next, CallerStep, SqStep, CqStep

-----------------------------------------------------------------------------
(* The theorems                                                            *)

\* The inductive invariant.
THEOREM EmulatorInvCorrect == Spec => []EmulatorInv
BY InitInv, NextInv, PTL DEF Spec

\* The variables keep their types, and no queue exceeds its depth.
THEOREM EmulatorTypeCorrect == Spec => []TypeOK
<1>1. EmulatorInv => TypeOK
  <2> SUFFICES ASSUME EmulatorInv PROVE TypeOK
    BY Zenon
  <2>1. Range(pool) \subseteq Contexts
    BY SeqSteps DEF EmulatorInv, Types, Range
  <2>2. IsInjective(pool)
    BY Zenon DEF EmulatorInv, OwnInv, IsInjective
  <2>3. \A t \in Callers : caller[t].pc \in {"idle", "prepare", "submit", "wait", "free"}
    BY CallerPc, Zenon DEF EmulatorInv
  <2> QED
    BY <2>1, <2>2, <2>3, Zenon DEF EmulatorInv, Types, TypeOK
<1> QED
  BY <1>1, EmulatorInvCorrect, PTL

\* malloc_context and free_context lose and share no context, and on_io_complete
\* writes only into the context of a call that still waits.
THEOREM ContextsOwnedCorrect == Spec => []ContextsOwned
<1>1. EmulatorInv => ContextsOwned
  <2> SUFFICES ASSUME EmulatorInv PROVE ContextsOwned
    BY Zenon
  <2>1. \A t, u \in Callers :
          HasContext(t) =>
              /\ caller[t].ctx \notin Range(pool)
              /\ (HasContext(u) /\ caller[u].ctx = caller[t].ctx) => t = u
    BY Zenon DEF EmulatorInv, OwnInv, Range
  <2>2. ASSUME driver = "open"
        PROVE  Contexts = Range(pool)
                    \cup {caller[t].ctx : t \in {u \in Callers : HasContext(u)}}
    <3>1. \A n \in DOMAIN pool : pool[n] \in Contexts
      BY SeqSteps, Zenon DEF EmulatorInv, Types
    <3>2. \A t \in Callers : HasContext(t) => caller[t].ctx \in Contexts
      BY Zenon DEF EmulatorInv, Types
    <3> QED
      BY <2>2, <3>1, <3>2 DEF EmulatorInv, OwnInv, Range
  <2>3. ASSUME NEW x \in InFlight
        PROVE  /\ caller[x.caller].pc = "wait" /\ caller[x.caller].ctx = x.ctx
               /\ ~context[x.ctx].done
    <3>1. x # NoCommand /\ x \in Range(sq) \cup Range(cq) \cup {sqThread.cmd, cqThread.cmd}
      BY Zenon DEF InFlight
    <3>2. CASE x \in Range(sq)
      BY <3>2, ZenonT(60) DEF Range, EmulatorInv, FlightInv, Flight
    <3>3. CASE x \in Range(cq)
      BY <3>3, ZenonT(60) DEF Range, EmulatorInv, FlightInv, Executed, Flight
    <3>4. CASE x = sqThread.cmd
      <4>1. sqThread.pc = "complete"
        BY <3>1, <3>4, Zenon DEF EmulatorInv, Types
      <4> QED
        BY <3>4, <4>1, Zenon DEF EmulatorInv, FlightInv, Executed, Flight
    <3>5. CASE x = cqThread.cmd
      <4>1. cqThread.pc = "notify"
        BY <3>1, <3>5, Zenon DEF EmulatorInv, Types
      <4> QED
        BY <3>5, <4>1, Zenon DEF EmulatorInv, FlightInv, Executed, Flight
    <3> QED
      BY <3>1, <3>2, <3>3, <3>4, <3>5, Zenon
  <2> QED
    BY <2>1, <2>2, <2>3, Zenon DEF ContextsOwned
<1> QED
  BY <1>1, EmulatorInvCorrect, PTL

-----------------------------------------------------------------------------
(* The library implements the atomic device.                               *)

\* Calls with the same fields are the same.
LEMMA SameRecord ==
    ASSUME NEW x \in AD!CallRecords, NEW y \in AD!CallRecords,
           x.phase = y.phase, x.kind = y.kind, x.key = y.key, x.arg = y.arg,
           x.flag = y.flag, x.room = y.room, x.out = y.out, x.res = y.res
    PROVE  x = y
BY DEF AD!CallRecords

\* The fields of a request.
LEMMA RequestFields ==
    ASSUME NEW r \in Requests
    PROVE  /\ r.kind \in {"store", "retrieve", "delete", "exist"} /\ r.key \in Keys
           /\ r.arg \in Values \cup {NoValue} /\ r.flag \in BOOLEAN /\ r.room \in Nat
           /\ r.kind = "store" => r.arg \in Values
           /\ r.kind # "store" => r.arg = NoValue
<1>1. CASE r \in [kind : {"store"}, key : Keys, arg : Values, flag : BOOLEAN, room : {0}]
  BY <1>1
<1>2. CASE r \in [kind : {"retrieve"}, key : Keys, arg : {NoValue}, flag : BOOLEAN,
                  room : Rooms]
  BY <1>2, EmulatorAssumption, Zenon
<1>3. CASE r \in [kind : {"delete", "exist"}, key : Keys, arg : {NoValue}, flag : {FALSE},
                  room : {0}]
  <2>1. r.flag \in {FALSE} /\ r.kind \in {"delete", "exist"} /\ r.key \in Keys
        /\ r.arg = NoValue /\ r.room = 0
    BY <1>3, Zenon
  <2>2. r.flag \in BOOLEAN
    BY <2>1, Zenon
  <2> QED
    BY <2>1, <2>2
<1> QED
  BY <1>1, <1>2, <1>3, Zenon DEF Requests

\* The image of a call under way: what it returns in the end is its answer.
LEMMA ImageFields ==
    ASSUME NEW c \in CallStates, c.pc = "free" => c.res = c.answer
    PROVE  /\ AbstractOp(c) \in AD!CallRecords
           /\ AbstractOp(c).phase = IF c.answer = "none" THEN "pending" ELSE "applied"
           /\ AbstractOp(c).kind = c.req.kind /\ AbstractOp(c).key = c.req.key
           /\ AbstractOp(c).arg = c.req.arg /\ AbstractOp(c).flag = c.req.flag
           /\ AbstractOp(c).room = c.req.room /\ AbstractOp(c).out = c.out
           /\ AbstractOp(c).res = c.answer
<1>1. c # Idle
  BY DEF CallStates, Idle
<1>2. c.req \in Requests /\ c.out \in Outs /\ c.answer \in Answers \cup {"none"}
  BY Zenon DEF CallStates
<1>3. c.answer \in AD!Results
  BY <1>2, Zenon DEF Answers, AD!Results
<1>4. AbstractOp(c) =
         [phase |-> IF c.answer = "none" THEN "pending" ELSE "applied",
          kind |-> c.req.kind, key |-> c.req.key, arg |-> c.req.arg, flag |-> c.req.flag,
          room |-> c.req.room, out |-> c.out, res |-> c.answer]
  BY <1>1, Zenon DEF AbstractOp
<1> QED
  BY SMTT(30), <1>2, <1>3, <1>4, RequestFields DEF AD!CallRecords, Outs

\* Two states of a call that differ in neither request, data nor answer look the same.
LEMMA ImageSame ==
    ASSUME NEW c \in CallStates, NEW d \in CallStates,
           c.pc = "free" => c.res = c.answer, d.pc = "free" => d.res = d.answer,
           c.req = d.req, c.out = d.out, c.answer = d.answer
    PROVE  AbstractOp(c) = AbstractOp(d)
<1>1. PICK x : x = AbstractOp(c)
  BY Zenon
<1>2. PICK y : y = AbstractOp(d)
  BY Zenon
<1>3. /\ x \in AD!CallRecords /\ y \in AD!CallRecords
      /\ x.phase = y.phase /\ x.kind = y.kind /\ x.key = y.key /\ x.arg = y.arg
      /\ x.flag = y.flag /\ x.room = y.room /\ x.out = y.out /\ x.res = y.res
  BY <1>1, <1>2, ImageFields
<1> QED
  BY <1>1, <1>2, <1>3, SameRecord, ZenonT(60)

\* What a command answers and does is what the atomic device answers and does.
LEMMA OutcomeAtomic ==
    ASSUME NEW r \in Requests, NEW v \in Values \cup {NoValue}, NEW c,
           c.kind = r.kind, c.flag = r.flag, c.room = r.room
    PROVE  /\ convert_return_code(execute_cmd(r, v).retcode) = AD!Answer(c, v)
           /\ execute_cmd(r, v).out = AD!Learnt(c, v)
           /\ execute_cmd(r, v).value =
                IF AD!Answer(c, v) = "KVS_SUCCESS" /\ r.kind \in {"store", "delete"}
                THEN r.arg ELSE v
<1>0. r.kind \in {"store", "retrieve", "delete", "exist"} /\ r.flag \in BOOLEAN
      /\ (r.kind # "store" => r.arg = NoValue) /\ r.room \in Nat
      /\ (v # NoValue => Size[v] \in Nat)
  <2>1. v # NoValue => Size[v] \in Nat
    BY EmulatorAssumption
  <2> QED
    BY <2>1, RequestFields, ZenonT(60)
<1> USE DEF convert_return_code, AD!Answer, AD!Learnt, execute_cmd, Outcome
<1>1. CASE r.kind = "store" /\ v = NoValue
  BY <1>0, <1>1, Zenon DEF kv_store
<1>2. CASE r.kind = "store" /\ v # NoValue /\ r.flag
  BY <1>0, <1>2, Zenon DEF kv_store
<1>3. CASE r.kind = "store" /\ v # NoValue /\ ~r.flag
  BY <1>0, <1>3, Zenon DEF kv_store
<1>4. CASE r.kind = "retrieve" /\ r.flag
  BY <1>0, <1>4, Zenon DEF kv_retrieve
<1>5. CASE r.kind = "retrieve" /\ ~r.flag /\ v = NoValue
  BY <1>0, <1>5, ZenonT(60) DEF kv_retrieve
<1>6. CASE r.kind = "retrieve" /\ ~r.flag /\ v # NoValue
  BY <1>0, <1>6, ZenonT(60) DEF kv_retrieve
<1>7. CASE r.kind = "delete"
  BY <1>0, <1>7, ZenonT(60) DEF kv_delete
<1>8. CASE r.kind = "exist"
  BY <1>0, <1>8, ZenonT(60) DEF kv_exist
<1> QED
  BY <1>0, <1>1, <1>2, <1>3, <1>4, <1>5, <1>6, <1>7, <1>8, ZenonT(60)

\* A call under way has a record, whose result is its answer once it is read.
LEMMA CallRecord ==
    ASSUME Types, CallInv, NEW t \in Callers, caller[t].pc # "idle"
    PROVE  caller[t] \in CallStates /\ (caller[t].pc = "free" => caller[t].res = caller[t].answer)
BY CallerPc, ZenonT(60) DEF CallInv, Answered

\* The same after a step.
LEMMA CallRecordNext ==
    ASSUME Types', NEW t \in Callers, caller'[t].pc # "idle"
    PROVE  caller'[t] \in CallStates
<1>1. caller'[t] \in {Idle} \cup CallStates
  BY Zenon DEF Types
<1> QED
  BY <1>1 DEF Idle

\* A step that leaves requests, data and answers alone is invisible.
LEMMA StepInvisible ==
    ASSUME Types, CallInv, Types', CallInv', UNCHANGED m_map,
           \A u \in Callers :
              \/ caller'[u] = caller[u]
              \/ /\ caller[u].pc # "idle" /\ caller'[u].pc # "idle"
                 /\ caller'[u].req = caller[u].req /\ caller'[u].out = caller[u].out
                 /\ caller'[u].answer = caller[u].answer
    PROVE  UNCHANGED AD!deviceVars
<1>1. ASSUME NEW u \in Callers PROVE AbstractOp(caller'[u]) = AbstractOp(caller[u])
  <2>1. CASE caller'[u] = caller[u]
    BY <2>1, Zenon
  <2>2. CASE /\ caller[u].pc # "idle" /\ caller'[u].pc # "idle"
             /\ caller'[u].req = caller[u].req /\ caller'[u].out = caller[u].out
             /\ caller'[u].answer = caller[u].answer
    <3>1. caller[u] \in CallStates /\ (caller[u].pc = "free" => caller[u].res = caller[u].answer)
      BY <2>2, CallRecord, Zenon
    <3>2. /\ caller'[u] \in CallStates
          /\ caller'[u].pc = "free" => caller'[u].res = caller'[u].answer
      BY <2>2, CallRecordNext, Zenon DEF CallInv, Answered
    <3> QED
      BY <2>2, <3>1, <3>2, ImageSame, Zenon
  <2> QED
    BY <2>1, <2>2, Zenon
<1>2. AbstractCall' = AbstractCall
  BY <1>1, Zenon DEF AbstractCall
<1> QED
  BY <1>2, Zenon DEF AD!deviceVars

\* A call of the library is a call of the device.
LEMMA StepInvokes ==
    ASSUME Types, Types', NEW t \in Callers, Call(t)
    PROVE  AD!Invoke(t)
<1>1. /\ \A u \in Callers \ {t} : caller'[u] = caller[u]
      /\ caller[t] = Idle /\ caller'[t].pc = "prepare" /\ caller'[t].answer = "none"
  BY CallEffect, Zenon
<1>2. caller'[t] \in CallStates
  BY <1>1, CallRecordNext, Zenon
<1>3. PICK c : c = AbstractOp(caller'[t])
  BY Zenon
<1>4. c \in AD!CallRecords /\ c.phase = "pending" /\ c.res = "none"
  BY <1>1, <1>2, <1>3, ImageFields, Zenon
<1>5. AbstractCall[t] = AD!NoCall
  BY <1>1, ZenonT(60) DEF AbstractCall, AbstractOp, AD!NoCall
<1>6. AbstractCall' = [AbstractCall EXCEPT ![t] = c]
  BY <1>1, <1>3, Zenon DEF AbstractCall
<1>7. AbstractCall'[t] = c
  BY <1>3, Zenon DEF AbstractCall
<1> QED
  BY <1>4, <1>5, <1>6, <1>7, Zenon DEF AD!Invoke, Call

\* Giving the context back is the return of the call.
LEMMA StepReturns ==
    ASSUME Types, CallInv, NEW t \in Callers, FreeContext(t)
    PROVE  AD!Return(t)
<1>1. /\ \A u \in Callers \ {t} : caller'[u] = caller[u]
      /\ caller[t].pc = "free" /\ caller'[t] = Idle
  BY FreeEffect, Zenon
<1>2. caller[t] \in CallStates /\ caller[t].res = caller[t].answer /\ caller[t].answer # "none"
  BY <1>1, CallRecord, Converted, Zenon DEF CallInv, Answered
<1>3. AbstractCall[t].phase = "applied"
  BY <1>2, ImageFields, Zenon DEF AbstractCall
<1>4. AbstractCall' = [AbstractCall EXCEPT ![t] = AD!NoCall]
  <2>1. AbstractCall' = [u \in Callers |-> AbstractOp(caller'[u])]
    BY Zenon DEF AbstractCall, AbstractOp
  <2>2. AbstractOp(caller'[t]) = AD!NoCall
    BY <1>1, Zenon DEF AbstractOp, AD!NoCall
  <2>3. \A u \in Callers \ {t} : AbstractOp(caller'[u]) = AbstractOp(caller[u])
    BY <1>1, Zenon
  <2> QED
    BY <2>1, <2>2, <2>3, Zenon DEF AbstractCall
<1> QED
  BY <1>3, <1>4, Zenon DEF AD!Return, FreeContext

\* The execution of the command is the instant at which the call acts.
LEMMA StepApplies ==
    ASSUME EmulatorInv, Types', Execute
    PROVE  \E t \in Callers : AD!Apply(t)
<1> USE DEF EmulatorInv
<1>a. sq # <<>>
  BY Zenon DEF Execute
<1>b. DOMAIN sq = 1 .. Len(sq) /\ Len(sq) \in Nat /\ Len(sq) > 0
  BY <1>a, SeqSteps, Zenon DEF Types
<1>0. 1 \in DOMAIN sq
  BY <1>b
<1>1. PICK x : x = sq[1]
  BY Zenon
<1>2. PICK t \in Callers : t = x.caller /\ caller[t].pc = "wait" /\ caller[t].answer = "none"
  BY <1>0, <1>1, Zenon DEF FlightInv, Flight
<1>3. PICK c \in CallStates : c = caller[t]
  BY <1>2, CallerPc, Zenon
<1>4. PICK d : d = caller'[t]
  BY Zenon
<1>5. PICK v : v = m_map[c.req.key]
  BY Zenon
<1>6. PICK o : o = execute_cmd(c.req, v)
  BY Zenon
<1>7. /\ c.req \in Requests /\ c.req.key \in Keys /\ v \in Values \cup {NoValue}
      /\ \A u \in Callers \ {t} : caller'[u] = caller[u]
      /\ d.pc = "wait" /\ d.req = c.req /\ d.out = o.out
      /\ d.answer = convert_return_code(o.retcode) /\ o.retcode \in Codes
      /\ m_map' = [m_map EXCEPT ![c.req.key] = o.value]
  BY <1>1, <1>2, <1>3, <1>4, <1>5, <1>6, ExecuteEffect, ZenonT(60) DEF Types
<1>8. d \in CallStates /\ d.answer # "none"
  <2>1. d.pc # "idle"
    BY <1>7, Zenon
  <2> QED
    BY <1>4, <1>7, <2>1, CallRecordNext, Converted, ZenonT(60)
<1> DEFINE a == AbstractOp(c)
           b == AbstractOp(d)
           y == [a EXCEPT !.phase = "applied", !.res = AD!Answer(a, v), !.out = AD!Learnt(a, v)]
<1>9. /\ a \in AD!CallRecords /\ a.phase = "pending" /\ a.kind = c.req.kind
      /\ a.key = c.req.key /\ a.arg = c.req.arg /\ a.flag = c.req.flag
      /\ a.room = c.req.room
  BY <1>2, <1>3, ImageFields, Zenon
<1>10. /\ b \in AD!CallRecords /\ b.phase = "applied" /\ b.kind = a.kind
       /\ b.key = a.key /\ b.arg = a.arg /\ b.flag = a.flag
       /\ b.room = a.room /\ b.out = o.out /\ b.res = d.answer
  BY <1>7, <1>8, <1>9, ImageFields
<1>11. /\ d.answer = AD!Answer(a, v) /\ o.out = AD!Learnt(a, v)
       /\ o.value = IF AD!Answer(a, v) = "KVS_SUCCESS" /\ a.kind \in {"store", "delete"}
                    THEN a.arg ELSE v
  BY SMTT(30), <1>6, <1>7, <1>9, OutcomeAtomic
<1>12. b = y
  <2>1. b.res \in AD!Results /\ b.out \in Values \cup {NoValue, "yes", "no"}
    BY <1>10, Zenon DEF AD!CallRecords
  <2>2. PICK r : r = AD!Answer(a, v)
    BY Zenon
  <2>3. PICK l : l = AD!Learnt(a, v)
    BY Zenon
  <2>4. b.res = r /\ b.out = l
    BY <1>10, <1>11, <2>2, <2>3, Zenon
  <2> HIDE DEF a, b
  <2>5. PICK z : z = [a EXCEPT !.phase = "applied", !.res = r, !.out = l]
    BY Zenon
  <2>6. /\ z \in AD!CallRecords /\ z.phase = "applied" /\ z.res = r /\ z.out = l
        /\ z.kind = a.kind /\ z.key = a.key /\ z.arg = a.arg /\ z.flag = a.flag
        /\ z.room = a.room
    BY <1>9, <2>1, <2>4, <2>5, Zenon DEF AD!CallRecords
  <2>7. b = z
    BY <1>10, <2>4, <2>6, SameRecord
  <2> QED
    BY <2>2, <2>3, <2>5, <2>7, Zenon
<1> HIDE DEF a, b
<1>13. AbstractCall' = [AbstractCall EXCEPT ![t] = b] /\ AbstractCall[t] = a
  BY <1>3, <1>4, <1>7, Zenon DEF AbstractCall, a, b
<1>14. m_map' = IF AD!Answer(a, v) = "KVS_SUCCESS" /\ a.kind \in {"store", "delete"}
                THEN [m_map EXCEPT ![a.key] = a.arg] ELSE m_map
  BY <1>5, <1>7, <1>9, <1>11, ZenonT(60) DEF Types
<1>15. m_map[a.key] = v
  BY <1>5, <1>9, Zenon
<1> QED
  BY <1>9, <1>12, <1>13, <1>14, <1>15, Zenon DEF AD!Apply

\* A device that has just been opened holds nothing and serves no call.
LEMMA RefineInit == Init => AD!Init
BY Zenon DEF Init, AD!Init, AbstractCall, AbstractOp, AD!NoCall

\* A step of a caller.
LEMMA RefineCaller ==
    ASSUME EmulatorInv, EmulatorInv', NEW t \in Callers, Call(t) \/ CallerStep(t)
    PROVE  [AD!Next]_(AD!deviceVars)
<1> USE DEF EmulatorInv
<1>1. CASE Call(t)
  BY <1>1, StepInvokes, Zenon DEF AD!Next
<1>2. CASE FreeContext(t)
  BY <1>2, StepReturns, Zenon DEF AD!Next
<1>3. CASE Prepare(t)
  <2>1. UNCHANGED m_map
    BY <1>3, Zenon DEF Prepare
  <2> QED
    BY <1>3, <2>1, PrepareEffect, StepInvisible, Zenon
<1>4. CASE Submit(t)
  <2>1. UNCHANGED m_map
    BY <1>4, Zenon DEF Submit
  <2> QED
    BY <1>4, <2>1, SubmitEffect, StepInvisible, Zenon
<1>5. CASE ReadResult(t)
  <2>1. UNCHANGED m_map
    BY <1>5, Zenon DEF ReadResult
  <2> QED
    BY <1>5, <2>1, ReadEffect, StepInvisible, Zenon
<1> QED
  BY <1>1, <1>2, <1>3, <1>4, <1>5, Zenon DEF CallerStep

\* Every step is a step of the device, or none.
LEMMA RefineNext == EmulatorInv /\ EmulatorInv' /\ [Next]_vars => [AD!Next]_(AD!deviceVars)
<1> SUFFICES ASSUME EmulatorInv, EmulatorInv', [Next]_vars PROVE [AD!Next]_(AD!deviceVars)
  BY Zenon
<1>1. CASE Execute
  BY <1>1, StepApplies, Zenon DEF AD!Next, EmulatorInv
<1>2. CASE \E t \in Callers : Call(t) \/ CallerStep(t)
  BY <1>2, RefineCaller, Zenon
<1>3. CASE UNCHANGED <<m_map, caller>>
  BY <1>3, Zenon DEF AbstractCall, AD!deviceVars
<1>4. Execute \/ (\E t \in Callers : Call(t) \/ CallerStep(t)) \/ UNCHANGED <<m_map, caller>>
  BY Zenon DEF Next, SqStep, CqStep, SqComplete, CqDequeue, OnIoComplete, SqExit, CqExit,
         Close, Terminate, Closed, vars
<1> QED
  BY <1>1, <1>2, <1>3, <1>4, Zenon

\* The emulator with its queues, threads and shared contexts is a device on which
\* each call acts at once, with the answers convert_return_code gives.
THEOREM AtomicDeviceCorrect == Spec => ImplementsAtomicDevice
BY RefineInit, RefineNext, EmulatorInvCorrect, PTL DEF Spec, ImplementsAtomicDevice, AD!Spec
-----------------------------------------------------------------------------
(* The space account.                                                      *)

INSTANCE FiniteSetTheorems

\* The bytes of some of the keys of a map.
BytesOf(map, S) == UNION {{k} \X (1 .. Footprint(map[k])) : k \in S}

\* One key takes what its value's footprint says.
LEMMA KeyBytes ==
    ASSUME NEW k, NEW n \in Nat
    PROVE  IsFiniteSet({k} \X (1 .. n)) /\ Cardinality({k} \X (1 .. n)) = n
<1>1. IsFiniteSet({k}) /\ Cardinality({k}) = 1
  BY FS_Singleton, ZenonT(60)
<1>2. IsFiniteSet(1 .. n) /\ Cardinality(1 .. n) = n
  BY FS_Interval
<1>3. /\ IsFiniteSet({k} \X (1 .. n))
      /\ Cardinality({k} \X (1 .. n)) = Cardinality({k}) * Cardinality(1 .. n)
  BY <1>1, <1>2, FS_Product, Zenon
<1> QED
  BY <1>1, <1>2, <1>3

\* Footprints are lengths.
LEMMA FootprintType == \A v \in Values \cup {NoValue} : Footprint(v) \in Nat
BY EmulatorAssumption DEF Footprint

\* A map holds finitely many bytes.
LEMMA BytesFinite ==
    ASSUME NEW map \in [Keys -> Values \cup {NoValue}], NEW S \in SUBSET Keys
    PROVE  IsFiniteSet(BytesOf(map, S))
<1> DEFINE f == [k \in S |-> {k} \X (1 .. Footprint(map[k]))]
           T == {{k} \X (1 .. Footprint(map[k])) : k \in S}
<1>1. IsFiniteSet(S)
  BY EmulatorAssumption, FS_Subset, Zenon
<1>2. f \in Surjection(S, T)
  BY ZenonT(60) DEF Surjection
<1>3. IsFiniteSet(T)
  BY <1>1, <1>2, FS_Surjection, ZenonT(60)
<1>4. \A k \in S : IsFiniteSet({k} \X (1 .. Footprint(map[k])))
  BY FootprintType, KeyBytes, ZenonT(60)
<1>5. \A B \in T : IsFiniteSet(B)
  BY <1>4, ZenonT(60)
<1> HIDE DEF T
<1>6. IsFiniteSet(UNION T)
  BY <1>3, <1>5, FS_UNION, ZenonT(60)
<1> QED
  BY <1>6, Zenon DEF BytesOf, T

\* What a map holds is what one key takes and what the others take.
LEMMA BytesSplit ==
    ASSUME NEW map \in [Keys -> Values \cup {NoValue}], NEW k \in Keys
    PROVE  /\ Cardinality(BytesOf(map, Keys \ {k})) \in Nat
           /\ Cardinality(BytesOf(map, Keys)) =
                Cardinality(BytesOf(map, Keys \ {k})) + Footprint(map[k])
<1>1. PICK A : A = BytesOf(map, Keys \ {k})
  BY ZenonT(60)
<1>2. PICK B : B = {k} \X (1 .. Footprint(map[k]))
  BY ZenonT(60)
<1>3. IsFiniteSet(A) /\ Cardinality(A) \in Nat
  BY <1>1, BytesFinite, FS_CardinalityType, ZenonT(60)
<1>4. Footprint(map[k]) \in Nat /\ IsFiniteSet(B) /\ Cardinality(B) = Footprint(map[k])
  BY <1>2, FootprintType, KeyBytes, ZenonT(60)
<1>5. BytesOf(map, Keys) = A \cup B
  BY <1>1, <1>2, ZenonT(60) DEF BytesOf
<1>6. A \cap B = {}
  <2>1. \A x \in B : x[1] = k
    BY <1>2
  <2>2. ASSUME NEW x \in A PROVE x[1] # k
    <3>1. PICK j \in Keys \ {k} : x \in {j} \X (1 .. Footprint(map[j]))
      BY <1>1, Zenon DEF BytesOf
    <3> QED
      BY <3>1
  <2> QED
    BY <2>1, <2>2, ZenonT(60)
<1>7. Cardinality(A \cap B) = 0
  BY <1>6, FS_EmptySet, ZenonT(60)
<1>8. Cardinality(A \cup B) = Cardinality(A) + Cardinality(B) - Cardinality(A \cap B)
  BY <1>3, <1>4, FS_Union, ZenonT(60)
<1> QED
  <2>1. Cardinality(A \cup B) = Cardinality(A) + Footprint(map[k]) - 0
    BY <1>4, <1>7, <1>8, ZenonT(60)
  <2>2. \A m, n \in Nat : m + n - 0 = m + n
    OBVIOUS
  <2> QED
    BY <1>1, <1>3, <1>4, <1>5, <2>1, <2>2, ZenonT(60)

\* A command is charged at least what it adds to its key's footprint.
LEMMA Charged ==
    ASSUME NEW r \in Requests, NEW v \in Values \cup {NoValue}
    PROVE  /\ execute_cmd(r, v).charge \in Int
           /\ execute_cmd(r, v).charge >= Footprint(execute_cmd(r, v).value) - Footprint(v)
<1>1. /\ r.kind \in {"store", "retrieve", "delete", "exist"}
      /\ r.kind = "store" => r.arg \in Values
  BY RequestFields, ZenonT(60)
<1>2. KeySize \in Nat /\ (\A w \in Values : Size[w] \in Nat /\ w # NoValue)
  BY EmulatorAssumption
<1>3. CASE r.kind = "store"
  BY <1>1, <1>2, <1>3 DEF execute_cmd, kv_store, Outcome, Footprint
<1>4. CASE r.kind = "retrieve"
  BY <1>2, <1>4 DEF execute_cmd, kv_retrieve, Outcome, Footprint
<1>5. CASE r.kind = "delete"
  BY <1>2, <1>5 DEF execute_cmd, kv_delete, Outcome, Footprint
<1>6. CASE r.kind = "exist"
  BY <1>2, <1>6 DEF execute_cmd, kv_exist, Outcome, Footprint
<1> QED
  BY <1>1, <1>3, <1>4, <1>5, <1>6, ZenonT(60)

SpaceInv == used \in Int /\ SpaceNotUnderstated

\* An empty map holds nothing.
LEMMA InitSpace == Init => SpaceInv
<1> SUFFICES ASSUME Init PROVE SpaceInv
  OBVIOUS
<1>1. used = 0 /\ \A k \in Keys : Footprint(m_map[k]) = 0
  BY Zenon DEF Init, Footprint
<1>2. \A k \in Keys : {k} \X (1 .. Footprint(m_map[k])) = {}
  BY <1>1
<1>3. StoredBytes = {}
  BY <1>2, Zenon DEF StoredBytes
<1>4. Cardinality(StoredBytes) = 0
  BY <1>3, FS_EmptySet, Zenon
<1> QED
  BY <1>1, <1>4 DEF SpaceInv, SpaceNotUnderstated

\* An executed command changes one key, and is charged for it.
LEMMA NextSpace == EmulatorInv /\ SpaceInv /\ [Next]_vars => SpaceInv'
<1> SUFFICES ASSUME EmulatorInv, SpaceInv, [Next]_vars PROVE SpaceInv'
  BY ZenonT(60)
<1>1. CASE Execute
  <2>1. /\ sq # <<>> /\ sq \in Seq(Commands)
        /\ m_map \in [Keys -> Values \cup {NoValue}]
    BY <1>1, ZenonT(60) DEF Execute, EmulatorInv, Types
  <2>2. Head(sq) = sq[1] /\ 1 \in DOMAIN sq
    BY <2>1
  <2>3. PICK x : x = Head(sq)
    BY ZenonT(60)
  <2>4. x.caller \in Callers /\ caller[x.caller].pc = "wait"
    BY <2>2, <2>3, ZenonT(60) DEF EmulatorInv, FlightInv, Flight
  <2>5. PICK r \in Requests : r = caller[x.caller].req
    BY <2>4, CallerPc, ZenonT(60) DEF EmulatorInv, CallStates
  <2>6. PICK k \in Keys : k = r.key
    BY RequestFields, ZenonT(60)
  <2>7. PICK v \in Values \cup {NoValue} : v = m_map[k]
    BY <2>1, ZenonT(60)
  <2>8. PICK o : o = execute_cmd(r, v)
    BY ZenonT(60)
  <2>9. /\ m_map' = [m_map EXCEPT ![k] = o.value] /\ used' = used + o.charge
        /\ o.value \in Values \cup {NoValue}
        /\ o.charge \in Int /\ o.charge >= Footprint(o.value) - Footprint(v)
    <3>1. m_map' = [m_map EXCEPT ![k] = o.value] /\ used' = used + o.charge
      BY <1>1, <2>3, <2>5, <2>6, <2>7, <2>8, ZenonT(60) DEF Execute
    <3> QED
      BY <2>8, <3>1, OutcomeType, Charged, Zenon
  <2>10. PICK map \in [Keys -> Values \cup {NoValue}] : map = m_map'
    BY <2>1, <2>9, ZenonT(60)
  <2>11. map[k] = o.value /\ \A j \in Keys \ {k} : map[j] = m_map[j]
    BY <2>1, <2>9, <2>10, ZenonT(60)
  <2>12. BytesOf(map, Keys \ {k}) = BytesOf(m_map, Keys \ {k})
    BY <2>11, ZenonT(60) DEF BytesOf
  <2>13. PICK rest \in Nat :
           /\ Cardinality(BytesOf(m_map, Keys)) = rest + Footprint(v)
           /\ Cardinality(BytesOf(map, Keys)) = rest + Footprint(o.value)
    BY <2>1, <2>7, <2>11, <2>12, BytesSplit, ZenonT(60)
  <2>14. /\ used \in Int /\ used >= Cardinality(BytesOf(m_map, Keys))
         /\ SpaceInv' <=> used' \in Int /\ used' >= Cardinality(BytesOf(map, Keys))
    BY <2>10, ZenonT(60) DEF SpaceInv, SpaceNotUnderstated, StoredBytes, BytesOf
  <2>15. Footprint(v) \in Nat /\ Footprint(o.value) \in Nat
    BY <2>9, FootprintType, ZenonT(60)
  <2> QED
    BY <2>9, <2>13, <2>14, <2>15
<1>2. CASE UNCHANGED <<m_map, used>>
  BY <1>2, ZenonT(60) DEF SpaceInv, SpaceNotUnderstated, StoredBytes
<1>3. Execute \/ UNCHANGED <<m_map, used>>
  BY ZenonT(60) DEF Next, CallerStep, SqStep, CqStep, Call, Prepare, Submit, ReadResult,
         FreeContext, SqComplete, CqDequeue, OnIoComplete, SqExit, CqExit, Close, Terminate,
         Closed, vars
<1> QED
  BY <1>1, <1>2, <1>3, ZenonT(60)

\* m_available never promises room that the stored keys and values take, so the
\* utilization that the health probe samples is not understated.
THEOREM SpaceCorrect == Spec => []SpaceNotUnderstated
<1>1. SpaceInv => SpaceNotUnderstated
  BY ZenonT(60) DEF SpaceInv
<1> QED
  BY <1>1, InitSpace, NextSpace, EmulatorInvCorrect, PTL DEF Spec
=============================================================================
