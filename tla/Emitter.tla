------------------------------- MODULE Emitter -------------------------------
(***************************************************************************)
(* EventEmitter (emitter/emitter.go), for one event: On, Once and Off,     *)
(* each atomic under mu, race with Emit and EmitAsync, which copy the      *)
(* handlers under the read lock and call the copies without it. The        *)
(* handler that Once registers reads the variable id, which Once assigns   *)
(* only after On has returned, then calls Off, then the user's function.   *)
(***************************************************************************)
EXTENDS Naturals, FiniteSets

CONSTANTS
  MaxID,   \* bound: handlers registered
  Emits    \* calls of Emit and EmitAsync

Ids == 1..MaxID

VARIABLES
  nextID,    \* nextID
  handlers,  \* the keys of handlers[evt]
  once,      \* ids registered by Once
  known,     \* ids whose On or Once has returned: for Once, id is assigned
  async,     \* calls made by EmitAsync
  stage,     \* per call of Emit, per handler it copied: what has been done
  calls,     \* history: calls of each user function
  raced,     \* history: handlers of Once that called Off with id still zero
  overlapped \* history: handlers of Once copied by two calls before Off

vars == <<nextID, handlers, once, known, async, stage, calls, raced, overlapped>>

Init ==
  /\ nextID = 0 /\ handlers = {} /\ once = {} /\ known = {} /\ async = {}
  /\ stage = [e \in Emits |-> [h \in Ids |-> "none"]]
  /\ calls = [h \in Ids |-> 0] /\ raced = {} /\ overlapped = {}

-----------------------------------------------------------------------------

Register(id) == nextID' = id /\ handlers' = handlers \cup {id}

On ==
  /\ nextID + 1 \in Ids /\ Register(nextID + 1)
  /\ known' = known \cup {nextID + 1}
  /\ UNCHANGED <<once, async, stage, calls, raced, overlapped>>

\* Once, up to the return of its call of On ...
Once ==
  /\ nextID + 1 \in Ids /\ Register(nextID + 1)
  /\ once' = once \cup {nextID + 1}
  /\ UNCHANGED <<known, async, stage, calls, raced, overlapped>>

\* ... and the assignment to id.
OnceAssign(id) ==
  /\ id \in once \ known
  /\ known' = known \cup {id}
  /\ UNCHANGED <<nextID, handlers, once, async, stage, calls, raced, overlapped>>

Off(id) ==
  /\ id \in known \cap handlers
  /\ handlers' = handlers \ {id}
  /\ UNCHANGED <<nextID, once, known, async, stage, calls, raced, overlapped>>

\* A call of Emit that has not started.
Fresh(e) == \A h \in Ids : stage[e][h] = "none"

\* Handlers of Once that some call has copied and not begun to run.
Waiting == {h \in once : \E e \in Emits : stage[e][h] = "todo"}

Emit(e) ==
  /\ Fresh(e) /\ handlers # {}
  /\ stage' = [stage EXCEPT ![e] = [h \in Ids |-> IF h \in handlers THEN "todo" ELSE "none"]]
  /\ async' \in {async, async \cup {e}}
  /\ overlapped' = overlapped \cup (Waiting \cap handlers)
  /\ UNCHANGED <<nextID, handlers, once, known, calls, raced>>

\* Emit calls one handler after the other, in any order; EmitAsync gives each
\* its own goroutine.
MayCall(e) == e \in async \/ \A h \in Ids : stage[e][h] # "off"

\* The handler of Once: Off with whatever id holds by now, zero at first.
Removed_Never(h) == {}
Removed(h) == IF h \in known THEN {h} ELSE {}

CallOff(e, h) ==
  /\ stage[e][h] = "todo" /\ h \in once /\ MayCall(e)
  /\ handlers' = handlers \ Removed(h)
  /\ raced' = IF h \in known THEN raced ELSE raced \cup {h}
  /\ stage' = [stage EXCEPT ![e][h] = "off"]
  /\ UNCHANGED <<nextID, once, known, async, calls, overlapped>>

CallHandler(e, h) ==
  /\ \/ stage[e][h] = "todo" /\ h \notin once /\ MayCall(e)
     \/ stage[e][h] = "off"
  /\ calls' = [calls EXCEPT ![h] = @ + 1]
  /\ stage' = [stage EXCEPT ![e][h] = "done"]
  /\ UNCHANGED <<nextID, handlers, once, known, async, raced, overlapped>>

-----------------------------------------------------------------------------

Next ==
  \/ On \/ Once
  \/ \E id \in Ids : OnceAssign(id) \/ Off(id)
  \/ \E e \in Emits : Emit(e) \/ \E h \in Ids : CallOff(e, h) \/ CallHandler(e, h)

Spec == Init /\ [][Next]_vars

-----------------------------------------------------------------------------
(* Properties *)

\* Every variable stays in its range; nothing refers to an id not handed out.
TypeOK ==
  /\ nextID \in Nat /\ handlers \subseteq Ids \cap 1..nextID
  /\ once \subseteq Ids \cap 1..nextID /\ known \subseteq Ids \cap 1..nextID
  /\ async \subseteq Emits
  /\ stage \in [Emits -> [Ids -> {"none", "todo", "off", "done"}]]
  /\ calls \in [Ids -> Nat] /\ raced \subseteq once /\ overlapped \subseteq once
  /\ \A h \in Ids : h > nextID => calls[h] = 0 /\ \A e \in Emits : stage[e][h] = "none"

\* A handler registered with Once runs at most once, unless two calls of Emit
\* had both copied it before either reached Off, or it was called before Once
\* had assigned id. In that last case only does it stay registered.
OnceRunsOnce ==
  \A h \in once :
    /\ calls[h] > 1 => h \in raced \cup overlapped
    /\ calls[h] > 0 /\ h \in handlers => h \in raced

=============================================================================
