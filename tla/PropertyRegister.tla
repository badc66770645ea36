--------------------------- MODULE PropertyRegister ---------------------------
(***************************************************************************)
(* What the library's synchronous calls promise about ConnMan's            *)
(* properties, with no request, reply, error or bus: an operation has at   *)
(* most one effect, at one moment between its call and its return, and     *)
(* what it returns is the outcome of that effect.  An operation that fails *)
(* may leave a write behind that takes effect later; one that succeeds     *)
(* never does.                                                             *)
(***************************************************************************)
CONSTANTS
    Threads,    \* the threads that call
    Objects,    \* the manager, technologies and services
    Values,     \* what a property may be
    Drifting,   \* the objects that ConnMan changes by itself
    Operations  \* records with the fields kind, on (a set of objects) and value

VARIABLES
    prop,       \* prop[o]: the property of o, Absent while there is no o
    op,         \* op[t]: the operation of thread t
    effect,     \* effect[t]: what it has done so far
    answer,     \* answer[t]: what it has returned, Unanswered until then
    late        \* writes of operations that have failed

registerVars == <<prop, op, effect, answer, late>>

Absent == "absent"
None == [kind |-> "none", got |-> <<>>]
Unanswered == [over |-> FALSE, ok |-> FALSE, got |-> <<>>]
NoOperation == [kind |-> "none", on |-> {}, value |-> Absent]

RegisterInit ==
    /\ prop \in [Objects -> Values \cup {Absent}]
    /\ op = [t \in Threads |-> NoOperation]
    /\ effect = [t \in Threads |-> None]
    /\ answer = [t \in Threads |-> Unanswered]
    /\ late = {}

Present(S) == {o \in S : o \in Objects /\ prop[o] # Absent}
Seen(S) == [o \in Present(S) |-> prop[o]]
Writes(p) == {[on |-> o, value |-> p.value] : o \in p.on}

Call(t, p) ==
    /\ op[t].kind = "none" \/ answer[t].over
    /\ op' = [op EXCEPT ![t] = p]
    /\ effect' = [effect EXCEPT ![t] = None]
    /\ answer' = [answer EXCEPT ![t] = Unanswered]
    /\ UNCHANGED <<prop, late>>

Has(t, kind, got) == effect' = [effect EXCEPT ![t] = [kind |-> kind, got |-> got]]

(* What the operations may do: a list is read whole, one property is read,  *)
(* "test" and "ensure" find a property as they want it, "ensure" and        *)
(* "write" write it, "run" does something else to an object; or the object  *)
(* is not there.                                                            *)
Outcome(t) ==
    LET p == op[t] IN
    \/ /\ p.kind = "list" \/ (p.kind = "read" /\ Present(p.on) = p.on)
       /\ Has(t, "read", Seen(p.on))
       /\ UNCHANGED prop
    \/ /\ p.kind \in {"test", "ensure"}
       /\ Present(p.on) = p.on
       /\ \A o \in p.on : prop[o] = p.value
       /\ Has(t, "found", <<>>)
       /\ UNCHANGED prop
    \/ /\ p.kind \in {"ensure", "write"}
       /\ Present(p.on) = p.on
       /\ Has(t, "written", <<>>)
       /\ prop' = [o \in Objects |-> IF o \in p.on THEN p.value ELSE prop[o]]
    \/ /\ p.kind = "run"
       /\ Present(p.on) = p.on
       /\ Has(t, "ran", <<>>)
       /\ UNCHANGED prop
    \/ /\ p.kind # "list"
       /\ Present(p.on) # p.on
       /\ Has(t, "gone", <<>>)
       /\ UNCHANGED prop

Effect(t) ==
    /\ ~answer[t].over
    /\ effect[t].kind = "none"
    /\ Outcome(t)
    /\ UNCHANGED <<op, answer, late>>

(* A write is given up: it may still take effect.                           *)
Abandon(t) ==
    /\ ~answer[t].over
    /\ effect[t].kind = "none"
    /\ op[t].kind \in {"ensure", "write"}
    /\ Has(t, "lost", <<>>)
    /\ late' = late \cup Writes(op[t])
    /\ UNCHANGED <<prop, op, answer>>

Succeed(t) ==
    /\ ~answer[t].over
    /\ effect[t].kind \in {"read", "found", "written", "ran"}
    /\ answer' = [answer EXCEPT ![t] = [over |-> TRUE, ok |-> TRUE, got |-> effect[t].got]]
    /\ UNCHANGED <<prop, op, effect, late>>

Fail(t) ==
    /\ ~answer[t].over
    /\ op[t].kind # "none"
    /\ answer' = [answer EXCEPT ![t] = [over |-> TRUE, ok |-> FALSE, got |-> <<>>]]
    /\ UNCHANGED <<prop, op, effect, late>>

LateWrite(w) ==
    /\ late' = late \ {w}
    /\ \/ prop[w.on] # Absent /\ prop' = [prop EXCEPT ![w.on] = w.value]
       \/ UNCHANGED prop
    /\ UNCHANGED <<op, effect, answer>>

Drift(o) ==
    /\ \E v \in Values \cup {Absent} : prop' = [prop EXCEPT ![o] = v]
    /\ UNCHANGED <<op, effect, answer, late>>

RegisterNext ==
    \/ \E t \in Threads, p \in Operations : Call(t, p)
    \/ \E t \in Threads : Effect(t) \/ Abandon(t) \/ Succeed(t) \/ Fail(t)
    \/ \E w \in late : LateWrite(w)
    \/ \E o \in Drifting : Drift(o)

RegisterSpec == RegisterInit /\ [][RegisterNext]_registerVars
===============================================================================
