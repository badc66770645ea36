---------------------------- MODULE PropertyCalls ----------------------------
(***************************************************************************)
(* The synchronous calls of the API: getters, setters, enable and disable, *)
(* scan, move, remove and disconnect (src/api.c) over connman_call,        *)
(* connman_get_properties and the *_property_internal functions            *)
(* (src/connman-call.c), on any number of threads.                         *)
(*                                                                         *)
(* A call makes at most two requests to ConnMan, each ended by a reply, an *)
(* error or the time-out, and leaves a GError that the API prints.         *)
(* ConnMan and the bus are external; an object has one property here.      *)
(***************************************************************************)
EXTENDS Naturals, FiniteSets

CONSTANTS
    Threads,        \* the threads that call, the handler thread among them
    Manager,        \* ConnMan's manager,
    Technologies,   \* its technologies
    Services,       \* and its services
    NULL,           \* no technology or service
    Drifting,       \* the objects ConnMan changes, adds or removes by itself
    Starts,         \* what the properties may be at first
    ApiCalls,       \* ApiCalls[t]: the calls the application makes on thread t
    MaxCalls        \* how many calls are made, at most

VARIABLES
    g_connman_state,    \* whether connman_get_state() returns a state
    prop,       \* prop[o]: the property of o, Absent while ConnMan has no o
    late,       \* requests to write for which nobody waits any more
    begun,      \* how many calls were made
    pc,         \* pc[t]: where thread t is
    call,       \* call[t]: the call it makes, or made last
    ns,         \* ns[t]: whether connman_get_state() gave it a state
    request,    \* request[t]: the request of t: "list", "set", "run" or "none"
    reply,      \* reply[t]: how it has ended
    error,      \* error[t]: its GError
    result,     \* result[t]: what its call has returned
    effect      \* history: what ConnMan has done for the call of t

threadVars == <<pc, call, ns, error, result>>
busVars == <<request, reply, effect, prop, late>>
vars == <<g_connman_state, begun, threadVars, busVars>>

-------------------------------------------------------------------------------
Objects == {Manager} \cup Technologies \cup Services
Values == {"on", "off"}
Absent == "absent"

(* What each call does to what it is about: it lists objects, reads a       *)
(* property, tests whether it has a value, makes it have one, writes it, or *)
(* runs a method of the object.                                             *)
KindOf == [
    connman_get_technologies |-> "list", connman_get_services |-> "list",
    connman_manager_get_state |-> "read", connman_get_property |-> "read",
    connman_manager_get_online |-> "test",
    connman_technology_enable |-> "ensure", connman_technology_disable |-> "ensure",
    connman_manager_set_offline |-> "write", connman_set_property |-> "write",
    connman_technology_scan_services |-> "run", connman_service_move |-> "run",
    connman_service_remove |-> "run", connman_service_disconnect |-> "run"]

(* The access type that each function passes on; two are given it.          *)
AccessTypes == [
    connman_manager_get_state |-> {"manager"}, connman_manager_get_online |-> {"manager"},
    connman_manager_set_offline |-> {"manager"}, connman_get_technologies |-> {"technology"},
    connman_technology_enable |-> {"technology"}, connman_technology_disable |-> {"technology"},
    connman_technology_scan_services |-> {"technology"}, connman_get_services |-> {"service"},
    connman_service_move |-> {"service"}, connman_service_remove |-> {"service"},
    connman_service_disconnect |-> {"service"},
    connman_get_property |-> {"manager", "technology", "service"},
    connman_set_property |-> {"manager", "technology", "service"}]

(* What comes with it: never an argument for the manager.                   *)
TypeArgs == [manager |-> {NULL}, technology |-> Technologies \cup {NULL},
             service |-> Services \cup {NULL}]

Calls == {c \in [
    fn          : DOMAIN KindOf,
    access_type : {"manager", "technology", "service"},
    type_arg    : Technologies \cup Services \cup {NULL},
    value       : Values \cup {Absent},  \* what it tests for or writes
    complete    : BOOLEAN] : \* whether the arguments the API function tests are given
        /\ c.access_type \in AccessTypes[c.fn]
        /\ c.type_arg \in TypeArgs[c.access_type]
        /\ KindOf[c.fn] \in {"test", "ensure", "write"} => c.value # Absent}

ASSUME PCAssumption ==
    /\ ApiCalls \in [Threads -> SUBSET Calls]
    /\ Starts \subseteq [Objects -> Values \cup {Absent}]
    /\ Drifting \subseteq Objects
    /\ MaxCalls \in Nat
    /\ NULL \notin Objects

Kind(t) == KindOf[call[t].fn]

(* The objects in the list that connman_get_properties asks for, and the    *)
(* ones the call is about.                                                  *)
Listed(c) ==
    [manager |-> {Manager}, technology |-> Technologies, service |-> Services][c.access_type]

Target(c) == IF c.access_type = "manager" THEN Manager ELSE c.type_arg
Subject(c) == IF KindOf[c.fn] = "list" THEN Listed(c) ELSE {Target(c)}

(* These test for the state before they use it.                             *)
TestsState ==
    {"connman_get_technologies", "connman_get_services",
     "connman_manager_get_state", "connman_manager_get_online"}

(* The functions that print error->message when a call has failed, whether  *)
(* there is an error or not (the others test for one first).                *)
PrintsAnyway ==
    DOMAIN KindOf \ (TestsState \cup {"connman_service_move", "connman_service_remove",
                                      "connman_service_disconnect"})

NoReply == [status |-> "none", props |-> <<>>]
Unanswered == [over |-> FALSE, ok |-> FALSE, got |-> <<>>]
NoEffect == [kind |-> "none", got |-> <<>>]
NoCall == [fn |-> "none", access_type |-> "manager", type_arg |-> NULL,
           value |-> Absent, complete |-> FALSE]

Init ==
    /\ g_connman_state = FALSE
    /\ prop \in Starts
    /\ late = {}
    /\ begun = 0
    /\ pc = [t \in Threads |-> "idle"]
    /\ call = [t \in Threads |-> NoCall]
    /\ ns = [t \in Threads |-> FALSE]
    /\ request = [t \in Threads |-> "none"]
    /\ reply = [t \in Threads |-> NoReply]
    /\ error = [t \in Threads |-> "none"]
    /\ result = [t \in Threads |-> Unanswered]
    /\ effect = [t \in Threads |-> NoEffect]

(* Nothing happens any more once the process has crashed.                   *)
Alive == \A t \in Threads : pc[t] # "crashed"

-------------------------------------------------------------------------------
(* The library, on thread t.                                                *)

At(t, place) == Alive /\ pc[t] = place

Goto(t, place) == pc' = [pc EXCEPT ![t] = place]

(* connman_get_state().                                                     *)
Begin(t) ==
    /\ At(t, "idle")
    /\ begun < MaxCalls
    /\ begun' = begun + 1
    /\ \E c \in ApiCalls[t] : call' = [call EXCEPT ![t] = c]
    /\ ns' = [ns EXCEPT ![t] = g_connman_state]
    /\ Goto(t, "check")
    /\ result' = [result EXCEPT ![t] = Unanswered]
    /\ effect' = [effect EXCEPT ![t] = NoEffect]
    /\ UNCHANGED <<g_connman_state, prop, late, request, reply, error>>

(* What no step of a call changes.                                          *)
others == <<g_connman_state, begun, call, ns, prop, late, effect>>

Return(t, ok, got) ==
    /\ Goto(t, "idle")
    /\ result' = [result EXCEPT ![t] = [over |-> TRUE, ok |-> ok, got |-> got]]
    /\ request' = [request EXCEPT ![t] = "none"]
    /\ reply' = [reply EXCEPT ![t] = NoReply]
    /\ error' = [error EXCEPT ![t] = "none"]
    /\ UNCHANGED others

GoOn(t, place) ==
    /\ Goto(t, place)
    /\ UNCHANGED <<others, result, request, reply, error>>

(* Variant: the last error wins.                                            *)
SetErrorOver(old, new) == new

(* g_set_error: over an error that is set it only warns.                    *)
SetError(old, new) == IF old = "none" THEN new ELSE old

FailWith(t, place, e) ==
    /\ Goto(t, place)
    /\ error' = [error EXCEPT ![t] = e]
    /\ UNCHANGED <<others, result, request, reply>>

(* The tests at the head of each API function, and where it goes on.        *)
First == [list |-> "list", read |-> "list", test |-> "list", ensure |-> "list",
          write |-> "set_property", run |-> "run"]

CheckArguments(t) ==
    /\ At(t, "check")
    /\ IF call[t].complete /\ (call[t].fn \in TestsState => ns[t])
       THEN GoOn(t, First[Kind(t)])
       ELSE Return(t, FALSE, <<>>)

(* connman_set_property_internal: without a type_arg, which a manager       *)
(* property never has, it fails and sets no error.                          *)
SetPropertyInternal(t) ==
    /\ At(t, "set_property")
    /\ GoOn(t, IF ns[t] /\ call[t].type_arg # NULL THEN "set" ELSE "report")

(* connman_call, up to g_dbus_connection_call_sync, which uses ns->conn.    *)
OnManager(t) == pc[t] = "list" \/ call[t].access_type = "manager"

(* Variant: a missing technology or service is not noticed.                 *)
MissingArgumentUntested(t) ==
    /\ pc[t] \in {"list", "set", "run"}
    /\ ~OnManager(t) /\ call[t].type_arg = NULL
    /\ GoOn(t, "crashed")

MissingArgument(t) ==
    /\ pc[t] \in {"list", "set", "run"}
    /\ ~OnManager(t) /\ call[t].type_arg = NULL
    /\ FailWith(t, "report", SetError(error[t], "missing_argument"))

SendRequest(t) ==
    /\ pc[t] \in {"list", "set", "run"}
    /\ OnManager(t) \/ call[t].type_arg # NULL
    /\ IF ns[t]
       THEN /\ Goto(t, "wait")
            /\ request' = [request EXCEPT ![t] = pc[t]]
            /\ reply' = [reply EXCEPT ![t] = NoReply]
            /\ UNCHANGED <<others, result, error>>
       ELSE GoOn(t, "crashed")

ConnmanCall(t) == Alive /\ (MissingArgument(t) \/ SendRequest(t))

(* Variant: the errors of ConnMan are not decoded.                          *)
DecodedNot(t) == reply[t].status

(* connman_decode_call_error, by the method that was called.                *)
Decoded(t) ==
    IF reply[t].status # "unknown_object" \/ request[t] = "list" THEN "remote"
    ELSE IF request[t] = "set" THEN "unknown_property"
    ELSE IF call[t].access_type = "technology" THEN "unknown_technology"
    ELSE "unknown_service"

(* The rest of connman_call and of its caller: connman_get_properties sets  *)
(* an error of its own and prints the missing reply, g_variant_print(NULL), *)
(* which GLib survives or not.                                              *)
RequestEnds(t) ==
    /\ At(t, "wait")
    /\ \/ /\ reply[t].status = "ok"
          /\ \/ request[t] # "list" /\ Return(t, TRUE, <<>>)
             \/ request[t] = "list" /\ Kind(t) = "list" /\ Return(t, TRUE, reply[t].props)
             \/ request[t] = "list" /\ Kind(t) # "list" /\ GoOn(t, "find")
       \/ /\ reply[t].status \notin {"none", "ok"}
          /\ IF request[t] = "list"
             THEN \E place \in {"report", "crashed"} :
                     FailWith(t, place,
                         SetError(SetError(error[t], Decoded(t)), "illegal_argument"))
             ELSE FailWith(t, "report", SetError(error[t], Decoded(t)))

(* find_manager_property and find_property, which builds a path of its      *)
(* type_arg first.                                                          *)
NotFound(t) ==
    /\ At(t, "find")
    /\ IF Target(call[t]) = NULL
       THEN GoOn(t, "crashed")
       ELSE /\ Target(call[t]) \notin DOMAIN reply[t].props
            /\ FailWith(t, "report", SetError(error[t], "bad_property"))

(* Variants: the comparison is the wrong way round; a technology that is    *)
(* enabled already is an error.                                             *)
UsePropertySwapped(t, v) ==
    \/ Kind(t) = "read" /\ Return(t, TRUE, [o \in {Target(call[t])} |-> v])
    \/ Kind(t) # "read" /\ v # call[t].value /\ Return(t, Kind(t) = "ensure", <<>>)
    \/ Kind(t) # "read" /\ v = call[t].value /\ GoOn(t, "set_property")

UsePropertyStrict(t, v) ==
    \/ Kind(t) = "read" /\ Return(t, TRUE, [o \in {Target(call[t])} |-> v])
    \/ Kind(t) # "read" /\ v # call[t].value /\ GoOn(t, "set_property")
    \/ Kind(t) # "read" /\ v = call[t].value /\ GoOn(t, "report")

(* What the callers do with the property: connman_technology_set_powered    *)
(* writes it unless it is what it should be.                                *)
UseProperty(t, v) ==
    \/ Kind(t) = "read" /\ Return(t, TRUE, [o \in {Target(call[t])} |-> v])
    \/ Kind(t) = "test" /\ Return(t, v = call[t].value, <<>>)
    \/ Kind(t) = "ensure" /\ v = call[t].value /\ Return(t, TRUE, <<>>)
    \/ Kind(t) = "ensure" /\ v # call[t].value /\ GoOn(t, "set_property")

Find(t) ==
    /\ At(t, "find")
    /\ Target(call[t]) \in DOMAIN reply[t].props
    /\ UseProperty(t, reply[t].props[Target(call[t])])

(* ERROR(..., error->message); return FALSE;                                *)
Report(t) ==
    /\ At(t, "report")
    /\ IF error[t] = "none" /\ call[t].fn \in PrintsAnyway
       THEN GoOn(t, "crashed")
       ELSE Return(t, FALSE, <<>>)

Library(t) ==
    \/ CheckArguments(t)
    \/ SetPropertyInternal(t)
    \/ ConnmanCall(t)
    \/ RequestEnds(t)
    \/ NotFound(t)
    \/ Find(t)
    \/ Report(t)

-------------------------------------------------------------------------------
(* connman_handler_func publishes the state (InitHandshake).                *)
Publish ==
    /\ Alive
    /\ ~g_connman_state
    /\ g_connman_state' = TRUE
    /\ UNCHANGED <<begun, threadVars, busVars>>

(* ConnMan and the bus.  A reply may be under way when the time-out ends    *)
(* the wait for it.                                                         *)
Present(S) == {o \in S : o \in Objects /\ prop[o] # Absent}
Seen(S) == [o \in Present(S) |-> prop[o]]

Waiting(t, what) == At(t, "wait") /\ request[t] = what /\ reply[t].status = "none"

Answer(t, status, props) ==
    /\ reply' = [reply EXCEPT ![t] = [status |-> status, props |-> props]]
    /\ UNCHANGED <<g_connman_state, begun, threadVars, request>>

HasEffect(t, kind, got) == effect' = [effect EXCEPT ![t] = [kind |-> kind, got |-> got]]

(* GetProperties, GetTechnologies, GetServices.                             *)
ListProperties(t) ==
    LET o == Target(call[t])
        k == Kind(t)
    IN
    /\ Waiting(t, "list")
    /\ Answer(t, "ok", Seen(Listed(call[t])))
    /\ \/ k = "list" /\ HasEffect(t, "read", Seen(Listed(call[t])))
       \/ k # "list" /\ Present({o}) = {} /\ HasEffect(t, "gone", <<>>)
       \/ k = "read" /\ Present({o}) # {} /\ HasEffect(t, "read", Seen({o}))
       \/ /\ k \in {"test", "ensure"} /\ Present({o}) # {}
          /\ IF prop[o] = call[t].value
             THEN HasEffect(t, "found", <<>>)
             ELSE UNCHANGED effect
    /\ UNCHANGED <<prop, late>>

SetProperty(t) ==
    LET o == Target(call[t]) IN
    /\ Waiting(t, "set")
    /\ prop[o] # Absent
    /\ prop' = [prop EXCEPT ![o] = call[t].value]
    /\ HasEffect(t, "written", <<>>)
    /\ Answer(t, "ok", <<>>)
    /\ UNCHANGED late

(* Scan, MoveBefore, MoveAfter, Remove, Disconnect.                         *)
RunMethod(t) ==
    /\ Waiting(t, "run")
    /\ prop[Target(call[t])] # Absent
    /\ HasEffect(t, "ran", <<>>)
    /\ Answer(t, "ok", <<>>)
    /\ UNCHANGED <<prop, late>>

UnknownObject(t) ==
    /\ Waiting(t, "set") \/ Waiting(t, "run")
    /\ prop[Target(call[t])] = Absent
    /\ HasEffect(t, "gone", <<>>)
    /\ Answer(t, "unknown_object", <<>>)
    /\ UNCHANGED <<prop, late>>

Refuse(t) ==
    /\ \E what \in {"list", "set", "run"} : Waiting(t, what)
    /\ Answer(t, "failed", <<>>)
    /\ UNCHANGED <<effect, prop, late>>

(* Variant: the wait has no end.                                            *)
NeverTimesOut(t) == FALSE /\ UNCHANGED vars

TimesOut(t) ==
    /\ At(t, "wait")
    /\ reply[t].status # "timeout"
    /\ IF Waiting(t, "set")
       THEN /\ late' = late \cup {[on |-> Target(call[t]), value |-> call[t].value]}
            /\ HasEffect(t, "lost", <<>>)
       ELSE UNCHANGED <<late, effect>>
    /\ Answer(t, "timeout", <<>>)
    /\ UNCHANGED prop

LateWrite ==
    /\ Alive
    /\ \E w \in late :
          /\ late' = late \ {w}
          /\ prop' = [prop EXCEPT ![w.on] = IF @ = Absent THEN Absent ELSE w.value]
    /\ UNCHANGED <<g_connman_state, begun, threadVars, request, reply, effect>>

ConnmanChanges ==
    /\ Alive
    /\ \E o \in Drifting, v \in Values \cup {Absent} :
          /\ o = Manager => v # Absent
          /\ prop' = [prop EXCEPT ![o] = v]
    /\ UNCHANGED <<g_connman_state, begun, threadVars, request, reply, effect, late>>

Connman(t) ==
    ListProperties(t) \/ SetProperty(t) \/ RunMethod(t) \/ UnknownObject(t) \/ Refuse(t)

Next ==
    \/ \E t \in Threads : Begin(t) \/ Library(t) \/ Connman(t) \/ TimesOut(t)
    \/ Publish
    \/ LateWrite
    \/ ConnmanChanges

Spec == Init /\ [][Next]_vars

(* Threads inside the library run and GIO keeps its time-outs; ConnMan may  *)
(* never answer.                                                            *)
FairSpec == Spec /\ \A t \in Threads : WF_vars(Library(t)) /\ WF_vars(TimesOut(t))

-------------------------------------------------------------------------------
(* What may be known of some objects.                                       *)
Listings == UNION {[S -> Values \cup {Absent}] : S \in SUBSET Objects}

(* Type invariant; a thread waits exactly for a request it has sent.        *)
TypeOK ==
    /\ g_connman_state \in BOOLEAN
    /\ prop \in [Objects -> Values \cup {Absent}]
    /\ late \subseteq [on : Technologies \cup Services, value : Values \cup {Absent}]
    /\ begun \in 0..MaxCalls
    /\ pc \in [Threads -> {"idle", "check", "list", "set_property", "set", "run",
                           "wait", "find", "report", "crashed"}]
    /\ call \in [Threads -> Calls \cup {NoCall}]
    /\ ns \in [Threads -> BOOLEAN]
    /\ request \in [Threads -> {"none", "list", "set", "run"}]
    /\ reply \in [Threads -> [
           status : {"none", "ok", "failed", "unknown_object", "timeout"},
           props : Listings]]
    /\ error \in [Threads -> {"none", "missing_argument", "bad_property", "remote",
           "unknown_property", "unknown_technology", "unknown_service"}]
    /\ result \in [Threads -> [over : BOOLEAN, ok : BOOLEAN, got : Listings]]
    /\ effect \in [Threads -> [
           kind : {"none", "read", "found", "written", "ran", "gone", "lost"},
           got : Listings]]
    /\ \A t \in Threads :
          /\ pc[t] = "wait" => request[t] # "none"
          /\ pc[t] = "idle" => reply[t] = NoReply /\ error[t] = "none"

(* The call of a thread as an operation of PropertyRegister.                *)
OperationOf(c) == [kind |-> KindOf[c.fn], on |-> Subject(c), value |-> c.value]
OpOf ==
    [t \in Threads |-> IF call[t] = NoCall
                       THEN [kind |-> "none", on |-> {}, value |-> Absent]
                       ELSE OperationOf(call[t])]

Register == INSTANCE PropertyRegister WITH
    Operations <- {OperationOf(c) : c \in UNION {ApiCalls[t] : t \in Threads}},
    op <- OpOf,
    answer <- result

(* What a call returns is what ConnMan did for it at one moment of the      *)
(* call: TRUE from enable means that the technology was enabled then,       *)
(* though another thread may have disabled it since; a value was the        *)
(* object's value, not another's; only a call that fails leaves a write     *)
(* behind.                                                                  *)
ImplementsRegister == Register!RegisterSpec

IsReal(t) ==
    effect[t].kind \in {"read", "found", "written", "ran"} => reply[t].status = "timeout"

(* A call that ConnMan has carried out fails only if the reply came too     *)
(* late: no later step turns a success into FALSE.                          *)
FailureIsReal == \A t \in Threads : pc[t] = "report" => IsReal(t)

NamesCause(t) ==
    /\ error[t] # "illegal_argument"  \* it only comes after another one
    /\ error[t] = "none" => call[t].type_arg = NULL \/ ~ns[t]
    /\ error[t] = "missing_argument" => call[t].type_arg = NULL
    /\ error[t] = "remote" => reply[t].status \in {"failed", "timeout"}
    /\ error[t] \in {"bad_property", "unknown_property"} =>
           effect[t].kind = "gone" /\ Kind(t) # "run"
    /\ error[t] \in {"unknown_technology", "unknown_service"} =>
           effect[t].kind = "gone" /\ Kind(t) = "run"

(* The error that is printed is the first one, and names what was wrong: an *)
(* unknown property, technology or service only if ConnMan did not have the *)
(* object, a missing argument only if it is missing.                        *)
ErrorNamesCause == \A t \in Threads : pc[t] = "report" => NamesCause(t)

IsExplained(t) ==
    \/ ~ns[t] /\ call[t].fn \notin TestsState
    \/ Kind(t) = "write" /\ call[t].type_arg = NULL
    \/ Kind(t) \in {"read", "ensure"} /\ Target(call[t]) = NULL
    \/ request[t] = "list" /\ reply[t].status \in {"failed", "timeout"}

(* The ways in which a synchronous call ends the process: the state was not *)
(* published; a setter without a technology or service - also the setters   *)
(* of the manager's properties, which have none; a getter or enable without *)
(* one, once the list is there; a list that ConnMan does not give.          *)
CrashIsExplained == \A t \in Threads : pc[t] = "crashed" => IsExplained(t)

(* Every call returns, whether ConnMan answers or not, or the process ends. *)
CallsReturn ==
    \A t \in Threads : pc[t] # "idle" ~> (pc[t] = "idle" \/ ~Alive)

(* "API calls generally return a gboolean, with FALSE indicating failure"   *)
(* (README.md:31): one made once the state is published returns.            *)
FailureIsReturned == \A t \in Threads : pc[t] = "crashed" => ~ns[t]

-------------------------------------------------------------------------------
(* The invariant that the proofs use (PropertyCallsProofs).                 *)

(* What the reply to a list has done for the call: nothing yet, if a        *)
(* property that is to be ensured was found to be different.                *)
ListAgrees(t) ==
    LET o == Target(call[t])
        props == reply[t].props
    IN
    /\ Kind(t) = "list" => effect[t] = [kind |-> "read", got |-> props]
    /\ Kind(t) # "list" /\ o \notin DOMAIN props => effect[t].kind = "gone"
    /\ Kind(t) = "read" /\ o \in DOMAIN props =>
           effect[t] = [kind |-> "read", got |-> [x \in {o} |-> props[o]]]
    /\ Kind(t) \in {"test", "ensure"} /\ o \in DOMAIN props =>
           effect[t] = IF props[o] = call[t].value
                       THEN [kind |-> "found", got |-> <<>>] ELSE NoEffect

(* Each place of the library: the calls that get there ...                  *)
PlaceInv(t) ==
    /\ pc[t] = "idle" => call[t] = NoCall \/ result[t].over
    /\ pc[t] # "idle" => call[t] \in ApiCalls[t] /\ result[t] = Unanswered
    /\ pc[t] \notin {"idle", "check", "crashed"} /\ call[t].fn \in TestsState => ns[t]
    /\ pc[t] \notin {"report", "crashed"} => error[t] = "none"
    /\ pc[t] = "list" => Kind(t) \in {"list", "read", "test", "ensure"}
    /\ pc[t] = "find" => Kind(t) \in {"read", "test", "ensure"}
    /\ pc[t] = "run" => Kind(t) = "run"
    /\ pc[t] \in {"set_property", "set"} => Kind(t) \in {"ensure", "write"}
    /\ pc[t] = "set" => call[t].type_arg # NULL
    /\ pc[t] = "report" /\ error[t] = "none" => Kind(t) \in {"ensure", "write"}

(* ... and what ConnMan has done for them by then.                          *)
RequestInv(t) ==
    /\ pc[t] \in {"check", "list", "set_property", "set", "run"} => effect[t] = NoEffect
    /\ pc[t] = "find" => ListAgrees(t)
    /\ pc[t] = "wait" =>
          /\ ns[t]
          /\ reply[t].status \in {"none", "failed"} => effect[t] = NoEffect
          /\ request[t] = "list" =>
                /\ Kind(t) \in {"list", "read", "test", "ensure"}
                /\ reply[t].status # "unknown_object"
                /\ reply[t].status = "ok" => ListAgrees(t)
          /\ request[t] = "set" =>
                /\ Kind(t) \in {"ensure", "write"}
                /\ reply[t].status = "ok" => effect[t] = [kind |-> "written", got |-> <<>>]
          /\ request[t] = "run" =>
                /\ Kind(t) = "run"
                /\ reply[t].status = "ok" => effect[t] = [kind |-> "ran", got |-> <<>>]
          /\ request[t] \in {"set", "run"} =>
                /\ call[t].type_arg # NULL
                /\ reply[t].status = "unknown_object" => effect[t].kind = "gone"

PCThreadInv(t) ==
    /\ PlaceInv(t)
    /\ RequestInv(t)
    /\ pc[t] = "report" => IsReal(t) /\ NamesCause(t)
    /\ pc[t] = "crashed" => IsExplained(t)

PCInv == TypeOK /\ \A t \in Threads : PCThreadInv(t)
===============================================================================
