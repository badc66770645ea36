----------------------------- MODULE EventCallbacks -----------------------------
(***************************************************************************)
(* Events from D-Bus to the application's callbacks: callback_add,         *)
(* run_manager_callbacks, run_property_callbacks, the three signal         *)
(* callbacks (src/api.c), connman_add_agent_event_callback and             *)
(* run_callback (src/connman-agent.c).                                     *)
(*                                                                         *)
(* One handler thread dispatches what arrives on the bus.  A signal is     *)
(* none, one or several events; for each of them the thread takes the      *)
(* mutex of a list of callbacks and keeps it while it runs every callback  *)
(* of the list.  Any thread may register a callback at any time, a         *)
(* callback too.  Callbacks are never removed.                             *)
(***************************************************************************)
EXTENDS Naturals, Sequences, FiniteSets, Functions

CONSTANTS
    AppThreads, \* threads of the application
    Handler,    \* the thread of connman_handler_func
    Entries,    \* registrations of callbacks; bound: so many are made
    Nobody,     \* the owner of an unlocked mutex
    Signals,    \* what ConnMan may send (see EventsOf)
    MaxSignals, \* bound: how many signals it sends
    Nests       \* <<l, m>>: callbacks in list l may register one in list m

Threads == AppThreads \cup {Handler}

(* connman_manager_callbacks, connman_technology_callbacks,                 *)
(* connman_service_callbacks, and agent_event_cb as a list of at most one.  *)
Lists == {"manager", "technology", "service", "agent"}

(* What a signal of the bus is to the library: the list its events go to,   *)
(* whether object path and interface are the expected ones, its name, and   *)
(* for ServicesChanged, for each changed service, whether any of its        *)
(* properties changed, and how many services are removed.                   *)
SignalRecords ==
    [list : Lists, expected : BOOLEAN, name : STRING, changed : Seq(BOOLEAN), removed : Nat]

ASSUME ECAssumption ==
    /\ IsFiniteSet(AppThreads)
    /\ IsFiniteSet(Entries)
    /\ Handler \notin AppThreads
    /\ Nobody \notin Threads
    /\ MaxSignals \in Nat
    /\ Signals \subseteq SignalRecords
    /\ Nests \subseteq Lists \X Lists

VARIABLES
    mutex,      \* mutex[l]: the thread that holds the mutex of list l
    callbacks,  \* callbacks[l]: its entries
    want,       \* want[t]: the list t is registering a callback in, or "none"
    wire,       \* signals sent and not dispatched yet
    sent,       \* how many signals were sent
    hpc,        \* where the handler thread is
    target,     \* the list whose callbacks it runs
    todo,       \* the events of the current signal that are not over yet
    pos,        \* the position in the list
    log,        \* history, log[l]: the events the callbacks of l were run for
    heard,      \* history: the signal dispatched last
    mark,       \* history: Len(log[heard.list]) when it was
    start,      \* history, start[e]: Len(log[l]) when e was registered in l
    got         \* history, got[e]: the positions in log[l] e was run for

listVars == <<mutex, callbacks, want>>
busVars == <<wire, sent>>
hVars == <<hpc, target, todo, pos>>
newsVars == <<heard, mark>>
histVars == <<log, newsVars, start, got>>
vars == <<listVars, busVars, hVars, histVars>>

-------------------------------------------------------------------------------
(* The event a signal of one event stands for, for the names each signal    *)
(* callback knows.                                                          *)
SimpleEvent == [
    manager    |-> [TechnologyAdded   |-> "TECHNOLOGY_ADD",
                    TechnologyRemoved |-> "TECHNOLOGY_REMOVE",
                    PropertyChanged   |-> "PROPERTY_CHANGE"],
    technology |-> [PropertyChanged   |-> "PROPERTY"],
    service    |-> [PropertyChanged   |-> "PROPERTY"],
    agent      |-> [RequestInput      |-> "INPUT"]]

(* The two arrays of ServicesChanged, in the order they are gone through:   *)
(* an event is a kind and the position of its service in its array.         *)
(* Variant: the removed services first.                                     *)
ServiceEventsRemovedFirst(s) ==
    [i \in 1..s.removed |-> <<"SERVICE_REMOVE", i>>]
        \o [i \in 1..Len(s.changed) |-> <<"SERVICE_CHANGE", i>>]

ServiceEvents(s) ==
    [i \in 1..Len(s.changed) |-> <<"SERVICE_CHANGE", i>>]
        \o [i \in 1..s.removed |-> <<"SERVICE_REMOVE", i>>]

(* The events a signal may stand for, in the order the handler comes to     *)
(* them; none for a signal the library does not expect or does not know.    *)
EventsOf(s) ==
    LET known == SimpleEvent[s.list]
    IN  IF ~s.expected THEN <<>>
        ELSE IF s.list = "manager" /\ s.name = "ServicesChanged" THEN ServiceEvents(s)
        ELSE IF s.name \in DOMAIN known THEN <<<<known[s.name], 1>>>>
        ELSE <<>>

Events == UNION {Range(EventsOf(s)) : s \in Signals}

(* No signal was dispatched yet.                                            *)
NoSignal ==
    [list |-> "none", expected |-> FALSE, name |-> "none", changed |-> <<>>, removed |-> 0]

Registered == UNION {Range(callbacks[l]) : l \in Lists}

Init ==
    /\ mutex = [l \in Lists |-> Nobody]
    /\ callbacks = [l \in Lists |-> <<>>]
    /\ want = [t \in Threads |-> "none"]
    /\ wire = <<>>
    /\ sent = 0
    /\ hpc = "loop"
    /\ target = "none"
    /\ todo = <<>>
    /\ pos = 0
    /\ log = [l \in Lists |-> <<>>]
    /\ heard = NoSignal
    /\ mark = 0
    /\ start = [e \in Entries |-> 0]
    /\ got = [e \in Entries |-> <<>>]

-------------------------------------------------------------------------------
Registering == {t \in Threads : want[t] # "none"}

(* Bound: there is an entry for every registration that has begun.          *)
MayRegister ==
    Cardinality(Registered) + Cardinality(Registering) < Cardinality(Entries)

NewEntry == CHOOSE e \in Entries : e \notin Registered

(* A thread calls one of the registration functions ...                     *)
AddBegin(t, l) ==
    /\ want[t] = "none"
    /\ t = Handler => hpc = "in_cb" /\ <<target, l>> \in Nests
    /\ MayRegister
    /\ want' = [want EXCEPT ![t] = l]
    /\ UNCHANGED <<mutex, callbacks, busVars, hVars, histVars>>

(* A new entry at the end of the list.                                      *)
Enter(l) ==
    /\ callbacks' = [callbacks EXCEPT ![l] = Append(@, NewEntry)]
    /\ start' = [start EXCEPT ![NewEntry] = Len(log[l])]

(* Variants: the mutex is not taken; the entry goes to the front.           *)
AddEntryUnlocked(t) ==
    /\ want[t] \in Lists \ {"agent"}
    /\ Enter(want[t])
    /\ want' = [want EXCEPT ![t] = "none"]
    /\ UNCHANGED <<mutex, busVars, hVars, log, newsVars, got>>

AddEntryInFront(t) ==
    /\ want[t] \in Lists \ {"agent"}
    /\ mutex[want[t]] = Nobody
    /\ callbacks' = [callbacks EXCEPT ![want[t]] = <<NewEntry>> \o @]
    /\ start' = [start EXCEPT ![NewEntry] = Len(log[want[t]])]
    /\ want' = [want EXCEPT ![t] = "none"]
    /\ UNCHANGED <<mutex, busVars, hVars, log, newsVars, got>>

(* ... and gets the mutex.                                                  *)
AddEntry(t) ==
    /\ want[t] \in Lists \ {"agent"}
    /\ mutex[want[t]] = Nobody
    /\ Enter(want[t])
    /\ want' = [want EXCEPT ![t] = "none"]
    /\ UNCHANGED <<mutex, busVars, hVars, log, newsVars, got>>

(* There is one agent callback: a second one is ignored.                    *)
AddAgentEntry(t) ==
    /\ want[t] = "agent"
    /\ mutex["agent"] = Nobody
    /\ want' = [want EXCEPT ![t] = "none"]
    /\ IF callbacks["agent"] = <<>>
       THEN Enter("agent")
       ELSE UNCHANGED <<callbacks, start>>
    /\ UNCHANGED <<mutex, busVars, hVars, log, newsVars, got>>

-------------------------------------------------------------------------------
(* ConnMan and the bus: signals arrive in the order they were sent.         *)
Send(s) ==
    /\ sent < MaxSignals
    /\ sent' = sent + 1
    /\ wire' = Append(wire, s)
    /\ UNCHANGED <<listVars, hVars, histVars>>

-------------------------------------------------------------------------------
(* The handler thread.                                                      *)

(* The event in hand is over: the next one, or back to the loop.            *)
NextEvent ==
    /\ todo' = Tail(todo)
    /\ IF todo' = <<>>
       THEN hpc' = "loop" /\ target' = "none"
       ELSE hpc' = "lock" /\ UNCHANGED target

Dispatch ==
    /\ hpc = "loop"
    /\ wire # <<>>
    /\ wire' = Tail(wire)
    /\ heard' = Head(wire)
    /\ mark' = Len(log[Head(wire).list])
    /\ todo' = EventsOf(Head(wire))
    /\ IF todo' = <<>>
       THEN UNCHANGED <<hpc, target>>
       ELSE hpc' = "lock" /\ target' = Head(wire).list
    /\ UNCHANGED <<listVars, sent, pos, log, start, got>>

(* A changed service without properties is passed over.                     *)
Silent(event) == event[1] = "SERVICE_CHANGE" /\ ~heard.changed[event[2]]

SkipService ==
    /\ hpc = "lock"
    /\ Silent(Head(todo))
    /\ NextEvent
    /\ UNCHANGED <<listVars, busVars, pos, histVars>>

LockList ==
    /\ hpc = "lock"
    /\ ~Silent(Head(todo))
    /\ mutex[target] = Nobody
    /\ mutex' = [mutex EXCEPT ![target] = Handler]
    /\ log' = [log EXCEPT ![target] = Append(@, Head(todo))]
    /\ pos' = 1
    /\ hpc' = "run"
    /\ UNCHANGED <<callbacks, want, busVars, target, todo, newsVars, start, got>>

RunCallback ==
    /\ hpc = "run"
    /\ pos <= Len(callbacks[target])
    /\ got' = [got EXCEPT ![callbacks[target][pos]] = Append(@, Len(log[target]))]
    /\ hpc' = "in_cb"
    /\ UNCHANGED <<listVars, busVars, target, todo, pos, log, newsVars, start>>

CallbackReturns ==
    /\ hpc = "in_cb"
    /\ want[Handler] = "none"
    /\ pos' = pos + 1
    /\ hpc' = "run"
    /\ UNCHANGED <<listVars, busVars, target, todo, histVars>>

(* Variant: the mutex is not released.                                      *)
UnlockListKeeping ==
    /\ hpc = "run"
    /\ pos > Len(callbacks[target])
    /\ pos' = 0
    /\ NextEvent
    /\ UNCHANGED <<listVars, busVars, histVars>>

UnlockList ==
    /\ hpc = "run"
    /\ pos > Len(callbacks[target])
    /\ mutex' = [mutex EXCEPT ![target] = Nobody]
    /\ pos' = 0
    /\ NextEvent
    /\ UNCHANGED <<callbacks, want, busVars, histVars>>

-------------------------------------------------------------------------------
Add(t) ==
    \/ \E l \in Lists : AddBegin(t, l)
    \/ AddEntry(t)
    \/ AddAgentEntry(t)

HandlerStep ==
    \/ Dispatch
    \/ SkipService
    \/ LockList
    \/ RunCallback
    \/ CallbackReturns
    \/ UnlockList

Next ==
    \/ \E t \in Threads : Add(t)
    \/ \E s \in Signals : Send(s)
    \/ HandlerStep

Spec == Init /\ [][Next]_vars

AddEnds(t) == AddEntry(t) \/ AddAgentEntry(t)

(* The handler thread keeps running, callbacks return (also one that keeps  *)
(* registering), and a thread that waits for a mutex gets it some time,     *)
(* even if others keep taking it.                                           *)
FairSpec ==
    /\ Spec
    /\ WF_vars(Dispatch \/ SkipService \/ RunCallback \/ UnlockList)
    /\ SF_vars(CallbackReturns)
    /\ SF_vars(LockList)
    /\ \A t \in Threads : SF_vars(AddEnds(t))

-------------------------------------------------------------------------------
(* Type invariant; a mutex is held between steps only while the callbacks   *)
(* of its list are run.                                                     *)
TypeOK ==
    /\ mutex = [l \in Lists |->
                   IF l = target /\ hpc \in {"run", "in_cb"} THEN Handler ELSE Nobody]
    /\ callbacks \in [Lists -> Seq(Entries)]
    /\ want \in [Threads -> Lists \cup {"none"}]
    /\ wire \in Seq(Signals)
    /\ sent \in 0..MaxSignals
    /\ hpc \in {"loop", "lock", "run", "in_cb"}
    /\ target \in Lists \cup {"none"}
    /\ todo \in Seq(Events)
    /\ pos \in Nat
    /\ log \in [Lists -> Seq(Events)]
    /\ heard \in Signals \cup {NoSignal}
    /\ mark \in Nat
    /\ start \in [Entries -> Nat]
    /\ got \in [Entries -> Seq(Nat \ {0})]

(* A callback is run for every event of its list from its registration on,  *)
(* once and in order, however registrations race with the events of one     *)
(* signal: what it got are consecutive events, and while nobody runs the    *)
(* list nothing is missing.                                                 *)
NoEventLost ==
    \A l \in Lists : \A e \in Range(callbacks[l]) :
        /\ \A i \in 1..Len(got[e]) : got[e][i] = start[e] + i
        /\ mutex[l] = Nobody => start[e] + Len(got[e]) = Len(log[l])

(* ServicesChanged is several events, and the mutex is free between them.   *)
(* When the signal is handled, every callback registered before it was      *)
(* dispatched has been told of each changed service that has properties and *)
(* of each removed one, once, and of nothing else, of the changed services  *)
(* first and of each array in its order.                                    *)
Before(x, y) ==
    \/ x[1] = "SERVICE_CHANGE" /\ y[1] = "SERVICE_REMOVE"
    \/ x[1] = y[1] /\ x[2] < y[2]

ServicesOf(s) ==
    {<<"SERVICE_CHANGE", i>> : i \in {j \in DOMAIN s.changed : s.changed[j]}}
        \cup {<<"SERVICE_REMOVE", i>> : i \in 1..s.removed}

ServicesAreReported ==
    hpc = "loop" /\ heard.expected /\ heard.list = "manager" /\ heard.name = "ServicesChanged" =>
        \A e \in Range(callbacks["manager"]) : start[e] <= mark =>
            LET told == {k \in Range(got[e]) : k > mark}
            IN  /\ {log["manager"][k] : k \in told} = ServicesOf(heard)
                /\ \A j, k \in told : j < k => Before(log["manager"][j], log["manager"][k])

(* A list does not change while its callbacks are run, although a callback  *)
(* may register others: the handler thread iterates over it with the mutex  *)
(* held.                                                                    *)
ListStableWhileRun ==
    [][\A l \in Lists : mutex[l] = Handler => callbacks'[l] = callbacks[l]]_vars

(* "registration calls may briefly block if they occur during processing of *)
(* an associated event" (README.md:38): they end, also when they are made   *)
(* from a callback.                                                         *)
RegistrationEnds == \A t \in Threads : want[t] # "none" ~> want[t] = "none"

(* The one way for a registration, or the handler thread, to wait for ever: *)
(* a callback registers another in the list it is run for.  Any other       *)
(* registration ends, from whatever thread or callback it is made ...       *)
SelfBlocked == hpc = "in_cb" /\ want[Handler] = target

OtherRegistrationsEnd ==
    \A t \in Threads : want[t] # "none" ~> (want[t] = "none" \/ SelfBlocked)

(* ... and every signal is dispatched and its events are over some time.    *)
SignalsAreHandled ==
    (wire # <<>> \/ hpc # "loop") ~> ((wire = <<>> /\ hpc = "loop") \/ SelfBlocked)

Cursor == [e \in Entries |-> start[e] + Len(got[e])]
Feed == INSTANCE EventFeed WITH Topics <- Lists, readers <- callbacks, cursor <- Cursor

ImplementsFeed == Feed!FeedSpec

-------------------------------------------------------------------------------
(* The invariant that the proofs use (EventCallbacksProofs).                *)

(* Where the handler thread is in the list it runs.                         *)
HandlerInv ==
    /\ hpc = "loop" => target = "none" /\ todo = <<>>
    /\ hpc # "loop" => target \in Lists /\ todo # <<>>
    /\ hpc = "run" => pos \in 1..(Len(callbacks[target]) + 1)
    /\ hpc = "in_cb" => pos \in 1..Len(callbacks[target])

(* An entry is in one list, once; there is one for each registration.       *)
EntriesInv ==
    /\ \A l, m \in Lists : \A i \in 1..Len(callbacks[l]), j \in 1..Len(callbacks[m]) :
           callbacks[l][i] = callbacks[m][j] => l = m /\ i = j
    /\ Cardinality(Registered) + Cardinality(Registering) <= Cardinality(Entries)

(* What each callback has been run for: the event of the list that is being *)
(* run is still due at the positions the handler thread has not reached.    *)
Due(l, i) ==
    IF l = target /\ ((hpc = "run" /\ pos <= i) \/ (hpc = "in_cb" /\ pos < i)) THEN 1 ELSE 0

ProgressInv ==
    /\ \A l \in Lists : \A i \in 1..Len(callbacks[l]) :
           LET e == callbacks[l][i]
           IN  /\ start[e] + Len(got[e]) + Due(l, i) = Len(log[l])
               /\ \A j \in 1..Len(got[e]) : got[e][j] = start[e] + j
    /\ \A e \in Entries \ Registered : start[e] = 0 /\ got[e] = <<>>

ECInv == TypeOK /\ HandlerInv /\ EntriesInv /\ ProgressInv

(* What the log has of the signal dispatched last: those of its events that *)
(* the handler thread has come to, the one in hand included, and that are   *)
(* not passed over; each once, in the order of the signal.                  *)
Past == Len(EventsOf(heard)) - Len(todo) + (IF hpc \in {"run", "in_cb"} THEN 1 ELSE 0)

News == (mark + 1)..Len(log[heard.list])

NewsInv ==
    LET events == EventsOf(heard)
        said == log[heard.list]
    IN  IF heard = NoSignal THEN hpc = "loop"
        ELSE /\ hpc # "loop" => target = heard.list
             /\ Len(todo) <= Len(events)
             /\ \A i \in 1..Len(todo) : todo[i] = events[Len(events) - Len(todo) + i]
             /\ mark <= Len(said)
             /\ \A k \in News : \E i \in 1..Past : said[k] = events[i] /\ ~Silent(events[i])
             /\ \A i \in 1..Past : ~Silent(events[i]) => \E k \in News : said[k] = events[i]
             /\ \A j, k \in News : j < k => Before(said[j], said[k])
===============================================================================
