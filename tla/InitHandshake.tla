----------------------------- MODULE InitHandshake -----------------------------
(***************************************************************************)
(* connman_init and the threads it starts: connman_init, signal_init_done, *)
(* connman_handler_func, connman_dbus_init, connman_cleanup (src/api.c),   *)
(* connman_register_agent and on_bus_acquired (src/connman-agent.c).       *)
(*                                                                         *)
(* The caller waits, for at most ten seconds, on a condition variable that *)
(* lies in its own stack frame; the handler thread sets the library up,    *)
(* publishes the state the API uses and runs the main loop, from which the *)
(* registration of the agent is completed.  Every acquisition may fail.    *)
(* An application that got FALSE may try again: the handler thread of the  *)
(* first attempt is then still there, or not, and what it does to its      *)
(* init_data it does to whatever is now in that memory.  GIO, the bus and  *)
(* ConnMan are external.                                                   *)
(***************************************************************************)
EXTENDS Naturals, FiniteSets

CONSTANT MaxAttempts    \* how often connman_init is called, at most

ASSUME IHAssumption == MaxAttempts \in Nat \ {0}

Attempts == 1..MaxAttempts

VARIABLES
    reuse,          \* whether every call's init_data lies in the same place
    attempt,        \* the number of the present or last call, 0 before it
    register_agent, \* the argument of every call
    caller,         \* where the thread that calls connman_init is
    mutex,          \* who holds init_data.mutex: "caller", "handler", "none"
    init_done,      \* init_data.init_done
    rc,             \* init_data.rc
    id_ns,          \* init_data.ns: the attempt whose state it is, or 0
    expired,        \* the calls whose ten seconds are over
    result,         \* what connman_init has returned
    hpc,            \* hpc[a]: where the handler thread of attempt a is
    id,             \* id[a]: the attempt whose init_data it uses
    agent_ns,       \* agent_ns[a]: the state it found in init_data, for the agent
    outcome,        \* outcome[a]: the rc it passes to signal_init_done,
    resume,         \* resume[a]: and where it goes on
    held,           \* held[a]: what attempt a holds
    acquired,       \* acquired[a]: its bus-acquired notification: "none", "due", "done"
    loop_owner,     \* the handler thread that runs the default main context, or 0
    g_connman_state,\* the attempt whose state connman_get_state() returns, or 0
    closed_by,      \* the attempts that closed the process's connection to the bus
    failed,         \* history: the attempts of which an acquisition, or the
                    \* registration of the agent, has failed
    stale           \* history: an init_data was used after its call returned

callVars == <<reuse, attempt, register_agent>>
idVars == <<mutex, init_done, rc, id_ns>>
waitVars == <<caller, expired, result>>
reportVars == <<id, agent_ns, outcome, resume>>
libVars == <<held, acquired, loop_owner, g_connman_state, closed_by>>
vars == <<callVars, idVars, waitVars, hpc, reportVars, libVars, failed, stale>>

-------------------------------------------------------------------------------
(* What is acquired, in the order of the code, by the handler thread before *)
(* it runs the main loop, with or without the agent ...                     *)
Acquisitions == [
    main_loop      |-> "ns",
    ns             |-> "conn",
    conn           |-> "manager_sub",
    manager_sub    |-> "technology_sub",
    technology_sub |-> "service_sub",
    service_sub    |-> "set_ns",
    agent_path     |-> "introspection",
    introspection  |-> "bus_name",
    bus_name       |-> "publish"]

(* ... and the labels control goes to when an acquisition fails.            *)
OnFailure == [
    main_loop      |-> "err_no_loop",
    ns             |-> "err_no_ns",
    conn           |-> "err_no_conn",
    manager_sub    |-> "err_no_manager_sub",
    technology_sub |-> "err_no_technology_sub",
    service_sub    |-> "err_no_service_sub",
    agent_path     |-> "err_no_agent",
    introspection  |-> "out_no_introspection_data",
    bus_name       |-> "out_no_bus_name"]

(* Variants: a failed subscription to service signals takes the label of    *)
(* the one before it; it goes unnoticed.                                    *)
FailsShifted(r) == OnFailure[IF r = "service_sub" THEN "technology_sub" ELSE r]
FailsUnnoticed(r) == IF r = "service_sub" THEN "set_ns" ELSE OnFailure[r]

FailsTo(r) == OnFailure[r]

(* What the statement at a label releases, and the label it falls through   *)
(* to; connman_cleanup at err_no_agent releases service_sub and then the    *)
(* same four things as connman_dbus_init's labels.                          *)
Releases == [
    out_no_bus_name           |-> "introspection",
    out_no_introspection_data |-> "agent_path",
    err_no_agent              |-> "service_sub",
    err_no_service_sub        |-> "technology_sub",
    err_no_technology_sub     |-> "manager_sub",
    err_no_manager_sub        |-> "conn",
    err_no_conn               |-> "ns",
    err_no_ns                 |-> "main_loop"]

FallsTo == [
    out_no_bus_name           |-> "out_no_introspection_data",
    out_no_introspection_data |-> "err_no_agent",
    err_no_agent              |-> "err_no_service_sub",
    err_no_service_sub        |-> "err_no_technology_sub",
    err_no_technology_sub     |-> "err_no_manager_sub",
    err_no_manager_sub        |-> "err_no_conn",
    err_no_conn               |-> "err_no_ns",
    err_no_ns                 |-> "err_no_loop"]

Labels == DOMAIN Releases
PreparedLabels == {"out_no_introspection_data", "out_no_bus_name"}
Resources == DOMAIN Acquisitions \cup {"agent_object", "agent"}

(* What is held once the library is connected; what the agent needs; and    *)
(* what it has once ConnMan has accepted it.                                *)
Connected == {"main_loop", "ns", "conn", "manager_sub", "technology_sub", "service_sub"}
Subscriptions == {"manager_sub", "technology_sub", "service_sub"}
Prepared == {"agent_path", "introspection", "bus_name"}
WithAgent == Prepared \cup {"agent_object", "agent"}

Init ==
    /\ reuse \in BOOLEAN
    /\ attempt = 0
    /\ register_agent \in BOOLEAN
    /\ caller = "start"
    /\ mutex = "none"
    /\ init_done = FALSE
    /\ rc = FALSE
    /\ id_ns = 0
    /\ expired = {}
    /\ result = "none"
    /\ hpc = [a \in Attempts |-> "none"]
    /\ id = [a \in Attempts |-> a]
    /\ agent_ns = [a \in Attempts |-> 0]
    /\ outcome = [a \in Attempts |-> FALSE]
    /\ resume = [a \in Attempts |-> "none"]
    /\ held = [a \in Attempts |-> {}]
    /\ acquired = [a \in Attempts |-> "none"]
    /\ loop_owner = 0
    /\ g_connman_state = 0
    /\ closed_by = {}
    /\ failed = {}
    /\ stale = FALSE

(* Nothing happens any more once the process has crashed.                   *)
Alive == \A a \in Attempts : hpc[a] # "crashed"

-------------------------------------------------------------------------------
(* The caller of connman_init, for the first time or after FALSE.           *)
InCall == caller \notin {"start", "returned"}

CallInit ==
    /\ Alive
    /\ caller = "start" \/ result = "FALSE"
    /\ attempt < MaxAttempts
    /\ attempt' = attempt + 1
    /\ mutex' = "none" /\ init_done' = FALSE /\ rc' = FALSE /\ id_ns' = 0
    /\ hpc' = [hpc EXCEPT ![attempt'] = "main_loop"]
    /\ caller' = "lock" /\ result' = "none"
    /\ UNCHANGED <<reuse, register_agent, expired, reportVars, libVars, failed, stale>>

Caller(from, to) ==
    /\ caller = from
    /\ Alive
    /\ caller' = to
    /\ UNCHANGED <<callVars, init_done, rc, id_ns, expired, hpc, reportVars, libVars,
                   failed, stale>>

(* Variants: the wait is not in a loop; its outcome is ignored.             *)
AfterLockOnce == [lock |-> "test", woken |-> "unlock", late |-> "unlock"]
AfterLockAgain == [lock |-> "test", woken |-> "test", late |-> "test"]

(* g_mutex_lock, on the way in and when g_cond_wait_until returns.  A wait  *)
(* that timed out ends the loop without another look at init_done.          *)
AfterLock == [lock |-> "test", woken |-> "test", late |-> "unlock"]

LockId ==
    /\ mutex = "none"
    /\ mutex' = "caller"
    /\ \E place \in DOMAIN AfterLock : Caller(place, AfterLock[place])
    /\ UNCHANGED result

(* while (!id->init_done): waiting releases the mutex.                      *)
TestDone ==
    /\ Caller("test", IF init_done THEN "unlock" ELSE "wait")
    /\ mutex' = IF init_done THEN mutex ELSE "none"
    /\ UNCHANGED result

WaitTimesOut == attempt \in expired /\ Caller("wait", "late") /\ UNCHANGED <<mutex, result>>

(* g_cond_wait_until may return TRUE though nobody signalled, but not when  *)
(* the deadline is already past.                                            *)
WakeSpuriously == attempt \notin expired /\ Caller("wait", "woken") /\ UNCHANGED <<mutex, result>>

UnlockId == Caller("unlock", "check") /\ mutex' = "none" /\ UNCHANGED result

(* Variant: FALSE is not returned for a failure that was reported.          *)
VerdictPartly(b) == IF b THEN "TRUE" ELSE "none"

Verdict(b) == IF b THEN "TRUE" ELSE "FALSE"

(* init_done and rc are read again without the mutex, one after the other.  *)
CheckDone ==
    /\ Caller("check", IF init_done THEN "read_rc" ELSE "returned")
    /\ result' = IF init_done THEN result ELSE Verdict(FALSE)
    /\ UNCHANGED mutex

ReadRc == Caller("read_rc", "returned") /\ result' = Verdict(rc) /\ UNCHANGED mutex

TenSecondsPass ==
    /\ Alive
    /\ InCall
    /\ attempt \notin expired
    /\ expired' = expired \cup {attempt}
    /\ UNCHANGED <<callVars, idVars, caller, result, hpc, reportVars, libVars, failed, stale>>

-------------------------------------------------------------------------------
(* The handler threads.                                                     *)

At(a, place) == hpc[a] = place /\ Alive
Goto(a, place) == hpc' = [hpc EXCEPT ![a] = place]

(* The init_data of attempt b is in use by its own call; or what is in its  *)
(* place is that of the present call; otherwise it may be anything, and the *)
(* process survives its use or not.                                         *)
Live(b) == InCall /\ attempt = b
Hits(b) == InCall /\ (attempt = b \/ reuse)

UseId(a, b, place) ==
    /\ stale' = (stale \/ ~Live(b))
    /\ Goto(a, place) \/ (~Hits(b) /\ Goto(a, "crashed"))

Acquire(a, r) ==
    /\ At(a, r)
    /\ \/ /\ Goto(a, Acquisitions[r])
          /\ held' = [held EXCEPT ![a] = @ \cup {r}]
          /\ UNCHANGED failed
       \/ /\ Goto(a, FailsTo(r))
          /\ failed' = failed \cup {a}
          /\ UNCHANGED held
    /\ UNCHANGED <<callVars, idVars, waitVars, reportVars, acquired, loop_owner,
                   g_connman_state, closed_by, stale>>

(* signal_init_done(id of b, b_rc), to go on at a place after it.           *)
Signal(a, b, b_rc, next) ==
    /\ id' = [id EXCEPT ![a] = b]
    /\ outcome' = [outcome EXCEPT ![a] = b_rc]
    /\ resume' = [resume EXCEPT ![a] = next]

(* Variant: the main loop is run without publishing the state.              *)
UnpublishedLoop == "run_loop"

AfterSignal == "publish"

(* id->ns = ns; ...                                                         *)
SetNs(a) ==
    /\ At(a, "set_ns")
    /\ id_ns' = IF Hits(a) THEN a ELSE id_ns
    /\ UseId(a, a, "choose")
    /\ UNCHANGED <<callVars, mutex, init_done, rc, waitVars, reportVars, libVars, failed>>

(* ... if (id->register_agent) ...                                          *)
ChooseAgent(a) ==
    /\ At(a, "choose")
    /\ \E agent \in IF Hits(a) THEN {register_agent} ELSE BOOLEAN :
          IF agent
          THEN UseId(a, a, "reread_ns") /\ UNCHANGED <<id, outcome, resume>>
          ELSE UseId(a, a, "lock_id") /\ Signal(a, a, TRUE, AfterSignal)
    /\ UNCHANGED <<callVars, idVars, waitVars, agent_ns, libVars, failed>>

(* ... connman_register_agent, which reads id->ns again and prepares the    *)
(* agent in the state it finds there ...                                    *)
RereadNs(a) ==
    LET n == IF Hits(a) THEN id_ns ELSE a IN
    /\ At(a, "reread_ns")
    /\ agent_ns' = [agent_ns EXCEPT ![a] = n]
    /\ UseId(a, a, IF n # 0 THEN "agent_path" ELSE "crashed")
    /\ UNCHANGED <<callVars, idVars, waitVars, id, outcome, resume, libVars, failed>>

(* Things of the state of n are used.  If it was freed meanwhile, or they   *)
(* are no longer there, which only a dead init_data leads to, the process   *)
(* survives that or not.                                                    *)
UseState(a, n, things, place) ==
    Goto(a, place) \/ (~(things \subseteq held[n]) /\ Goto(a, "crashed"))

Prepare(a, r) ==
    LET n == agent_ns[a] IN
    /\ At(a, r)
    /\ \/ /\ UseState(a, n, {"ns"}, Acquisitions[r])
          /\ held' = [held EXCEPT ![n] = @ \cup {r}]
          /\ acquired' = IF r = "bus_name" THEN [acquired EXCEPT ![a] = "due"] ELSE acquired
          /\ UNCHANGED failed
       \/ /\ UseState(a, n, {"ns"}, FailsTo(r))
          /\ failed' = failed \cup {a}
          /\ UNCHANGED <<held, acquired>>
    /\ UNCHANGED <<callVars, idVars, waitVars, reportVars, loop_owner,
                   g_connman_state, closed_by, stale>>

(* ... and its labels, which release from there.                            *)
Unprepare(a, label) ==
    LET n == agent_ns[a] IN
    /\ At(a, label)
    /\ held' = [held EXCEPT ![n] = @ \ {Releases[label]}]
    /\ UseState(a, n, {"ns", Releases[label]}, FallsTo[label])
    /\ UNCHANGED <<callVars, idVars, waitVars, reportVars, acquired, loop_owner,
                   g_connman_state, closed_by, failed, stale>>

(* The labels of connman_handler_func, with connman_cleanup, and of         *)
(* connman_dbus_init close the connection all the process uses.             *)
Unwind(a, label) ==
    /\ At(a, label)
    /\ held' = [held EXCEPT ![a] = @ \ {Releases[label]}]
    /\ closed_by' = IF Releases[label] = "conn" THEN closed_by \cup {a} ELSE closed_by
    /\ Goto(a, FallsTo[label])
    /\ UNCHANGED <<callVars, idVars, waitVars, reportVars, acquired, loop_owner,
                   g_connman_state, failed, stale>>

Fail(a) ==
    /\ At(a, "err_no_loop")
    /\ Goto(a, "lock_id")
    /\ Signal(a, a, FALSE, "exited")
    /\ UNCHANGED <<callVars, idVars, waitVars, agent_ns, libVars, failed, stale>>

(* signal_init_done: the mutex, which in dead memory may never be free, ... *)
SignalLock(a) ==
    /\ At(a, "lock_id")
    /\ IF Hits(id[a])
       THEN mutex = "none" /\ mutex' = "handler" /\ UseId(a, id[a], "set_done")
       ELSE /\ UNCHANGED mutex
            /\ \E place \in {"set_done", "hung"} : UseId(a, id[a], place)
    /\ UNCHANGED <<callVars, init_done, rc, id_ns, waitVars, reportVars, libVars, failed>>

(* ... init_done, ...                                                       *)
SignalSetDone(a) ==
    /\ At(a, "set_done")
    /\ init_done' = (init_done \/ Hits(id[a]))
    /\ UseId(a, id[a], "set_rc")
    /\ UNCHANGED <<callVars, mutex, rc, id_ns, waitVars, reportVars, libVars, failed>>

(* ... rc, ...                                                              *)
SignalSetRc(a) ==
    /\ At(a, "set_rc")
    /\ rc' = IF Hits(id[a]) THEN outcome[a] ELSE rc
    /\ UseId(a, id[a], "signal_cond")
    /\ UNCHANGED <<callVars, mutex, init_done, id_ns, waitVars, reportVars, libVars, failed>>

(* Variant: g_cond_signal is not called.                                    *)
NotSignalled(place) == place

(* g_cond_signal wakes up the caller if it waits.                           *)
Signalled(place) == IF place = "wait" THEN "woken" ELSE place

(* ... the condition, ...                                                   *)
SignalCond(a) ==
    /\ At(a, "signal_cond")
    /\ caller' = IF Hits(id[a]) THEN Signalled(caller) ELSE caller
    /\ UseId(a, id[a], "unlock_id")
    /\ UNCHANGED <<callVars, idVars, expired, result, reportVars, libVars, failed>>

(* ... and the mutex again; GLib ends a process that unlocks what is not    *)
(* locked.                                                                  *)
SignalUnlock(a) ==
    /\ At(a, "unlock_id")
    /\ mutex' = IF Hits(id[a]) THEN "none" ELSE mutex
    /\ \/ UseId(a, id[a], resume[a])
       \/ mutex # "handler" /\ UseId(a, id[a], "crashed")
    /\ Signal(a, a, FALSE, "none")
    /\ UNCHANGED <<callVars, init_done, rc, id_ns, waitVars, agent_ns, libVars, failed>>

(* connman_set_state(ns), ...                                               *)
Publish(a) ==
    /\ At(a, "publish")
    /\ g_connman_state' = a
    /\ Goto(a, "run_loop")
    /\ UNCHANGED <<callVars, idVars, waitVars, reportVars, held, acquired, loop_owner,
                   closed_by, failed, stale>>

(* ... and g_main_loop_run(loop): the first handler thread to get here runs *)
(* the default main context, the others wait for it.                        *)
RunLoop(a) ==
    /\ At(a, "run_loop")
    /\ loop_owner' = IF loop_owner = 0 THEN a ELSE loop_owner
    /\ Goto(a, "loop")
    /\ UNCHANGED <<callVars, idVars, waitVars, reportVars, held, acquired,
                   g_connman_state, closed_by, failed, stale>>

(* on_bus_acquired for the init_data of attempt b: without a state there,   *)
(* or without the state's introspection data, the process ends ...          *)
BusAcquired(a, b) ==
    LET n == IF Hits(b) THEN id_ns ELSE b IN
    /\ At(a, "loop")
    /\ loop_owner = a
    /\ acquired[b] = "due"
    /\ acquired' = [acquired EXCEPT ![b] = "done"]
    /\ id' = [id EXCEPT ![a] = b]
    /\ agent_ns' = [agent_ns EXCEPT ![a] = n]
    /\ UseId(a, b, IF n # 0 /\ "introspection" \in held[n] THEN "register_object"
                   ELSE "crashed")
    /\ UNCHANGED <<callVars, idVars, waitVars, outcome, resume, held, loop_owner,
                   g_connman_state, closed_by, failed>>

(* ... the agent object is exported under the name that every attempt of    *)
(* this process uses ...                                                    *)
ExportAgent(a) ==
    LET n == agent_ns[a] IN
    /\ At(a, "register_object")
    /\ \/ /\ \A b \in Attempts : "agent_object" \notin held[b]
          /\ held' = [held EXCEPT ![n] = @ \cup {"agent_object"}]
          /\ UseState(a, n, {"ns"}, "call_connman")
          /\ UNCHANGED <<reportVars, failed>>
       \/ /\ UseState(a, n, {"ns"}, "lock_id")
          /\ Signal(a, id[a], FALSE, "loop")
          /\ agent_ns' = [agent_ns EXCEPT ![a] = 0]
          /\ failed' = failed \cup {id[a]}
          /\ UNCHANGED held
    /\ UNCHANGED <<callVars, idVars, waitVars, acquired, loop_owner,
                   g_connman_state, closed_by, stale>>

(* Variant: an agent that ConnMan refuses stays on the bus.                 *)
AgentKept(accepted, resources) ==
    IF accepted THEN resources \cup {"agent"} ELSE resources

AfterReply(accepted, resources) ==
    IF accepted THEN resources \cup {"agent"} ELSE resources \ {"agent_object"}

(* ... and ConnMan is told of it, in a call that may last 120 seconds.      *)
RegisterAgent(a) ==
    LET n == agent_ns[a] IN
    /\ At(a, "call_connman")
    /\ UseState(a, n, {"ns"}, "lock_id")
    /\ agent_ns' = [agent_ns EXCEPT ![a] = 0]
    /\ \E accepted \in BOOLEAN :
          /\ held' = [held EXCEPT ![n] = AfterReply(accepted, @)]
          /\ failed' = IF accepted THEN failed ELSE failed \cup {id[a]}
          /\ Signal(a, id[a], accepted, "loop")
    /\ UNCHANGED <<callVars, idVars, waitVars, acquired, loop_owner,
                   g_connman_state, closed_by, stale>>

-------------------------------------------------------------------------------
ConnmanInit ==
    LockId \/ TestDone \/ WaitTimesOut \/ UnlockId \/ CheckDone \/ ReadRc

SignalInitDone(a) ==
    SignalLock(a) \/ SignalSetDone(a) \/ SignalSetRc(a) \/ SignalCond(a) \/ SignalUnlock(a)

OnBusAcquired(a) ==
    (\E b \in Attempts : BusAcquired(a, b)) \/ ExportAgent(a) \/ RegisterAgent(a)

Handler(a) ==
    \/ \E r \in DOMAIN Acquisitions \ Prepared : Acquire(a, r)
    \/ SetNs(a) \/ ChooseAgent(a) \/ RereadNs(a)
    \/ \E r \in Prepared : Prepare(a, r)
    \/ \E label \in PreparedLabels : Unprepare(a, label)
    \/ \E label \in Labels \ PreparedLabels : Unwind(a, label)
    \/ Fail(a)
    \/ SignalInitDone(a)
    \/ Publish(a) \/ RunLoop(a)
    \/ OnBusAcquired(a)

Next ==
    \/ CallInit
    \/ ConnmanInit
    \/ WakeSpuriously
    \/ TenSecondsPass
    \/ \E a \in Attempts : Handler(a)

Spec == Init /\ [][Next]_vars

(* The threads run, synchronous calls end.  Nothing makes a condition       *)
(* variable wake up spuriously, the bus may never report the name, and the  *)
(* ten seconds are as long as may be.                                       *)
FairSpec ==
    /\ Spec
    /\ WF_vars(ConnmanInit)
    /\ \A a \in Attempts : WF_vars(Handler(a))

-------------------------------------------------------------------------------
(* Where a handler thread may be: on its way to the main loop or back out,  *)
(* in signal_init_done, at the agent's registration or in the loop.         *)
SetupPlaces ==
    DOMAIN Acquisitions \cup Labels \cup {"set_ns", "choose", "reread_ns", "err_no_loop"}
ReportPlaces == {"lock_id", "set_done", "set_rc", "signal_cond", "unlock_id"}
AgentPlaces == {"register_object", "call_connman"}
RunPlaces == {"publish", "run_loop", "loop"} \cup AgentPlaces
Places == SetupPlaces \cup ReportPlaces \cup RunPlaces
              \cup {"none", "exited", "hung", "crashed"}

(* Type invariant; there is a result exactly when connman_init is over.     *)
TypeOK ==
    /\ attempt \in 0..MaxAttempts
    /\ caller \in {"start", "lock", "test", "wait", "woken", "late", "unlock",
                   "check", "read_rc", "returned"}
    /\ mutex \in {"none", "caller", "handler"}
    /\ result \in IF caller = "returned" THEN {"TRUE", "FALSE"} ELSE {"none"}
    /\ expired \subseteq Attempts
    /\ reuse \in BOOLEAN /\ register_agent \in BOOLEAN
    /\ init_done \in BOOLEAN /\ rc \in BOOLEAN
    /\ closed_by \subseteq Attempts /\ failed \subseteq Attempts
    /\ stale \in BOOLEAN
    /\ id_ns \in 0..MaxAttempts
    /\ loop_owner \in 0..MaxAttempts
    /\ g_connman_state \in 0..MaxAttempts
    /\ hpc \in [Attempts -> Places]
    /\ id \in [Attempts -> Attempts]
    /\ agent_ns \in [Attempts -> 0..MaxAttempts]
    /\ outcome \in [Attempts -> BOOLEAN]
    /\ resume \in [Attempts -> {"none", "exited", "publish", "loop"}]
    /\ held \in [Attempts -> SUBSET Resources]
    /\ acquired \in [Attempts -> {"none", "due", "done"}]

Wanted == Connected \cup IF register_agent THEN WithAgent ELSE {}

(* TRUE from connman_init means that all its set-up did: every subscription *)
(* is in place, and so is the agent if it was asked for, and the connection *)
(* they are made on was not closed, unless an earlier attempt failed and    *)
(* closed it under all later ones.  So a first TRUE is right, and a retry's *)
(* is wrong only there (RetriedTrueMeansConnected) and where a dead         *)
(* init_data was used.                                                      *)
TrueMeansConnected ==
    result = "TRUE" /\ ~stale =>
        /\ Wanted \subseteq held[attempt]
        /\ \A b \in closed_by : b < attempt /\ b \in failed

(* FALSE means that this attempt's set-up failed, at an acquisition or at   *)
(* the agent's registration, or did not end in time - also when the ten     *)
(* seconds end while the handler thread is reporting success, and init_done *)
(* and rc are read without the mutex - as long as no dead init_data was     *)
(* used.                                                                    *)
FalseMeansFailedOrLate ==
    result = "FALSE" /\ ~stale => attempt \in expired \/ attempt \in failed

(* What an attempt that failed in time leaves behind: nothing; or, if only  *)
(* the agent was refused, the connection with its thread and published      *)
(* state, and no agent object in the way of the next attempt's.             *)
WhatFailureLeaves ==
    result = "FALSE" /\ attempt \notin expired /\ ~stale =>
        \/ held[attempt] = {}
        \/ /\ register_agent
           /\ held[attempt] = Connected \cup Prepared
           /\ g_connman_state # 0

(* The failure of any acquisition releases what was acquired before it, and *)
(* nothing else: a label never releases what is not held, and a handler     *)
(* thread that ends early leaves nothing behind.                            *)
UnwindIsExact ==
    ~stale => \A a \in Attempts :
        /\ hpc[a] \in Labels => Releases[hpc[a]] \in held[a]
        /\ hpc[a] \in {"err_no_loop", "exited"} => held[a] = {}

(* A retry doubles the subscriptions of an earlier attempt, so that every   *)
(* callback of the application is run twice, only where that attempt ran    *)
(* out of time or lost its agent alone: ConnMan refused it, or the bus did. *)
SubscribedTwiceIsExplained ==
    ~stale => \A a, b \in Attempts :
        a < b /\ held[a] \cap held[b] \cap Subscriptions # {} =>
            a \in expired \/ (register_agent /\ "agent" \notin held[a])

(* The condition and mutex lie in the caller's frame: no handler thread     *)
(* uses them after connman_init has returned unless a wait has timed out.   *)
StaleOnlyAfterTimeout == stale => expired # {}

(* The main loop, from which the application's callbacks are run, never     *)
(* runs before the state is published: a callback may use the API, also one *)
(* that runs before connman_init has returned.                              *)
LoopRunsWithState ==
    \A a \in Attempts :
        hpc[a] \in {"run_loop", "loop", "register_object", "call_connman"} =>
            g_connman_state # 0 /\ Connected \subseteq held[a]

(* No wake-up is lost: connman_init returns once the handler has reported,  *)
(* without the help of its deadline.                                        *)
ReportEndsWait == (InCall /\ init_done) ~> (~InCall \/ ~Alive)

(* connman_init returns some time after its deadline, whatever the handler  *)
(* threads and the bus do.                                                  *)
InitReturns == (InCall /\ attempt \in expired) ~> (~InCall \/ ~Alive)

(* After TRUE the library can be used (README.md:32 and 35): an API call    *)
(* does not find "No connman connection" (api.c:599).                       *)
TrueMeansUsable == result = "TRUE" => g_connman_state # 0

(* TRUE from connman_init "indicates D-Bus connection to ConnMan has        *)
(* succeeded" (README.md:35), also when it is the second call.              *)
RetriedTrueMeansConnected ==
    result = "TRUE" => Connected \subseteq held[attempt] /\ closed_by = {}

-------------------------------------------------------------------------------
(* The inductive invariant.  What a handler thread holds of its own, the    *)
(* agent's things apart, is what its place says, whatever the other threads *)
(* do.                                                                      *)
Own(a) == held[a] \cap Connected

HeldAt == [
    none                      |-> {},
    exited                    |-> {},
    err_no_loop               |-> {},
    main_loop                 |-> {},
    err_no_ns                 |-> {"main_loop"},
    ns                        |-> {"main_loop"},
    err_no_conn               |-> {"main_loop", "ns"},
    conn                      |-> {"main_loop", "ns"},
    err_no_manager_sub        |-> Connected \ {"manager_sub", "technology_sub", "service_sub"},
    manager_sub               |-> Connected \ {"manager_sub", "technology_sub", "service_sub"},
    err_no_technology_sub     |-> Connected \ {"technology_sub", "service_sub"},
    technology_sub            |-> Connected \ {"technology_sub", "service_sub"},
    err_no_service_sub        |-> Connected \ {"service_sub"},
    service_sub               |-> Connected \ {"service_sub"},
    set_ns                    |-> Connected,
    choose                    |-> Connected,
    reread_ns                 |-> Connected,
    err_no_agent              |-> Connected,
    agent_path                |-> Connected,
    out_no_introspection_data |-> Connected,
    introspection             |-> Connected,
    out_no_bus_name           |-> Connected,
    bus_name                  |-> Connected]

(* Where the thread is, or will be when it has reported.                    *)
Course(a) == IF hpc[a] \in ReportPlaces THEN resume[a] ELSE hpc[a]

(* Where it sets up or uses an agent, in the state it found; and where it   *)
(* is when it has closed the connection.                                    *)
AgentSetup == Prepared \cup PreparedLabels
AfterClose == {"err_no_conn", "err_no_ns", "err_no_loop", "exited"}

Holds(a) ==
    /\ hpc[a] \in ReportPlaces => resume[a] # "none"
    /\ Course(a) \in DOMAIN HeldAt => Own(a) = HeldAt[Course(a)] /\ acquired[a] = "none"
    /\ Course(a) \in RunPlaces => Own(a) = Connected
    /\ Course(a) \in RunPlaces \ {"publish"} => g_connman_state # 0
    /\ hpc[a] \in AgentSetup \cup AgentPlaces => agent_ns[a] # 0

HoldInv == \A a \in Attempts : Holds(a)

(* A thread that fails says so, and only one that failed closes the         *)
(* connection.                                                              *)
FailInv == \A a \in Attempts :
    /\ hpc[a] \in Labels \cup {"err_no_loop"} => a \in failed
    /\ a \in closed_by =>
          a \in failed /\ (Course(a) \in AfterClose \/ hpc[a] \in {"hung", "crashed"})

(* Only the threads of calls that were made do anything.                    *)
ThreadsInv ==
    /\ attempt = 0 <=> caller = "start"
    /\ \A a \in Attempts :
          /\ a > attempt => hpc[a] = "none" /\ id[a] = a /\ acquired[a] = "none"
          /\ a <= attempt => hpc[a] # "none" /\ id[a] <= attempt

(* What the caller's place says of the report, and what it returned.        *)
CallerInv ==
    /\ caller = "late" => attempt \in expired
    /\ caller \in {"unlock", "check"} => init_done \/ attempt \in expired
    /\ caller = "read_rc" => init_done
    /\ result = "TRUE" => init_done /\ rc
    /\ result = "FALSE" => attempt \in expired \/ (init_done /\ ~rc)

(* Thread a works for, or reports to, the init_data of attempt b; somebody  *)
(* does, or will.                                                           *)
Using(a, b) == id[a] = b /\ hpc[a] \in AgentPlaces \cup ReportPlaces
Pending(b) ==
    hpc[b] \in SetupPlaces \/ acquired[b] = "due" \/ \E a \in Attempts : Using(a, b)

(* As long as no dead init_data was used, the process has not crashed, one  *)
(* thread at a time is about to report to an init_data ...                  *)
OneReporter == \A b \in Attempts :
    /\ hpc[b] \in SetupPlaces \/ acquired[b] = "due" => \A a \in Attempts : ~Using(a, b)
    /\ \A a, c \in Attempts : Using(a, b) /\ Using(c, b) => a = c

(* ... none is once the call was answered in time ...                       *)
Answered == {"unlock", "check", "read_rc", "returned"}

NoneAfterAnswer == \A b \in Attempts :
    b < attempt \/ (b = attempt /\ caller \in Answered) => b \in expired \/ ~Pending(b)

(* ... the mutex is held by who believes so ...                             *)
MutexInv ==
    /\ caller \in {"test", "unlock"} => mutex = "caller"
    /\ \A a \in Attempts :
          hpc[a] \in ReportPlaces \ {"lock_id"} /\ Live(id[a]) => mutex = "handler"

(* ... the agent is prepared in the state of its own attempt ...            *)
PreparedAt == [
    introspection             |-> {"agent_path"},
    out_no_introspection_data |-> {"agent_path"},
    bus_name                  |-> {"agent_path", "introspection"},
    out_no_bus_name           |-> {"agent_path", "introspection"}]

PreparedOf(b) ==
    IF Course(b) \in DOMAIN PreparedAt THEN PreparedAt[Course(b)]
    ELSE IF acquired[b] = "none" THEN {} ELSE Prepared

PreparedInv == \A b \in Attempts :
    /\ held[b] \cap Prepared = PreparedOf(b)
    /\ hpc[b] \in AgentSetup => agent_ns[b] = b
    /\ hpc[b] = "choose" /\ b = attempt => id_ns = b

(* ... where its notification finds it ...                                  *)
AgentOf(b) == held[b] \cap {"agent_object", "agent"}

AgentInv == \A b \in Attempts :
    /\ hpc[b] # "hung"
    /\ acquired[b] # "done" => AgentOf(b) = {}
    /\ acquired[b] # "none" \/ hpc[b] \in Prepared \cup {"reread_ns"}
          => register_agent /\ (b = attempt => id_ns = b)
    /\ hpc[b] \in PreparedLabels => register_agent
    /\ Course(b) \in RunPlaces /\ register_agent => acquired[b] # "none"
    /\ hpc[b] \in AgentPlaces =>
          /\ agent_ns[b] = id[b] /\ acquired[id[b]] = "done"
          /\ AgentOf(id[b]) = IF hpc[b] = "call_connman" THEN {"agent_object"} ELSE {}

(* ... and a report says what is held and whether something failed.         *)
Left(b) ==
    \/ held[b] = {}
    \/ register_agent /\ held[b] = Connected \cup Prepared /\ g_connman_state # 0

Reports(b, verdict) ==
    IF verdict THEN Wanted \subseteq held[b] ELSE Left(b) /\ b \in failed

ReportInv ==
    /\ \A a \in Attempts :
          /\ hpc[a] \in ReportPlaces => Reports(id[a], outcome[a])
          /\ hpc[a] \in ReportPlaces \ {"lock_id", "set_done"} /\ Live(id[a]) => init_done
          /\ hpc[a] \in {"signal_cond", "unlock_id"} /\ Live(id[a]) => rc = outcome[a]
    /\ attempt # 0 /\ init_done =>
          /\ hpc[attempt] \notin SetupPlaces /\ acquired[attempt] # "due"
          /\ rc \/ ~Pending(attempt) => Reports(attempt, rc)
          /\ \A a \in Attempts : Using(a, attempt) =>
                hpc[a] \in ReportPlaces \ {"lock_id", "set_done"} /\ (hpc[a] = "set_rc" => ~rc)
    /\ ~init_done => ~rc

FreshInv ==
    ~stale => /\ Alive /\ OneReporter /\ NoneAfterAnswer /\ MutexInv
              /\ PreparedInv /\ AgentInv /\ ReportInv

(* What an attempt that failed in time left, its retries leave alone.       *)
ReturnedInv == ~stale => \A b \in Attempts : b < attempt /\ b \notin expired => Left(b)

IHInv ==
    /\ TypeOK /\ HoldInv /\ FailInv /\ ThreadsInv /\ CallerInv /\ FreshInv
    /\ StaleOnlyAfterTimeout /\ ReturnedInv
===============================================================================
