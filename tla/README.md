# A formal model of connman-glib

connman-glib is a C library through which an application talks to the ConnMan
network daemon over D-Bus. It is small, but it is a concurrent program: any
number of application threads call it while a thread of its own runs a GLib main
loop, receives replies, signals and method calls, and runs the application's
callbacks, from which the library may be called again. This directory holds
TLA+ modules that model the library, TLC configurations that check them on
small instances, and proofs, checked by TLAPS, of what matters most for every
instance. Paths below are those of the repository.

## 1. The system

| Part | Files | State | Operations |
|---|---|---|---|
| Table of pending calls | `src/call_work.c` | `cw_mutex`, `next_cw_id`, `cw_pending`, the `call_work` structs | create, look up by key or id, destroy |
| Asynchronous connect | `src/api.c` 852-947, `src/connman-call.c` 126-214 | the call's hook, its D-Bus call | `connman_service_connect`, `connman_call_async`, its ready callback, `connect_service_callback` |
| Agent | `src/connman-agent.c`, `src/api.c` 1062-1092 | the `invocation` of a call, the agent callback and its mutex | `handle_method_call`, `connman_agent_response`, registration |
| Initialisation, handler thread | `src/api.c` 384-590 | `init_data` in the caller's frame, `g_connman_state`, what was acquired | `connman_init`, `connman_handler_func`, `connman_dbus_init` |
| Event callbacks | `src/api.c` 103-382 | three lists of callbacks, a mutex each | registration, signal callbacks, `run_*_callbacks` |
| Synchronous calls, properties | `src/connman-call.c` 26-124, 216-404, `src/api.c` 592-850, 949-1060 | a request, its reply and a GError per call (the properties are ConnMan's) | get and set properties, scan, move, remove, disconnect |
| Logging | `src/api.c` 77-101 | one level | - |

How they interact. `connman_init` starts the handler thread and waits for it on
a condition variable. From then on the handler thread is the only one that
receives anything: signals (to the event callbacks), method calls of ConnMan to
the agent object, replies to asynchronous calls. `connman_service_connect`, on
any thread, enters a call into the table and sends `Connect`; its reply comes
back on the handler thread, which runs the application's callback and destroys
the call. While a connect is pending ConnMan may ask for a passphrase: the
handler thread finds the pending call by its key, leaves the D-Bus invocation in
it and runs the agent callback with the call's *id*; the application answers,
from that callback or later from any thread, with `connman_agent_response(id)`,
which finds the call by id and replies to the invocation. All other API calls are
synchronous: they block their own thread in `g_dbus_connection_call_sync` for one
or two requests to ConnMan, share nothing but `g_connman_state` and the bus
connection, and meet each other only in ConnMan's properties.

What is hard: the look-up and insertion of a call must be atomic among threads;
a call is visible before its hook is set; replies, requests and answers come in
any order, and an answer may be late; callbacks run on the handler thread, some
of them with a mutex held, and call back into the library; initialisation may
fail at nine places, or finish after its caller has given up, and may be tried
again then; a time-out ends a call that ConnMan still carries out; a property is
read before it is written; each way to fail must leave exactly one error to
print; an int counter overflows. What makes each part correct:

- table: one call per key, ids tell pending calls apart, a destroy unlinks
  exactly its argument, the search for an id ends;
- connect: attempts to one service do not overlap, the callback runs exactly
  once, every attempt ends and frees its slot;
- agent: an invocation is answered once, by an answer meant for its service, and
  none is lost without a reason; callbacks run without `cw_mutex`;
- initialisation: TRUE means everything is in place, FALSE that something failed
  or was late, a failure leaves nothing behind, the caller wakes up;
- events: every callback gets every event from its registration on, in order,
  once; registrations end;
- synchronous calls: what a call returns is what ConnMan did for it at one moment
  of the call, a failure names its cause and is returned, every call ends.

## 2. The modules

| Module | Models | Kind |
|---|---|---|
| `PendingSlots` | what the table promises: a register per key | abstract |
| `CallWork` | `src/call_work.c` | detailed, implements `PendingSlots` |
| `ConnectContract` | what connects and requests promise | abstract |
| `ConnectAgent` | connect and agent, composed with `CallWork` (it EXTENDS it and its actions contain the table's) | detailed, implements `ConnectContract` |
| `InitHandshake` | `connman_init`, its retry, and the handler threads' set-up | detailed |
| `PropertyRegister` | what the synchronous calls promise: operations with one effect each | abstract |
| `PropertyCalls` | the synchronous calls, their requests and errors | detailed, implements `PropertyRegister` |
| `EventFeed` | what registration and events promise: logs and readers | abstract |
| `EventCallbacks` | signals, lists of callbacks, their mutexes | detailed, implements `EventFeed` |
| `CallWorkProofs`, `ConnectAgentProofs`, `InitHandshakeProofs`, `EventCallbacksProofs`, `PropertyCallsProofs` | theorems about the module each is named for | proofs |
| `MCCallWork`, `MCConnectAgent`, `MCEventCallbacks`, `MCPropertyCalls` | symmetry and input sets for TLC | instances |

The definitions `...Unchecked`, `...Once`, `...Silent` and the like, whose
comment begins with "Variant:", are not part of any specification: each is a
definition with a plausible mistake, kept beside the right one to show which
property notices it.

### CallWork

The table as a set `cw_pending` of objects with `key` (the three strings) and
`id`. The list's order is not kept: keys and ids are unique in it, so a look-up
has one possible result (that is `OnePendingPerKey` and `IdsTellCallsApart`, not
an assumption: `LookupIn` chooses). A critical section under `cw_mutex` is one
step guarded by the mutex being free; only creation is several steps, one per
turn of its do-while loop, so that a search that does not end is a behaviour.
`++next_cw_id < 0` at INT_MAX is undefined in C: `AfterIncrement` yields both
what wrapping hardware gives, seen by the test (1), and what a compiler that
folds the test gives (INT_MIN, so that one call gets a negative id and the next
1). `call_work_destroy` frees the strings but never the struct, so an object is
created once. `call_work_pending_id` and `call_work_lookup` are the operator
`LookupKey`; nobody calls them.

### ConnectAgent

Per thread, `pc` is the place in the library. A call begins before it has a
mutex: `enter` and `respond` wait for `cw_mutex`, in `connman_service_connect` and
`connman_agent_response`, `register` waits for `agent_event_cb_mutex`, in
`connman_add_agent_event_callback`. What a call is about is chosen when it has its
mutex, since nothing looks at the arguments before: a service and whether there is
a callback, or the id of a request the application was told of. A connect that is not
refused goes on to `alloc` (the loop of creation), `fill` (before the hook is set,
without the mutex), `issue` (before `connman_call_async`) and `store` (before
`cw->cpw` is written). `agent_event_cb_mutex` is held while `hpc` is `in_agent_cb`,
also against the handler thread itself: a registration made from within the agent
callback waits for ever, and nothing is dispatched any more (`SelfBlocked`). For
the handler thread, `hpc` is the place in `connect_service_callback` (`read` and `clear` for
the Error property, `notify`, `in_cb`, `destroy`) or in `handle_method_call`
(`prompt`, `in_agent_cb`). `rpc[c]` is the D-Bus call, `req[i]` a method call of
ConnMan to the agent. ConnMan and the bus are external and free to answer, fail,
time out and ask at any time for any service. The application calls whatever it
likes, from its threads and from callbacks, and answers requests with the ids it
was told, as often and as late as it likes.

Not in the model: the early return for a NULL service; `!cw->cpw` (no argument
of this caller makes `connman_call_async` fail, since `g_malloc` and
`g_cancellable_new` do not return NULL); an `agent_method` other than
RequestInput (no other is ever set); `connman_cancel_call` (never called). An
answer under an id the application was not told is not modelled. The main loop
is free to dispatch what has arrived in any order, which includes the real one.

### InitHandshake

`connman_init`, called at most `MaxAttempts` times: first, and again whenever it
has returned FALSE. Each call starts a handler thread that is never joined, so
that everything about handler threads is a function of the attempt. The caller
and the handlers are processes with every access of a handler to `init_data` as a
step of its own: `signal_init_done` locks, writes `init_done`, writes `rc`, signals
and unlocks in five steps, of which all but the first may find a caller that has
timed out and returned; `id->ns` is written, `id->register_agent` is read, and
`connman_register_agent` reads `id->ns` again, in three. The caller reads
`init_done` and `rc` separately and without the mutex after the wait; only its
writes before the thread exists are one step. `Acquisitions`, `OnFailure`,
`Releases` and `FallsTo` are the three functions' acquisitions and error labels as
tables; `Acquire` and `Prepare` (what `connman_register_agent` acquires, in the
state it found) may fail at each, `Unwind` and `Unprepare` are one label.

`init_data` is in the caller's frame, and the handler keeps a pointer to it. When
the call has returned, `Live` is false and a use sets `stale`; the process then
survives or not. In the next call the frame is in the same place or not
(`reuse`, chosen at the start): where it is, `Hits` is true, and what the old
thread does it does to the new call's mutex, `init_done`, `rc` and `ns`. Where it
is not, a mutex in dead memory may hang the thread (`hung`), what is read is
arbitrary, and wild writes elsewhere are only the possible crash.

Of the handler threads the first that gets to `g_main_loop_run` owns the default
main context (`loop_owner`) and dispatches the bus-acquired notifications of all
attempts; each is about the state its `init_data` points to (`agent_ns`), and the
agent's object path is the same for all, so that only one can be exported
(`ExportAgent`). A clean-up closes the connection that `g_bus_get_sync` gave to
everyone; a later attempt gets it all the same, and `closed_by` says whose
clean-ups closed it. What a subscription or
a call on a closed connection does is left open: acquisitions may succeed or
fail. The argument `register_agent` is the same in every call, which is all an
application that retries does. `failed` is the history of the attempts of which an acquisition or
the agent's registration has failed; what an attempt reports, or its caller reads,
is compared with it. What follows `g_main_loop_run` is unreachable
(nothing quits the loop).

### PropertyCalls

Thirteen API functions as five kinds (`KindOf`): they list objects, read a
property, test or ensure its value, write it, or run a method. `pc` is the place
in the chain of functions: `check` (the function's own tests), `list`
(`connman_get_properties`), `set_property` (`connman_set_property_internal`),
`set` and `run` (`connman_call` for a method), `wait` (in
`g_dbus_connection_call_sync`), `find` (looking for the property in the reply),
`report` (printing the error). `error` is the GError of the call; `SetError`
keeps the first one, as `g_set_error` does. `Begin` reads `g_connman_state` once,
as the functions do, so that a call may begin before the state is published
(`Publish`). Places where NULL is dereferenced go to `crashed`: `ns->conn`,
`strlen(NULL)` in the path macros, `error->message`; for `g_variant_print(NULL)`
both outcomes are possible.

ConnMan and the bus are external. An object has one property with two values,
or is absent; `Drifting` are the objects ConnMan changes, adds and removes by
itself. Each request is answered, refused, or ended by the time-out, which may
come before ConnMan reads it (a write is then in `late` and happens at any later
moment or never), or after ConnMan has carried it out, with the reply on its way.

`PropertyRegister` has neither requests nor replies: between call and return an
operation has at most one effect, at one moment, of those its kind allows, and
succeeds only with that effect's outcome; one that fails may abandon a write. The
mapping takes the moment from the history variable `effect`, which ConnMan's
steps set. This is what is left of atomicity for `enable`, a read and then
perhaps a write: TRUE means that the technology had that power at one moment of
the call, and not that it has it now.

Not in the model: names and types of properties (a property that an object does
not have is an object that is not there); replies of another type than ConnMan
declares, so that the `!array` branches and the double `g_variant_unref` of
`connman_manager_get_state` are not reached; an access type other than the three.
`connman_manager_get_online` is `get_state` with a comparison.

### EventCallbacks

Four lists (manager, technology, service callbacks; the one agent callback as a
list of at most one), each with its mutex. A signal is mapped to its events by
`EventsOf`: none if path or interface are unexpected or the name is not known; for
ServicesChanged one for each entry of its two arrays, in the order in which the
handler goes through them. It passes over a changed service without properties
(`SkipService`); for each other event it takes the mutex, runs each callback,
releases it. What the logs are compared with (`ServicesAreReported`) is not this
list of events but the signal itself, of which `heard` keeps the last one and
`mark` where the log stood. `Nests` says
in which list a callback of which list may register another one. Which of the
equal entries a registration takes does not matter: `NewEntry` takes one that is
free. Nothing unregisters (`callback_remove` is never called).

## 3. The runs

`tlc -config X.cfg M` in this directory; each takes a few minutes at most.

| Run (cfg) | Module | Shows |
|---|---|---|
| `CallWork` | MCCallWork | one call per key, ids apart, the id search ends, `ImplementsSlots` |
| `ConnectAgent_races` | MCConnectAgent | no overlap, callback exactly once, one reply per invocation to the right service, nothing lost unexplained, callbacks unlocked, `ImplementsContract` |
| `ConnectAgent_liveness` | MCConnectAgent | connects complete, API calls return from wherever they wait, requests are shown, but for one case |
| `ConnectAgent_unanswered` | MCConnectAgent | **violated**: a request is never replied to |
| `ConnectAgent_noproperty` | MCConnectAgent | **violated**: the process ends in `g_variant_print(NULL)` |
| `InitHandshake` | InitHandshake | meaning of the result, also of a retry, what a failure leaves, exact unwinding, which failures double the subscriptions, use of a dead `init_data` only after a timeout, no lost wake-up, the call returns after its deadline |
| `InitHandshake_usable` | InitHandshake | **violated**: TRUE is returned before the state is published |
| `InitHandshake_retry` | InitHandshake | **violated**: TRUE is returned for the report of an earlier attempt |
| `EventCallbacks` | MCEventCallbacks | no event lost, ServicesChanged told in full and in order, lists stable while run, `ImplementsFeed`, registrations end and signals are handled but for one case |
| `EventCallbacks_briefly` | MCEventCallbacks | **violated**: a registration from a callback of the same list never ends |
| `PropertyCalls` | MCPropertyCalls | `ImplementsRegister`, failures are real and name their cause, the ways to end the process, calls return |
| `PropertyCalls_offline` | MCPropertyCalls | **violated**: `connman_manager_set_offline` ends the process |

The six violated properties each state something the repository says; what it
says and where is in `findings` of PROJECT.json.

- *A request is never replied to.* `connect_service_callback` destroys the call
  without a look at `cw->invocation`, a second request overwrites it. ConnMan
  waits until the bus gives up; the invocation is leaked. `UnansweredIsExplained`
  shows that these are the only two ways to lose one: the history `accepted` has
  the requests each call accepted in their order, and an unanswered one is followed
  there by another, or is the last and still in the call, which may have ended.
- *The process ends.* `connman_get_properties` prints its reply for a debug
  message, evaluated at every log level, also when there is no reply.
- *TRUE before the state is published.* `signal_init_done` comes before
  `connman_set_state` when no agent is registered. With an agent the order is
  right: `RegisterAgent` is answered from the main loop (`LoopRunsWithState`).
- *A registration that never ends.* A list's mutex is held while its callbacks
  run and is not recursive. The agent callback's is the same, so that registering
  one from within it never ends either; that case has no run of its own.
  `OtherRegistrationsEnd`, `SignalsAreHandled` and `ApiReturns` except exactly these
  two (`SelfBlocked`) and show that there are no more; other threads' calls that
  wait for another mutex return even then.
- *TRUE for another attempt.* The first call times out, its handler thread goes
  on, the second call's `init_data` lies where the first one's was, and the first
  thread's report ends the second wait. There is a second way to the same
  violation: the first attempt fails and closes the connection that the second one
  is given. `TrueMeansConnected` shows that there is no third: without a dead
  `init_data` a TRUE, also a retry's, means that all of its set-up did succeed, and
  that whoever closed its connection was an earlier attempt that failed.
  In the same way a first thread's failure can end a second call with FALSE while
  that call's own set-up goes on and succeeds; `FalseMeansFailedOrLate`, which looks
  at the attempts that failed (`failed`) and not at the report, shows that this too
  takes a dead `init_data`.
- *`set_offline` ends the process.* `connman_set_property_internal` requires a
  `type_arg`, which a property of the manager has not, and sets no error.
  `CrashIsExplained` lists all such ends of a synchronous call.

**Bounds.** `MaxInt` stands for INT_MAX and is 2 or 3, so that the counter
overflows and meets ids in use. Two keys and four calls (or two, in
ConnectAgent) let a key be used again after its call was destroyed while another
is pending; two application threads and the handler are enough for each pair of
critical sections to race, since no property relates more than two calls or two
requests. There `Methods` is RequestInput alone: any other method of the agent is
replied to at once and touches nothing else, and is in `ConnectAgent_liveness`. Two
requests let the second overtake or replace the first; for progress
two connects to one service and one request are enough, since none waits for
anything but a mutex and the handler thread. In
`EventCallbacks` two signals of up to three events each, with three registrations,
let one be made before, between and after the events of one signal; one thread of
the application is enough, since callbacks register too and the mutexes keep
registrations apart. `MaxAttempts` is 2: a third call meets nothing that a second
does not, since no property relates more than two attempts. Two calls on two
threads (`MaxCalls`, `ApiCalls`), one of any kind and one that writes, are what an
effect, its undoing and a late write need; a call made twice on one thread meets
its own late write. One technology that drifts and one service that does not,
present or absent (`Starts`), suffice since a call is about one object or one
list; a second thread adds no path to an error, which is each call's own. The bounded
inputs run out, or the process crashes, or initialisation ends: the configurations
say CHECK_DEADLOCK FALSE there, and not for `CallWork`, which never stops.
`EnoughIds` (more positive ints than pending calls) is an assumption of the
instances: without it the search for an id would not end, with 2^31 of them it
does. `AnswerReachesItsService` is a property of instances with at least as many
ids as calls: after 2^31 connects an id comes back, and an answer that late could
meet it. `AnswersReachTheirService` has this as its hypothesis, no other theorem
has. `MaxSignals`, `MaxCalls`,
`MaxAttempts` and the sets `Calls`, `Requests` and `Entries` bound how much
happens; nothing else does.

**Fairness.** The handler thread and threads inside a library call keep running
(weak). A call to ConnMan is answered, by the bus's own timeout
(`DBUS_REPLY_TIMEOUT`) if by nobody else; synchronous calls end for the same
reason; the application's callbacks return, which any main loop presumes. A
waiting thread gets a mutex some time although others keep taking it, and GLib's
main loop dispatches in order of arrival: strong fairness of the steps that wait
for `cw_mutex`, `agent_event_cb_mutex`, a list's mutex or their turn, and of a
callback's return, which may call the library first. `AnsweringSpec` adds that the
application answers what it is shown; it serves the counterexample only, which
is the stronger for it. In `InitHandshake` nothing makes the bus report the name
or the deadline pass: `InitReturns` says that the call returns once it is past.
In `PropertyCalls` ConnMan has no fairness, only GIO's time-out (`TimesOut`) has.
In `EventCallbacks` a callback returns although it may register others first, one
after the other (strong).

## 4. The proofs

Five modules hold theorems, one per component: `CallWorkProofs`,
`ConnectAgentProofs`, `InitHandshakeProofs`, `EventCallbacksProofs`,
`PropertyCallsProofs`. Every invariant that a run checks is also a theorem, and
so are the four refinements and `ListStableWhileRun`; `DestroyIsExact` is a theorem
only. The theorems hold for any
sets of threads, keys, calls, requests, entries and objects, any `MaxInt > 0`,
any number of attempts, signals and calls. They rest on the assumptions of the
modules (`CWAssumption`, `CAAssumption`, `IHAssumption`, `ECAssumption`,
`PCAssumption`), which TLC evaluates too and which say no more than that NULL is
not an object, the handler is a thread of its own, an initialisation is tried at
least once, threads and entries are finitely many, and the inputs are of their
type. One theorem has a hypothesis of its own (`AnswersReachTheirService`, below).

Each proof has the same shape. The component's module ends with an inductive
invariant (`CWInv`, `CAInv`, `IHInv`, `ECInv`, `PCInv`), found and checked with TLC
first; the proof module shows that `Init` implies it, has a lemma for each action
or group of actions that keep it, and derives the properties. The refinements use
the same invariant, step by step.

*The table.* `CWInv` strengthens its safety properties with what is true while an
object is being created: the mutex is held exactly then, the object is not in
the table, nothing in the table has its key, it was not destroyed. The key part
is needed because the look-up and the insertion are different steps; without it
`OnePendingPerKey` is not inductive. `CWInit => CWInv` and one lemma per action
give `CWInvariant`; `CWTypeCorrect`, `SinglePendingCall`, `DistinctIds` and
`DestroyIsExact` follow. `CallWorkImplementsSlots` maps the last turn of the
loop to `Admit`, a first destroy to `Release`, all else to a stutter.
`IdsAreNotReused` is about programs that make no more calls than the counter has
values (`CallsFitCounter`): `NumberingInv` counts the calls that were numbered and
says that the counter is one ahead of them, so that the first identifier tried is
free and no two calls, pending or gone, ever share one.

*Connects and requests.* `TableStep` shows that a step of ConnectAgent is a step
of the table or leaves it alone, so everything proved of CallWork holds
(`LibraryUsesTable`); the non-trivial case is `DestroyCall`, whose argument must
have been created, which is why `TableStep` assumes `CAInv`. `CAInv` adds to `CWInv`:
`ThreadInv` (what each `pc` means for the call the thread works on: pending and
not sent until `issue`, its hook set from then on), `CallInv` (a call is answered
before it is closed, the one answered and not closed is the handler's, how often
each callback has run), `RequestInv` (replies and who holds which invocation).
The hook's `request_cb[c] = given[c]` has to be carried from `fill` to `issue` to
the reply: that is why writing it without the mutex is harmless. From `CAInv`
follow `ConnectsDoNotOverlap`, `CallbackRunsOnce`, `RepliesAreSingle`,
`HeldRequestsAreOpen`, `CallbacksMayCallLibrary` and
`ConnectAgentImplementsContract`. `RequestsAreNotLost` (`UnansweredIsExplained`) is
inductive next to it: `accepted[c]` grows at its end only, by the request call `c`
takes; a step lets an invocation go only by a reply, by a later request appended
behind it in the history of the same call, or leaves it the last one there and in
the call, which may be destroyed with it. None of these assumes that ids are not reused. `AnswersReachTheirService` does, since
an id that came back could belong to another service by the time a late answer
arrives: under `CallsFitCounter`, `AnswersInv` says that what the application was
told of a request, or is about to be told, is still the number of a call to the
request's service, pending or gone.

*Initialisation.* The properties speak of one attempt, but what one thread does
depends on all others: an old thread may share the loop, the agent's path, the
connection and even the frame. `IHInv` separates what no other thread can touch
from what holds only as long as no dead `init_data` was used. `HoldInv` is of the
first kind: what a handler thread holds of its own (`Own`, the agent apart) is
what its place says, from the table `HeldAt` on the way up and back down the error
labels; `UnwindIsExact` and `LoopRunsWithState` rest on it. `ThreadsInv` says that
threads of calls not made do nothing, `CallerInv` what the caller knows at each
place. `FreshInv` is of the second kind, under `~stale`: of the threads that work
for one `init_data` at most one is about to report to it (`OneReporter`), none once
its call was answered in time (`NoneAfterAnswer`), the mutex is held by the one
that believes so, the agent is where the notification says (`AgentInv`), and a
report, under way or read by the caller, says what is held (`ReportInv`). The crucial step is
the end of a report: with `OneReporter` the reporter is the last user of its
`init_data`, so that the caller, which may return from then on, leaves none behind
(`DeadUseNeedsTimeout`). `FailInv` says that a thread on its way back is in the
history `failed` and that only such a thread closes the connection, `PreparedInv`
that an agent is prepared in the state of its own attempt, and `ReportInv` that a
report of failure is made by an attempt that is in `failed`: that is why a FALSE in
time, of a first call or a retry, is about the caller's own set-up. `ReturnedInv`
adds that a call that returned in time has no thread at work any more, hence what
it left stays as it is, through all later attempts;
`DoubleSubscriptionsAreExplained` follows from it. What the properties promise of
the result (`TrueMeansConnected`, `FalseMeansFailedOrLate`, `WhatFailureLeaves`)
and `UnwindIsExact` are consequences of `IHInv`, by the lemma `PromisesHold`.

*Events.* A callback is behind its list's log by one event or none, and which of
the two follows from where the handler thread is in the list (`Due`): that is
`ProgressInv`, and with `HandlerInv` (the position is within the list) and
`EntriesInv` (an entry is in one list, once, and there is one left for every
registration under way) it gives `EventsAreNotLost`. `NewsInv` relates a list's log,
from where it stood when the signal came (`mark`), to the signal itself: what has
been logged since are the events the handler thread has passed, each once and in
their order, and what is left to do are the others; so at the end of a
ServicesChanged every service was told of, the changed ones first
(`ServicesChangedIsReported`). `ListsAreStable` holds for
every step because the list's mutex is held by the handler thread exactly while
the list is run, which is part of `TypeOK`. `CallbacksImplementFeed` maps a
registration to `Subscribe`, taking the mutex for an event to `Publish`, running a
callback to `Deliver`, all else to a stutter.

*Synchronous calls.* `PCInv` says for each place which calls get there, with
which arguments, errors and `g_connman_state` (`PlaceInv`), and what ConnMan has
done for them by then (`RequestInv`): nothing before the request is sent, what the
reply says once there is one, and for a list that it agrees with the effect
recorded for the call (`ListAgrees`). Without the last one a call that looks for
its property in a list that has since become out of date could not be mapped to the
moment ConnMan made that list. `IsReal`, `NamesCause` and `IsExplained` are carried
from where the error is set to where it is printed. Theorems: `FailuresAreReal`,
`ErrorsNameTheCause`, `CrashesAreExplained`, `CallsImplementRegister`.

*Only model-checked.* The nine liveness properties (`MutexReleased`,
`ConnectCompletes`, `ApiReturns`, `RequestsAreShown`, `ReportEndsWait`,
`InitReturns`, `OtherRegistrationsEnd`, `SignalsAreHandled`, `CallsReturn`): TLAPS
as used here does not treat fairness and ENABLED. The six violated properties are
counterexamples, which one instance suffices for.

## 5. Hazards without a property

- The dangling `cw->cpw` and the never-freed struct have no reader and no effect
  beyond memory.
- An answer that is 2^31 connects late (see *Bounds*).
- When an attempt to initialise that ran out of time, or lost only its agent, is
  followed by one that succeeds, signals are subscribed twice and every event
  reaches every callback twice. `SubscribedTwiceIsExplained` says that no other
  attempt leads there. What follows for the callbacks has no property:
  `EventCallbacks` has one subscription; this belongs to its composition with
  `InitHandshake`.

## 6. Plan

Written, in this order: `CallWork`, `ConnectAgent`, `InitHandshake`,
`EventCallbacks`; proofs of the first two; `PropertyCalls`, the retry in
`InitHandshake`; proofs of `PropertyCalls`, `EventCallbacks` and `InitHandshake`,
and of the properties of `ConnectAgent` that need more than `CAInv`. Next:

1. `InitHandshake` composed with `EventCallbacks`: two subscriptions, and what is
   true of events then.
2. An abstract specification of `connman_init` that `InitHandshake` implements as
   long as no dead `init_data` was used, with its refinement proved from `IHInv`.

## 7. Not modelled

Logging (output only), path and name conversions (`src/connman-call.h`; services
are model values; what a missing one does is in `PropertyCalls`), headers, the
test program (a client that needs a live ConnMan), build files. D-Bus, GLib and
ConnMan are external: what they may do is stated by the actions
`ConnmanReplies`, `ConnmanRequests`, `Send`, `WakeSpuriously`, `TenSecondsPass`,
and in `PropertyCalls` `Connman`, `TimesOut`, `LateWrite` and `ConnmanChanges`.
The application is assumed not to run the default main context itself, which the
library takes for its handler thread.
