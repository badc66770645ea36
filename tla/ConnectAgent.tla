----------------------------- MODULE ConnectAgent -----------------------------
(***************************************************************************)
(* The life of an asynchronous connect and of the agent requests made      *)
(* during it: connman_service_connect, connect_service_callback and        *)
(* connman_agent_response (src/api.c), connman_call_async and its ready    *)
(* callback (src/connman-call.c), handle_method_call (src/connman-agent.c),*)
(* on top of the table of pending calls (CallWork).                        *)
(*                                                                         *)
(* Application threads call the library at any time.  One handler thread   *)
(* runs the main loop: it dispatches replies to Connect and the method     *)
(* calls of the agent interface one at a time, and runs the application's  *)
(* callbacks, from which the library may be called again.  ConnMan and     *)
(* the bus are external: they answer, fail or time out, and ask for input  *)
(* whenever they like.                                                     *)
(***************************************************************************)
EXTENDS CallWork, Sequences

CONSTANTS
    Handler,    \* the thread of connman_handler_func
    Requests,   \* D-Bus invocations of a method of our agent object
    Methods,    \* which: "input" for RequestInput, "other" for any other
    NoRequest   \* a NULL GDBusMethodInvocation pointer

ASSUME CAAssumption ==
    /\ Handler \in CWThreads
    /\ NoRequest \notin Requests
    /\ Methods \subseteq {"input", "other"}

Services == Keys    \* a connect's key is <<"service", service, "connect_service">>

VARIABLES
    pc,             \* pc[t]: where t is in a function of the library
    cw,             \* cw[t]: its local variable cw
    given,          \* given[c]: whether its caller passed a callback
    request_cb,     \* request_cb[c]: whether c->request_cb is set
    rpc,            \* rpc[c]: the D-Bus call Connect made for c
    notified,       \* history: how often the callback of c was run
    agent_event_cb, \* whether the application has set an agent callback
    invocation,     \* invocation[c]: c->invocation
    req,            \* req[i]: how far invocation i has come
    service,        \* service[i]: the service it is about
    told,           \* told[i]: the id the agent callback was given for i, or 0
    accepted,       \* history: the requests that call c accepted, in their order
    replies,        \* history: how many replies were sent to i
    answers,        \* history: the request the application meant to answer
    hpc,            \* where the handler thread is
    hcall,          \* its call_work, in connect_service_callback
    hreq,           \* its invocation, in handle_method_call
    hid,            \* the local copy of cw->id there
    crashed         \* g_variant_print was given NULL: the process is gone

apiVars == <<pc, cw, given>>
callVars == <<request_cb, rpc, notified>>
reqVars == <<invocation, req, service, told, accepted, replies, answers>>
hVars == <<hpc, hcall, hreq, hid>>
vars == <<cwVars, apiVars, callVars, agent_event_cb, reqVars, hVars, crashed>>

(* A thread waits for cw_mutex, to connect or to respond, or for            *)
(* agent_event_cb_mutex, to register; only a connect goes on after that.    *)
Waiting == {"enter", "respond", "register"}
Stages == {"out"} \cup Waiting \cup {"alloc", "fill", "issue", "store"}
RpcStates == {"none", "sent", "ok", "failed", "done"}
ReqStates == {"unsent", "input", "other", "taken"}
Places == {"loop", "read", "clear", "notify", "in_cb", "destroy",
           "prompt", "in_agent_cb"}
InConnectCallback == {"read", "clear", "notify", "in_cb", "destroy"}

Init ==
    /\ CWInit
    /\ pc = [t \in CWThreads |-> "out"]
    /\ cw = [t \in CWThreads |-> NoCall]
    /\ given = [c \in Calls |-> FALSE]
    /\ request_cb = [c \in Calls |-> FALSE]
    /\ rpc = [c \in Calls |-> "none"]
    /\ notified = [c \in Calls |-> 0]
    /\ agent_event_cb = FALSE
    /\ invocation = [c \in Calls |-> NoRequest]
    /\ req = [i \in Requests |-> "unsent"]
    /\ service = [i \in Requests |-> NoKey]
    /\ told = [i \in Requests |-> 0]
    /\ accepted = [c \in Calls |-> <<>>]
    /\ replies = [i \in Requests |-> 0]
    /\ answers = [i \in Requests |-> NoRequest]
    /\ hpc = "loop"
    /\ hcall = NoCall
    /\ hreq = NoRequest
    /\ hid = 0
    /\ crashed = FALSE

(* An application thread calls the library whenever it is not inside it;    *)
(* the handler thread only from within one of the application's callbacks   *)
(* (within a callback for an event of EventCallbacks it is like any thread  *)
(* that calls while nothing is dispatched).                                 *)
CanCall(t) ==
    /\ pc[t] = "out"
    /\ t = Handler => hpc \in {"in_cb", "in_agent_cb"}

(* Nothing happens any more once the process has crashed.                   *)
Alive == ~crashed /\ UNCHANGED crashed

Reply(i) == replies' = [replies EXCEPT ![i] = @ + 1]

-------------------------------------------------------------------------------
(* connman_service_connect(service, cb, user_data) on thread t.  It waits   *)
(* for cw_mutex; Bound: it is called only if there is memory for its call.  *)
ConnectEnter(t) ==
    /\ Alive
    /\ CanCall(t)
    /\ Cardinality({u \in CWThreads : pc[u] = "enter"})
           < Cardinality({c \in Calls : key[c] = NoKey})
    /\ pc' = [pc EXCEPT ![t] = "enter"]
    /\ UNCHANGED <<cwVars, cw, given, callVars, agent_event_cb, reqVars, hVars>>

(* With the mutex it looks at its arguments, for the first time: b tells    *)
(* whether cb is not NULL.                                                  *)
ConnectBegin(t, k, c, b) ==
    /\ Alive
    /\ pc[t] = "enter"
    /\ CreateBegin(t, k, c)
    /\ pc' = [pc EXCEPT ![t] = "alloc"]
    /\ cw' = [cw EXCEPT ![t] = c]
    /\ given' = [given EXCEPT ![c] = b]
    /\ UNCHANGED <<callVars, agent_event_cb, reqVars, hVars>>

(* CONNMAN_ERROR_CALL_IN_PROGRESS: the call returns FALSE.                  *)
ConnectRefused(t, k) ==
    /\ Alive
    /\ pc[t] = "enter"
    /\ cw_mutex = Free
    /\ LookupKey(k) # NoCall
    /\ pc' = [pc EXCEPT ![t] = "out"]
    /\ UNCHANGED <<cwVars, cw, given, callVars, agent_event_cb, reqVars, hVars>>

(* Variant: the hook is never set.                                          *)
ConnectAllocUnhooked(t) ==
    /\ Alive
    /\ pc[t] = "alloc"
    /\ CreateTryId(t)
    /\ pc' = [pc EXCEPT ![t] = IF cw_mutex' = Free THEN "issue" ELSE "alloc"]
    /\ UNCHANGED <<cw, given, callVars, agent_event_cb, reqVars, hVars>>

ConnectAlloc(t) ==
    /\ Alive
    /\ pc[t] = "alloc"
    /\ CreateTryId(t)
    /\ pc' = [pc EXCEPT ![t] = IF cw_mutex' = Free THEN "fill" ELSE "alloc"]
    /\ UNCHANGED <<cw, given, callVars, agent_event_cb, reqVars, hVars>>

(* The callback hook is set with cw_mutex released.                         *)
ConnectFill(t) ==
    /\ Alive
    /\ pc[t] = "fill"
    /\ request_cb' = [request_cb EXCEPT ![cw[t]] = given[cw[t]]]
    /\ pc' = [pc EXCEPT ![t] = "issue"]
    /\ UNCHANGED <<cwVars, cw, given, rpc, notified, agent_event_cb, reqVars,
                   hVars>>

ConnectIssue(t) ==
    /\ Alive
    /\ pc[t] = "issue"
    /\ rpc' = [rpc EXCEPT ![cw[t]] = "sent"]
    /\ pc' = [pc EXCEPT ![t] = "store"]
    /\ UNCHANGED <<cwVars, cw, given, request_cb, notified, agent_event_cb,
                   reqVars, hVars>>

(* cw->cpw is stored when the reply may have been dispatched already.       *)
ConnectStore(t) ==
    /\ Alive
    /\ pc[t] = "store"
    /\ pc' = [pc EXCEPT ![t] = "out"]
    /\ cw' = [cw EXCEPT ![t] = NoCall]
    /\ UNCHANGED <<cwVars, given, callVars, agent_event_cb, reqVars, hVars>>

(* connman_agent_response(id, parameters) on thread t waits for cw_mutex;   *)
(* the application answers what it was told.                                *)
RespondEnter(t) ==
    /\ Alive
    /\ CanCall(t)
    /\ \E i \in Requests : told[i] # 0
    /\ pc' = [pc EXCEPT ![t] = "respond"]
    /\ UNCHANGED <<cwVars, cw, given, callVars, agent_event_cb, reqVars, hVars>>

(* With the mutex it looks at its id, for the first time: it is the answer  *)
(* to request i, under the id the application was told.                     *)
RespondReturn(t, i) ==
    /\ Alive
    /\ pc[t] = "respond"
    /\ told[i] # 0
    /\ cw_mutex = Free
    /\ pc' = [pc EXCEPT ![t] = "out"]
    /\ UNCHANGED <<cwVars, cw, given, callVars, agent_event_cb, req, service, told,
                   accepted, hVars>>

(* Variant: the answered invocation is not forgotten.                       *)
AgentResponseKeeping(t, i) ==
    LET c == LookupId(told[i])
    IN  /\ RespondReturn(t, i)
        /\ c # NoCall
        /\ invocation[c] # NoRequest
        /\ Reply(invocation[c])
        /\ answers' = [answers EXCEPT ![invocation[c]] = i]
        /\ UNCHANGED invocation

(* Variant: the answer goes to any call with an invocation.                 *)
AgentResponseToAny(t, i) ==
    LET c == LookupIn({d \in cw_pending : invocation[d] # NoRequest})
    IN  /\ RespondReturn(t, i)
        /\ c # NoCall
        /\ Reply(invocation[c])
        /\ answers' = [answers EXCEPT ![invocation[c]] = i]
        /\ invocation' = [invocation EXCEPT ![c] = NoRequest]

(* It looks for the call and replies to what it holds.                      *)
AgentResponse(t, i) ==
    LET c == LookupId(told[i])
    IN  /\ RespondReturn(t, i)
        /\ IF c = NoCall \/ invocation[c] = NoRequest
           THEN UNCHANGED <<invocation, replies, answers>>
           ELSE /\ Reply(invocation[c])
                /\ answers' = [answers EXCEPT ![invocation[c]] = i]
                /\ invocation' = [invocation EXCEPT ![c] = NoRequest]

(* connman_add_agent_event_callback: it waits for agent_event_cb_mutex,     *)
(* which the handler holds while it runs the callback.                      *)
RegisterEnter(t) ==
    /\ Alive
    /\ CanCall(t)
    /\ pc' = [pc EXCEPT ![t] = "register"]
    /\ UNCHANGED <<cwVars, cw, given, callVars, agent_event_cb, reqVars, hVars>>

AddAgentCallback(t) ==
    /\ Alive
    /\ pc[t] = "register"
    /\ hpc # "in_agent_cb"
    /\ agent_event_cb' = TRUE
    /\ pc' = [pc EXCEPT ![t] = "out"]
    /\ UNCHANGED <<cwVars, cw, given, callVars, reqVars, hVars>>

-------------------------------------------------------------------------------
(* ConnMan and the bus.                                                     *)

(* A reply to Connect, an error reply, or the local DBUS_REPLY_TIMEOUT.     *)
ConnmanReplies(c, outcome) ==
    /\ Alive
    /\ rpc[c] = "sent"
    /\ rpc' = [rpc EXCEPT ![c] = outcome]
    /\ UNCHANGED <<cwVars, apiVars, request_cb, notified, agent_event_cb,
                   reqVars, hVars>>

(* A method call to our agent object: RequestInput, or anything else.       *)
ConnmanRequests(i, k, what) ==
    /\ Alive
    /\ req[i] = "unsent"
    /\ req' = [req EXCEPT ![i] = what]
    /\ service' = [service EXCEPT ![i] = k]
    /\ UNCHANGED <<cwVars, apiVars, callVars, agent_event_cb, invocation, told,
                   accepted, replies, answers, hVars>>

-------------------------------------------------------------------------------
(* The handler thread: the reply to Connect.                                *)

(* connman_call_async_ready calls connect_service_callback.                 *)
DispatchReply(c) ==
    /\ Alive
    /\ hpc = "loop"
    /\ rpc[c] \in {"ok", "failed"}
    /\ hpc' = IF rpc[c] = "ok" THEN "notify" ELSE "read"
    /\ hcall' = c
    /\ rpc' = [rpc EXCEPT ![c] = "done"]
    /\ UNCHANGED <<cwVars, apiVars, request_cb, notified, agent_event_cb,
                   reqVars, hreq, hid>>

(* The service's Error property is read by a synchronous call.  A reply     *)
(* either has the property or not; without a reply, connman_get_properties  *)
(* prints the NULL variant.                                                 *)
ReadError ==
    /\ ~crashed
    /\ hpc = "read"
    /\ \/ hpc' \in {"clear", "notify"} /\ UNCHANGED crashed
       \/ hpc' = "read" /\ crashed' = TRUE
    /\ UNCHANGED <<cwVars, apiVars, callVars, agent_event_cb, reqVars, hcall,
                   hreq, hid>>

(* ClearProperty, whose outcome is ignored.                                 *)
ClearError ==
    /\ Alive
    /\ hpc = "clear"
    /\ hpc' = "notify"
    /\ UNCHANGED <<cwVars, apiVars, callVars, agent_event_cb, reqVars, hcall,
                   hreq, hid>>

Notify ==
    /\ Alive
    /\ hpc = "notify"
    /\ IF request_cb[hcall]
       THEN /\ notified' = [notified EXCEPT ![hcall] = @ + 1]
            /\ hpc' = "in_cb"
       ELSE /\ hpc' = "destroy"
            /\ UNCHANGED notified
    /\ UNCHANGED <<cwVars, apiVars, request_cb, rpc, agent_event_cb, reqVars,
                   hcall, hreq, hid>>

(* Variant: the callback may be run again.                                  *)
CallbackReturnsAgain ==
    /\ Alive
    /\ hpc = "in_cb"
    /\ pc[Handler] = "out"
    /\ hpc' \in {"notify", "destroy"}
    /\ UNCHANGED <<cwVars, apiVars, callVars, agent_event_cb, reqVars, hcall,
                   hreq, hid>>

(* Variant: a call with a callback is not destroyed.                        *)
CallbackReturnsEarly ==
    /\ Alive
    /\ hpc = "in_cb"
    /\ pc[Handler] = "out"
    /\ hpc' = "loop"
    /\ hcall' = NoCall
    /\ UNCHANGED <<cwVars, apiVars, callVars, agent_event_cb, reqVars, hreq, hid>>

CallbackReturns ==
    /\ Alive
    /\ hpc = "in_cb"
    /\ pc[Handler] = "out"
    /\ hpc' = "destroy"
    /\ UNCHANGED <<cwVars, apiVars, callVars, agent_event_cb, reqVars, hcall,
                   hreq, hid>>

DestroyCall ==
    /\ Alive
    /\ hpc = "destroy"
    /\ Destroy(hcall)
    /\ hpc' = "loop"
    /\ hcall' = NoCall
    /\ UNCHANGED <<apiVars, callVars, agent_event_cb, reqVars, hreq, hid>>

-------------------------------------------------------------------------------
(* The handler thread: handle_method_call.                                  *)

(* Variant: a request nobody can answer is dropped.                         *)
CancelRequestSilent(i) ==
    /\ Alive
    /\ hpc = "loop"
    /\ req[i] = "input"
    /\ cw_mutex = Free
    /\ LookupKey(service[i]) = NoCall
    /\ req' = [req EXCEPT ![i] = "taken"]
    /\ UNCHANGED <<cwVars, apiVars, callVars, agent_event_cb, invocation, service,
                   told, accepted, replies, answers, hVars>>

(* Variant: the application is asked under the -1 that says nothing is      *)
(* pending.                                                                 *)
CancelRequestAsking(i) ==
    /\ Alive
    /\ hpc = "loop"
    /\ req[i] = "input"
    /\ cw_mutex = Free
    /\ LookupKey(service[i]) = NoCall
    /\ req' = [req EXCEPT ![i] = "taken"]
    /\ hid' = -1
    /\ hreq' = i
    /\ hpc' = "prompt"
    /\ UNCHANGED <<cwVars, apiVars, callVars, agent_event_cb, invocation, service,
                   told, accepted, replies, answers, hcall>>

(* RequestInput while no connect to the service is pending: Canceled.       *)
CancelRequest(i) ==
    /\ Alive
    /\ hpc = "loop"
    /\ req[i] = "input"
    /\ cw_mutex = Free
    /\ LookupKey(service[i]) = NoCall
    /\ req' = [req EXCEPT ![i] = "taken"]
    /\ Reply(i)
    /\ UNCHANGED <<cwVars, apiVars, callVars, agent_event_cb, invocation, service,
                   told, accepted, answers, hVars>>

(* Variant: the mutex is still held when the callback is run.               *)
TakeRequestLocked(i) ==
    LET c == LookupKey(service[i])
    IN  /\ Alive
        /\ hpc = "loop"
        /\ req[i] = "input"
        /\ cw_mutex = Free
        /\ c # NoCall
        /\ cw_mutex' = Handler
        /\ req' = [req EXCEPT ![i] = "taken"]
        /\ invocation' = [invocation EXCEPT ![c] = i]
        /\ accepted' = [accepted EXCEPT ![c] = Append(@, i)]
        /\ hid' = id[c]
        /\ hreq' = i
        /\ hpc' = "prompt"
        /\ UNCHANGED <<next_cw_id, cw_pending, creating, key, id, closed, apiVars,
                       callVars, agent_event_cb, service, told, replies, answers,
                       hcall>>

(* Variant: the application is not asked.                                   *)
TakeRequestUnasked(i) ==
    LET c == LookupKey(service[i])
    IN  /\ Alive
        /\ hpc = "loop"
        /\ req[i] = "input"
        /\ cw_mutex = Free
        /\ c # NoCall
        /\ req' = [req EXCEPT ![i] = "taken"]
        /\ invocation' = [invocation EXCEPT ![c] = i]
        /\ accepted' = [accepted EXCEPT ![c] = Append(@, i)]
        /\ UNCHANGED <<cwVars, apiVars, callVars, agent_event_cb, service, told,
                       replies, answers, hVars>>

(* The pending call keeps the invocation, in place of any it had.           *)
TakeRequest(i) ==
    LET c == LookupKey(service[i])
    IN  /\ Alive
        /\ hpc = "loop"
        /\ req[i] = "input"
        /\ cw_mutex = Free
        /\ c # NoCall
        /\ req' = [req EXCEPT ![i] = "taken"]
        /\ invocation' = [invocation EXCEPT ![c] = i]
        /\ accepted' = [accepted EXCEPT ![c] = Append(@, i)]
        /\ hid' = id[c]
        /\ hreq' = i
        /\ hpc' = "prompt"
        /\ UNCHANGED <<cwVars, apiVars, callVars, agent_event_cb, service, told,
                       replies, answers, hcall>>

(* run_callback, with cw_mutex released.                                    *)
Prompt ==
    /\ Alive
    /\ hpc = "prompt"
    /\ IF agent_event_cb
       THEN /\ told' = [told EXCEPT ![hreq] = hid]
            /\ hpc' = "in_agent_cb"
       ELSE /\ hpc' = "loop"
            /\ UNCHANGED told
    /\ hreq' = NoRequest
    /\ hid' = 0
    /\ UNCHANGED <<cwVars, apiVars, callVars, agent_event_cb, invocation, req,
                   service, accepted, replies, answers, hcall>>

AgentCallbackReturns ==
    /\ Alive
    /\ hpc = "in_agent_cb"
    /\ pc[Handler] = "out"
    /\ hpc' = "loop"
    /\ UNCHANGED <<cwVars, apiVars, callVars, agent_event_cb, reqVars, hcall,
                   hreq, hid>>

(* ReportError is acknowledged, an unknown method is refused: one reply.    *)
HandleOther(i) ==
    /\ Alive
    /\ hpc = "loop"
    /\ req[i] = "other"
    /\ req' = [req EXCEPT ![i] = "taken"]
    /\ Reply(i)
    /\ UNCHANGED <<cwVars, apiVars, callVars, agent_event_cb, invocation, service,
                   told, accepted, answers, hVars>>

-------------------------------------------------------------------------------
Api(t) ==
    \/ ConnectEnter(t)
    \/ \E k \in Services, c \in Calls, b \in BOOLEAN : ConnectBegin(t, k, c, b)
    \/ \E k \in Services : ConnectRefused(t, k)
    \/ ConnectAlloc(t)
    \/ ConnectFill(t)
    \/ ConnectIssue(t)
    \/ ConnectStore(t)
    \/ RespondEnter(t)
    \/ \E i \in Requests : AgentResponse(t, i)
    \/ RegisterEnter(t)
    \/ AddAgentCallback(t)

Connman ==
    \/ \E c \in Calls, outcome \in {"ok", "failed"} : ConnmanReplies(c, outcome)
    \/ \E i \in Requests, k \in Services, what \in Methods : ConnmanRequests(i, k, what)

HandlerStep ==
    \/ \E c \in Calls : DispatchReply(c)
    \/ ReadError
    \/ ClearError
    \/ Notify
    \/ CallbackReturns
    \/ DestroyCall
    \/ \E i \in Requests : CancelRequest(i) \/ TakeRequest(i) \/ HandleOther(i)
    \/ Prompt
    \/ AgentCallbackReturns

Next ==
    \/ \E t \in CWThreads : Api(t)
    \/ Connman
    \/ HandlerStep

Spec == Init /\ [][Next]_vars

InsideApi(t) ==
    ConnectAlloc(t) \/ ConnectFill(t) \/ ConnectIssue(t) \/ ConnectStore(t)

GetsMutex(t) ==
    \/ \E k \in Services, c \in Calls, b \in BOOLEAN : ConnectBegin(t, k, c, b)
    \/ \E k \in Services : ConnectRefused(t, k)
    \/ \E i \in Requests : AgentResponse(t, i)
    \/ AddAgentCallback(t)

InsideCallback == ReadError \/ ClearError \/ Notify \/ Prompt

(* Threads keep running, synchronous calls end and calls to ConnMan are     *)
(* answered (by the bus's timeout if by nobody else), and the application's *)
(* callbacks return, however often they call the library before.  The main  *)
(* loop dispatches its sources first in, first out, and a thread waiting    *)
(* for a mutex gets it some time, even if others keep coming.               *)
Fairness ==
    /\ \A t \in CWThreads : WF_vars(InsideApi(t)) /\ SF_vars(GetsMutex(t))
    /\ \A c \in Calls :
           WF_vars(\E outcome \in {"ok", "failed"} : ConnmanReplies(c, outcome))
    /\ WF_vars(InsideCallback)
    /\ SF_vars(CallbackReturns \/ AgentCallbackReturns)
    /\ SF_vars(DestroyCall)
    /\ \A c \in Calls : SF_vars(DispatchReply(c))
    /\ \A i \in Requests :
           SF_vars(CancelRequest(i) \/ TakeRequest(i) \/ HandleOther(i))

FairSpec == Spec /\ Fairness

(* The application also answers every request its agent callback was run    *)
(* for.                                                                     *)
AnsweringSpec ==
    FairSpec /\ \A i \in Requests :
        /\ SF_vars(\E t \in CWThreads : RespondEnter(t))
        /\ SF_vars(\E t \in CWThreads : AgentResponse(t, i))

-------------------------------------------------------------------------------
(* Type invariant.                                                          *)
CATypeOK ==
    /\ CWTypeOK
    /\ pc \in [CWThreads -> Stages]
    /\ cw \in [CWThreads -> Calls \cup {NoCall}]
    /\ given \in [Calls -> BOOLEAN]
    /\ request_cb \in [Calls -> BOOLEAN]
    /\ rpc \in [Calls -> RpcStates]
    /\ notified \in [Calls -> Nat]
    /\ agent_event_cb \in BOOLEAN
    /\ invocation \in [Calls -> Requests \cup {NoRequest}]
    /\ req \in [Requests -> ReqStates]
    /\ service \in [Requests -> Services \cup {NoKey}]
    /\ told \in [Requests -> IdValues \cup {0}]
    /\ accepted \in [Calls -> Seq(Requests)]
    /\ replies \in [Requests -> Nat]
    /\ answers \in [Requests -> Requests \cup {NoRequest}]
    /\ hpc \in Places
    /\ hcall \in Calls \cup {NoCall}
    /\ hreq \in Requests \cup {NoRequest}
    /\ hid \in IdValues \cup {0}
    /\ crashed \in BOOLEAN

(* Two attempts to connect to one service never overlap: while Connect is   *)
(* unanswered at ConnMan, or its reply waits for the handler thread, or the *)
(* application's callback for it runs, no thread (the callback included)    *)
(* has another one under way.                                               *)
UnderWay(c) == rpc[c] \in {"sent", "ok", "failed"} \/ (hcall = c /\ hpc # "loop")

OneConnectPerService ==
    \A c, d \in Calls : UnderWay(c) /\ UnderWay(d) /\ key[c] = key[d] => c = d

(* The callback handed to connman_service_connect runs at most once, only   *)
(* for a caller that passed one and only when Connect is over; and a call   *)
(* whose caller passed one is not destroyed before it ran - although the    *)
(* hook is written after the call is in the table and without its mutex.    *)
CallbackExactlyOnce ==
    \A c \in Calls :
        /\ notified[c] <= 1
        /\ notified[c] = 1 => given[c] /\ rpc[c] = "done"
        /\ c \in closed /\ given[c] => notified[c] = 1

(* An invocation is replied to at most once (a second reply would release   *)
(* it twice), although any number of threads may answer under one id while  *)
(* the handler thread replaces the invocation; what a call holds is an      *)
(* unanswered request about its own service, and no other call holds it.    *)
AtMostOneReply == \A i \in Requests : replies[i] <= 1

HeldRequestIsOpen ==
    \A c \in Calls :
        LET i == invocation[c]
        IN  i # NoRequest =>
                /\ req[i] = "taken" /\ replies[i] = 0 /\ service[i] = key[c]
                /\ \A d \in Calls : invocation[d] = i => d = c

(* A RequestInput that was accepted and is not answered was replaced by one *)
(* that the same call accepted later, or is still what that call holds - as *)
(* it is, unheard, when the connect has ended: an invocation is lost in     *)
(* these two ways and no other.                                             *)
UnansweredIsExplained ==
    \A i \in Requests :
        req[i] = "taken" /\ replies[i] = 0 =>
            \E c \in Calls : \E n \in DOMAIN accepted[c] :
                /\ accepted[c][n] = i /\ key[c] = service[i]
                /\ n = Len(accepted[c]) => invocation[c] = i

(* An answer given for one service never goes to a request about another:   *)
(* ids are not reused (for as long as the counter has not wrapped around),  *)
(* so an answer that comes after its connect has ended meets no call.       *)
AnswerReachesItsService ==
    \A i \in Requests :
        answers[i] # NoRequest => service[answers[i]] = service[i]

(* cw_mutex is held only inside call_work_create: application code is never *)
(* run with it held, so a callback may call the library.                    *)
CallbacksRunUnlocked == \A t \in CWThreads : cw_mutex = t <=> pc[t] = "alloc"

(* A registration made from within the agent callback waits for the mutex   *)
(* that its own thread holds.                                               *)
SelfBlocked == hpc = "in_agent_cb" /\ pc[Handler] = "register"

(* Every accepted connect ends, with its callback run and its slot free,    *)
(* unless the handler thread has blocked itself.                            *)
ConnectCompletes ==
    \A c \in Calls :
        c \in cw_pending ~>
            crashed \/ SelfBlocked \/ (c \notin cw_pending /\ (given[c] => notified[c] = 1))

(* Every call of the library returns, from within a callback as well and    *)
(* also when the handler thread has blocked itself - but for the            *)
(* registration of an agent callback, which then waits for ever.            *)
ApiReturns ==
    \A t \in CWThreads :
        pc[t] # "out" ~> crashed \/ pc[t] = "out" \/ (pc[t] = "register" /\ SelfBlocked)

(* Every RequestInput is refused, or shown to the application if it has set *)
(* an agent callback, unless the handler thread has blocked itself.         *)
RequestsAreShown ==
    \A i \in Requests :
        req[i] = "input" /\ agent_event_cb ~>
            crashed \/ SelfBlocked \/ told[i] # 0 \/ replies[i] = 1

(* Every RequestInput is replied to: its declaration has an out argument    *)
(* (connman-agent.c:58), and handle_method_call promises that "if nothing   *)
(* is pending return an error" (connman-agent.c:101).                       *)
RequestsAreAnswered ==
    \A i \in Requests :
        req[i] = "input" /\ agent_event_cb ~> crashed \/ SelfBlocked \/ replies[i] > 0

(* The Error property is read "if available to be specific" (api.c:868):    *)
(* when it cannot be read the process goes on.                              *)
ErrorPropertyIsOptional == ~crashed

(* What holds between any two steps: where the threads are in                *)
(* the library, *)
ThreadInv ==
    \A t \in CWThreads :
        /\ pc[t] \in {"out"} \cup Waiting <=> cw[t] = NoCall
        /\ pc[t] = "alloc" <=> cw_mutex = t
        /\ pc[t] = "alloc" => cw[t] = creating
        /\ pc[t] \in {"fill", "issue"} => cw[t] \in cw_pending /\ rpc[cw[t]] = "none"
        /\ pc[t] = "issue" => request_cb[cw[t]] = given[cw[t]]
        /\ pc[t] = "store" => rpc[cw[t]] # "none"
        /\ \A u \in CWThreads : cw[t] # NoCall /\ cw[u] = cw[t] => u = t

(* where each call is between Connect and its destruction, *)
CallInv ==
    /\ \A c \in Calls :
           /\ rpc[c] # "none" =>
                  c \in cw_pending \cup closed /\ request_cb[c] = given[c]
           /\ c \in closed => rpc[c] = "done"
           /\ rpc[c] = "done" => c = hcall \/ c \in closed
           /\ notified[c] =
                  IF given[c] /\ (c \in closed \/ (c = hcall /\ hpc \in {"in_cb", "destroy"}))
                  THEN 1 ELSE 0
    /\ IF hpc \in InConnectCallback
       THEN hcall \in cw_pending /\ rpc[hcall] = "done"
       ELSE hcall = NoCall

(* and which invocations have been replied to.                              *)
RequestInv ==
    /\ \A i \in Requests :
           /\ replies[i] = 0 \/ (replies[i] = 1 /\ req[i] = "taken")
           /\ req[i] # "unsent" => service[i] \in Services
    /\ HeldRequestIsOpen

CAInv == CATypeOK /\ CWInv /\ ThreadInv /\ CallInv /\ RequestInv

(* While identifiers are not reused: what the application was told of a     *)
(* request, or is about to be told, is the number of a call to its service, *)
(* and every answer was given for the service it went to.                   *)
IsToldOf(n, i) ==
    req[i] = "taken" /\ \E c \in Numbered : id[c] = n /\ key[c] = service[i]

AnswersInv ==
    /\ hpc = "prompt" => hreq \in Requests /\ IsToldOf(hid, hreq)
    /\ \A i \in Requests : told[i] # 0 => IsToldOf(told[i], i)
    /\ \A i \in Requests :
           answers[i] # NoRequest =>
               /\ req[i] = "taken" /\ req[answers[i]] = "taken"
               /\ service[answers[i]] = service[i]

(* Seen from outside, each call goes through open, told and closed; one told *)
(* a second time, or a request replied to twice, would step back.           *)
Contract == INSTANCE ConnectContract WITH
    stage <- [c \in Calls |->
                 IF c \in closed THEN "closed"
                 ELSE IF notified[c] = 1 THEN "told"
                 ELSE IF c \in cw_pending THEN "open" ELSE "new"],
    target <- [c \in Calls |-> IF c \in cw_pending \cup closed THEN key[c] ELSE NoKey],
    wants <- [c \in Calls |-> c \in cw_pending \cup closed /\ given[c]],
    answered <- {i \in Requests : replies[i] = 1},
    asked <- {i \in Requests : req[i] # "unsent"}

ImplementsContract == Contract!ContractSpec
===============================================================================
