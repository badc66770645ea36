-------------------------- MODULE ConnectAgentProofs --------------------------
(***************************************************************************)
(* Connects and agent requests, for every number of threads, services,     *)
(* calls and invocations and every width of int: every step uses the table *)
(* of pending calls as CallWork says, the inductive invariant CAInv, the   *)
(* safety properties that follow from it.                                  *)
(***************************************************************************)
EXTENDS ConnectAgent, CallWorkProofs

(* The call that connect_service_callback destroys was created, so that     *)
(* every step is one of the table's steps or leaves the table alone.        *)
LEMMA TableStep == CAInv /\ [Next]_vars => [CWNext]_cwVars
<1> SUFFICES ASSUME CAInv, [Next]_vars PROVE [CWNext]_cwVars
  OBVIOUS
<1>1. ASSUME NEW t \in CWThreads, Api(t) PROVE [CWNext]_cwVars
  <2>1. ASSUME NEW k \in Services, NEW c \in Calls, NEW b \in BOOLEAN,
               ConnectBegin(t, k, c, b)
        PROVE  CWNext
    <3>1. k \in Keys /\ CreateBegin(t, k, c)
      BY <2>1 DEF ConnectBegin, Services
    <3> QED
      BY <3>1 DEF CWNext
  <2>2. ASSUME ConnectAlloc(t) PROVE CWNext
    BY <2>2 DEF ConnectAlloc, CWNext
  <2>3. CASE \E k \in Services : ConnectRefused(t, k)
    BY <2>3 DEF ConnectRefused
  <2>4. CASE ConnectFill(t) \/ ConnectIssue(t) \/ ConnectStore(t)
    BY <2>4 DEF ConnectFill, ConnectIssue, ConnectStore
  <2>5. CASE RespondEnter(t) \/ \E i \in Requests : AgentResponse(t, i)
    BY <2>5 DEF RespondEnter, AgentResponse, RespondReturn
  <2>6. CASE ConnectEnter(t) \/ RegisterEnter(t) \/ AddAgentCallback(t)
    BY <2>6 DEF ConnectEnter, RegisterEnter, AddAgentCallback
  <2> QED
    BY <1>1, <2>1, <2>2, <2>3, <2>4, <2>5, <2>6 DEF Api
<1>2. CASE Connman
  BY <1>2 DEF Connman, ConnmanReplies, ConnmanRequests
<1>3. CASE DestroyCall
  <2>1. hcall \in cw_pending
    BY <1>3 DEF DestroyCall, CAInv, CallInv, InConnectCallback
  <2>2. PICK c \in Calls : c = hcall /\ Created(c)
    BY <2>1 DEF CAInv, CWInv, PendingUntilDestroyed
  <2>3. Destroy(c)
    BY <1>3, <2>2 DEF DestroyCall, Destroy
  <2> QED
    BY <2>2, <2>3 DEF CWNext
<1>4. CASE HandlerStep /\ ~DestroyCall
  BY <1>4 DEF HandlerStep, DispatchReply, ReadError, ClearError, Notify,
              CallbackReturns, CancelRequest, TakeRequest, HandleOther, Prompt,
              AgentCallbackReturns
<1>5. CASE UNCHANGED vars
  BY <1>5 DEF vars
<1> QED
  BY <1>1, <1>2, <1>3, <1>4, <1>5 DEF Next

-------------------------------------------------------------------------------
LEMMA CAInitInv == Init => CAInv
<1> SUFFICES ASSUME Init PROVE CAInv
  OBVIOUS
<1>1. CWInv
  BY CWInitInv DEF Init
<1>2. CATypeOK
  <2>1. <<>> \in Seq(Requests)
    OBVIOUS
  <2>2. accepted \in [Calls -> Seq(Requests)]
    BY <2>1 DEF Init
  <2> QED
    BY <1>1, <2>2 DEF Init, CATypeOK, Stages, Waiting, RpcStates, ReqStates, Places, CWInv
<1>3. ThreadInv
  BY CWAssumption DEF Init, CWInit, ThreadInv, Waiting
<1>4. CallInv
  BY DEF Init, CWInit, CallInv, InConnectCallback
<1>5. RequestInv
  BY DEF Init, RequestInv, HeldRequestIsOpen
<1> QED
  BY <1>1, <1>2, <1>3, <1>4, <1>5 DEF CAInv

(* Types, action by action.                                                 *)
LEMMA TypeStep ==
    ASSUME CAInv, Next, CWInv'
    PROVE  CATypeOK'
<1> USE DEF Stages, Waiting, RpcStates, ReqStates, Places
<1>1. CATypeOK /\ CWTypeOK /\ CWTypeOK'
  BY DEF CAInv, CWInv
<1>2. ASSUME NEW t \in CWThreads, Api(t) PROVE CATypeOK'
  <2>1. ASSUME NEW k \in Services, NEW c \in Calls, NEW b \in BOOLEAN,
               ConnectBegin(t, k, c, b)
        PROVE  CATypeOK'
    BY <1>1, <2>1 DEF ConnectBegin, CATypeOK, callVars, reqVars, hVars, Alive
  <2>2. CASE \E k \in Services : ConnectRefused(t, k)
    BY <1>1, <2>2 DEF ConnectRefused, CATypeOK, callVars, reqVars, hVars, Alive
  <2>3. CASE ConnectAlloc(t)
    BY <1>1, <2>3 DEF ConnectAlloc, CATypeOK, callVars, reqVars, hVars, Alive
  <2>4. CASE ConnectFill(t)
    <3>1. cw[t] \in Calls
      BY <1>1, <2>4 DEF ConnectFill, CAInv, ThreadInv, CWTypeOK
    <3> QED
      BY <1>1, <2>4, <3>1 DEF ConnectFill, CATypeOK, reqVars, hVars, Alive
  <2>5. CASE ConnectIssue(t)
    BY <1>1, <2>5 DEF ConnectIssue, CATypeOK, reqVars, hVars, Alive
  <2>6. CASE ConnectStore(t)
    BY <1>1, <2>6 DEF ConnectStore, CATypeOK, callVars, reqVars, hVars, Alive
  <2>7. ASSUME NEW i \in Requests, AgentResponse(t, i) PROVE CATypeOK'
    <3> DEFINE c == LookupId(told[i])
    <3>1. CASE c = NoCall \/ invocation[c] = NoRequest
      BY <1>1, <2>7, <3>1
         DEF AgentResponse, RespondReturn, CATypeOK, callVars, hVars, Alive
    <3>2. CASE ~(c = NoCall \/ invocation[c] = NoRequest)
      <4>1. c \in Calls
        BY <1>1, <3>2, LookupIdResult DEF CWTypeOK
      <4>2. invocation[c] \in Requests
        BY <1>1, <3>2, <4>1 DEF CATypeOK
      <4>3. /\ replies' = [replies EXCEPT ![invocation[c]] = @ + 1]
            /\ answers' = [answers EXCEPT ![invocation[c]] = i]
            /\ invocation' = [invocation EXCEPT ![c] = NoRequest]
        BY <2>7, <3>2 DEF AgentResponse, Reply
      <4>4. RespondReturn(t, i)
        BY <2>7 DEF AgentResponse
      <4> HIDE DEF c
      <4>5. /\ replies' \in [Requests -> Nat]
            /\ answers' \in [Requests -> Requests \cup {NoRequest}]
            /\ invocation' \in [Calls -> Requests \cup {NoRequest}]
        BY <1>1, <4>1, <4>2, <4>3 DEF CATypeOK
      <4> QED
        BY <1>1, <4>4, <4>5 DEF RespondReturn, CATypeOK, callVars, hVars, Alive
    <3> QED
      BY <3>1, <3>2
  <2>8. CASE AddAgentCallback(t)
    BY <1>1, <2>8 DEF AddAgentCallback, CATypeOK, callVars, reqVars, hVars, Alive
  <2>9. CASE ConnectEnter(t) \/ RegisterEnter(t)
    BY <1>1, <2>9
       DEF ConnectEnter, RegisterEnter, CATypeOK, callVars, reqVars, hVars, Alive
  <2>10. CASE RespondEnter(t)
    BY <1>1, <2>10 DEF RespondEnter, CATypeOK, callVars, reqVars, hVars, Alive
  <2> QED
    BY <1>2, <2>1, <2>2, <2>3, <2>4, <2>5, <2>6, <2>7, <2>8, <2>9, <2>10 DEF Api
<1>3. CASE Connman
  <2>1. ASSUME NEW c \in Calls, NEW outcome \in {"ok", "failed"}, ConnmanReplies(c, outcome)
        PROVE  CATypeOK'
    BY <1>1, <2>1 DEF ConnmanReplies, CATypeOK, apiVars, reqVars, hVars, Alive
  <2>2. ASSUME NEW i \in Requests, NEW k \in Services, NEW what \in Methods,
               ConnmanRequests(i, k, what)
        PROVE  CATypeOK'
    BY <1>1, <2>2, CAAssumption DEF ConnmanRequests, CATypeOK, apiVars, callVars, hVars, Alive
  <2> QED
    BY <1>3, <2>1, <2>2 DEF Connman
<1>4. CASE HandlerStep
  <2>1. ASSUME NEW c \in Calls, DispatchReply(c) PROVE CATypeOK'
    BY <1>1, <2>1 DEF DispatchReply, CATypeOK, apiVars, reqVars, Alive
  <2>2. CASE ReadError
    BY <1>1, <2>2 DEF ReadError, CATypeOK, apiVars, callVars, reqVars
  <2>3. CASE ClearError
    BY <1>1, <2>3 DEF ClearError, CATypeOK, apiVars, callVars, reqVars, Alive
  <2>4. CASE Notify
    <3>1. notified' \in [Calls -> Nat]
      <4>1. CASE UNCHANGED notified
        BY <1>1, <4>1 DEF CATypeOK
      <4>2. CASE notified' = [notified EXCEPT ![hcall] = @ + 1]
        <5>1. notified \in [Calls -> Nat]
          BY <1>1 DEF CATypeOK
        <5>2. hcall \in Calls => notified[hcall] + 1 \in Nat
          BY <5>1
        <5> QED
          BY <4>2, <5>1, <5>2
      <4> QED
        BY <2>4, <4>1, <4>2 DEF Notify
    <3> QED
      BY <1>1, <2>4, <3>1 DEF Notify, CATypeOK, apiVars, reqVars, Alive
  <2>5. CASE CallbackReturns
    BY <1>1, <2>5 DEF CallbackReturns, CATypeOK, apiVars, callVars, reqVars, Alive
  <2>6. CASE DestroyCall
    BY <1>1, <2>6 DEF DestroyCall, CATypeOK, apiVars, callVars, reqVars, Alive
  <2>7. ASSUME NEW i \in Requests, CancelRequest(i) PROVE CATypeOK'
    BY <1>1, <2>7 DEF CancelRequest, CATypeOK, Reply, apiVars, callVars, hVars, Alive
  <2>8. ASSUME NEW i \in Requests, TakeRequest(i) PROVE CATypeOK'
    <3>1. LookupKey(service[i]) \in Calls
      BY <1>1, <2>8, LookupKeyResult DEF TakeRequest, CWTypeOK
    <3>2. id[LookupKey(service[i])] \in IdValues \cup {0}
      BY <1>1, <3>1 DEF CWTypeOK
    <3>3. accepted' \in [Calls -> Seq(Requests)]
      <4>1. accepted[LookupKey(service[i])] \in Seq(Requests)
        BY <1>1, <3>1 DEF CATypeOK
      <4>2. Append(accepted[LookupKey(service[i])], i) \in Seq(Requests)
        BY <4>1
      <4> QED
        BY <1>1, <2>8, <3>1, <4>2 DEF TakeRequest, CATypeOK
    <3> QED
      BY <1>1, <2>8, <3>1, <3>2, <3>3 DEF TakeRequest, CATypeOK, apiVars, callVars, Alive
  <2>9. ASSUME NEW i \in Requests, HandleOther(i) PROVE CATypeOK'
    BY <1>1, <2>9 DEF HandleOther, CATypeOK, Reply, apiVars, callVars, hVars, Alive
  <2>10. CASE Prompt
    BY <1>1, <2>10 DEF Prompt, CATypeOK, apiVars, callVars, Alive
  <2>11. CASE AgentCallbackReturns
    BY <1>1, <2>11 DEF AgentCallbackReturns, CATypeOK, apiVars, callVars, reqVars, Alive
  <2> QED
    BY <1>4, <2>1, <2>2, <2>3, <2>4, <2>5, <2>6, <2>7, <2>8, <2>9, <2>10, <2>11
       DEF HandlerStep
<1> QED
  BY <1>2, <1>3, <1>4 DEF Next

-------------------------------------------------------------------------------
(* A thread inside connman_service_connect, past the wait for the mutex,    *)
(* has a call of its own, which is no longer free memory.                   *)
LEMMA OwnCall ==
    ASSUME CAInv, NEW t \in CWThreads, pc[t] \notin {"out"} \cup Waiting
    PROVE  cw[t] \in Calls /\ key[cw[t]] # NoKey
<1>1. cw[t] \in Calls
  BY DEF CAInv, CATypeOK, ThreadInv
<1>2. \A c \in cw_pending \cup closed : key[c] # NoKey
  BY DEF CAInv, CWInv, PendingUntilDestroyed, Created
<1>3. CASE pc[t] = "alloc"
  BY <1>1, <1>3, CWAssumption DEF CAInv, ThreadInv, CWInv
<1>4. CASE pc[t] \in {"fill", "issue"}
  BY <1>1, <1>2, <1>4 DEF CAInv, ThreadInv
<1>5. CASE pc[t] = "store"
  BY <1>1, <1>2, <1>5 DEF CAInv, ThreadInv, CallInv
<1>6. pc[t] = "alloc" \/ pc[t] \in {"fill", "issue"} \/ pc[t] = "store"
  <2>1. pc[t] \in Stages
    BY DEF CAInv, CATypeOK
  <2> QED
    BY <2>1 DEF Stages, Waiting
<1> QED
  BY <1>3, <1>4, <1>5, <1>6

(* An object that is still free memory is nobody's call.                    *)
LEMMA FreeCall ==
    ASSUME CAInv, NEW c \in Calls, key[c] = NoKey
    PROVE  /\ c \notin cw_pending /\ c \notin closed /\ c # hcall
           /\ \A t \in CWThreads : cw[t] # c
           /\ rpc[c] = "none"
<1>1. c \notin cw_pending /\ c \notin closed
  BY DEF CAInv, CWInv, PendingUntilDestroyed, Created
<1>2. \A t \in CWThreads : cw[t] # c
  BY OwnCall, CWAssumption DEF CAInv, ThreadInv
<1> QED
  BY <1>1, <1>2, CWAssumption DEF CAInv, CallInv

LEMMA ThreadStep ==
    ASSUME CAInv, Next
    PROVE  ThreadInv'
<1> USE DEF Waiting
<1>1. CATypeOK /\ CWTypeOK /\ ThreadInv
  BY DEF CAInv, CWInv
<1>2. ASSUME NEW t \in CWThreads, NEW k \in Services, NEW c \in Calls, NEW b \in BOOLEAN,
             ConnectBegin(t, k, c, b)
      PROVE  ThreadInv'
  <2>1. \A u \in CWThreads : cw[u] # c
    BY <1>2, FreeCall DEF ConnectBegin, CreateBegin
  <2>2. /\ pc' = [pc EXCEPT ![t] = "alloc"] /\ cw' = [cw EXCEPT ![t] = c]
        /\ cw_mutex' = t /\ creating' = c /\ cw_mutex = Free
        /\ given' = [given EXCEPT ![c] = b]
        /\ UNCHANGED <<rpc, request_cb, cw_pending>>
    BY <1>2 DEF ConnectBegin, CreateBegin, callVars
  <2>3. \A u \in CWThreads : pc[u] # "alloc"
    BY <1>1, <2>2, CWAssumption DEF ThreadInv
  <2> QED
    BY <1>1, <2>1, <2>2, <2>3, CWAssumption DEF ThreadInv, CATypeOK
<1>3. ASSUME NEW t \in CWThreads, ConnectAlloc(t) PROVE ThreadInv'
  <2>1. /\ cw_mutex = t /\ pc[t] = "alloc" /\ cw[t] = creating
        /\ pc' = [pc EXCEPT ![t] = IF cw_mutex' = Free THEN "fill" ELSE "alloc"]
        /\ UNCHANGED <<cw, given, rpc, request_cb>>
    BY <1>1, <1>3 DEF ConnectAlloc, CreateTryId, callVars, ThreadInv
  <2>2. creating \in Calls /\ rpc[creating] = "none"
    <3>1. creating \in Calls /\ creating \notin cw_pending /\ creating \notin closed
      BY <2>1, CWAssumption DEF CAInv, CWInv, CWTypeOK, PendingUntilDestroyed, Created
    <3> QED
      BY <3>1 DEF CAInv, CallInv
  <2>3. \/ UNCHANGED <<cw_mutex, cw_pending, creating>>
        \/ cw_pending' = cw_pending \cup {creating} /\ cw_mutex' = Free
    BY <1>3 DEF ConnectAlloc, CreateTryId
  <2> QED
    BY <1>1, <2>1, <2>2, <2>3, CWAssumption DEF ThreadInv, CATypeOK
<1>4. ASSUME NEW t \in CWThreads, ConnectFill(t) PROVE ThreadInv'
  BY <1>1, <1>4, CWAssumption DEF ConnectFill, ThreadInv, CATypeOK, CWTypeOK, cwVars
<1>5. ASSUME NEW t \in CWThreads, ConnectIssue(t) PROVE ThreadInv'
  BY <1>1, <1>5, CWAssumption DEF ConnectIssue, ThreadInv, CATypeOK, CWTypeOK, cwVars
<1>6. ASSUME NEW t \in CWThreads, ConnectStore(t) PROVE ThreadInv'
  BY <1>1, <1>6, CWAssumption
     DEF ConnectStore, ThreadInv, CATypeOK, CWTypeOK, cwVars, callVars
<1>7. ASSUME NEW c \in Calls, NEW outcome \in {"ok", "failed"}, ConnmanReplies(c, outcome)
      PROVE  ThreadInv'
  BY <1>1, <1>7 DEF ConnmanReplies, ThreadInv, CATypeOK, CWTypeOK, cwVars, apiVars
<1>8. ASSUME NEW c \in Calls, DispatchReply(c) PROVE ThreadInv'
  BY <1>1, <1>8 DEF DispatchReply, ThreadInv, CATypeOK, CWTypeOK, cwVars, apiVars
<1>9. CASE DestroyCall
  <2>1. rpc[hcall] = "done"
    BY <1>9 DEF DestroyCall, CAInv, CallInv, InConnectCallback
  <2>2. cw_pending \ {hcall} \subseteq cw_pending'
    BY <1>9 DEF DestroyCall, Destroy
  <2>3. UNCHANGED <<cw_mutex, creating, pc, cw, given, rpc, request_cb>>
    BY <1>9 DEF DestroyCall, Destroy, apiVars, callVars
  <2> QED
    BY <1>1, <2>1, <2>2, <2>3 DEF ThreadInv
<1>10. ASSUME UNCHANGED <<cw_mutex, creating, cw_pending, pc, cw, given, rpc,
                          request_cb>>
       PROVE  ThreadInv'
  BY <1>1, <1>10 DEF ThreadInv
<1>11. ASSUME NEW t \in CWThreads,
              \/ \E k \in Services : ConnectRefused(t, k)
              \/ RespondEnter(t) \/ \E i \in Requests : AgentResponse(t, i)
              \/ ConnectEnter(t) \/ RegisterEnter(t) \/ AddAgentCallback(t)
       PROVE  ThreadInv'
  <2>1. PICK place \in {"out"} \cup Waiting :
            /\ pc[t] \in {"out"} \cup Waiting
            /\ pc' = [pc EXCEPT ![t] = place]
            /\ UNCHANGED <<cw_mutex, creating, cw_pending, cw, given, rpc, request_cb>>
    BY <1>11
       DEF ConnectRefused, RespondEnter, AgentResponse, RespondReturn, ConnectEnter,
           RegisterEnter, AddAgentCallback, CanCall, cwVars, callVars
  <2>2. /\ pc'[t] = place
        /\ \A u \in CWThreads : u # t => pc'[u] = pc[u]
    BY <1>1, <2>1 DEF CATypeOK
  <2> QED
    BY <1>1, <2>1, <2>2 DEF ThreadInv
<1>12. ASSUME NEW i \in Requests,
              \/ \E k \in Services, what \in Methods : ConnmanRequests(i, k, what)
              \/ CancelRequest(i)
              \/ TakeRequest(i)
              \/ HandleOther(i)
       PROVE  ThreadInv'
  BY <1>10, <1>12
     DEF ConnmanRequests, CancelRequest, TakeRequest, HandleOther, cwVars, apiVars, callVars
<1>13. CASE ReadError \/ ClearError \/ Notify \/ CallbackReturns \/ Prompt \/ AgentCallbackReturns
  BY <1>10, <1>13
     DEF ReadError, ClearError, Notify, CallbackReturns, Prompt, AgentCallbackReturns,
         cwVars, apiVars, callVars
<1> QED
  BY <1>2, <1>3, <1>4, <1>5, <1>6, <1>7, <1>8, <1>9, <1>11, <1>12, <1>13
     DEF Next, Api, Connman, HandlerStep

-------------------------------------------------------------------------------
(* Each step keeps a call's place between Connect and its destruction.      *)
LEMMA CallStep ==
    ASSUME CAInv, Next
    PROVE  CallInv'
<1> USE DEF InConnectCallback
<1>1. CATypeOK /\ CWTypeOK /\ CallInv
  BY DEF CAInv, CWInv
<1>2. ASSUME NEW t \in CWThreads, NEW k \in Services, NEW c \in Calls, NEW b \in BOOLEAN,
             ConnectBegin(t, k, c, b)
      PROVE  CallInv'
  <2>1. c \notin cw_pending /\ c \notin closed /\ c # hcall /\ rpc[c] = "none"
    BY <1>2, FreeCall DEF ConnectBegin, CreateBegin
  <2>2. /\ given' = [given EXCEPT ![c] = b]
        /\ UNCHANGED <<rpc, request_cb, notified, cw_pending, closed, hpc, hcall>>
    BY <1>2 DEF ConnectBegin, CreateBegin, callVars, hVars
  <2> QED
    BY <1>1, <2>1, <2>2 DEF CallInv, CATypeOK
<1>3. ASSUME NEW t \in CWThreads, ConnectAlloc(t) PROVE CallInv'
  <2>1. cw_pending \subseteq cw_pending'
    BY <1>3 DEF ConnectAlloc, CreateTryId
  <2>2. UNCHANGED <<rpc, request_cb, notified, given, closed, hpc, hcall>>
    BY <1>3 DEF ConnectAlloc, CreateTryId, callVars, hVars
  <2> QED
    BY <1>1, <2>1, <2>2 DEF CallInv
<1>4. ASSUME NEW t \in CWThreads, ConnectFill(t) PROVE CallInv'
  <2>1. cw[t] \in Calls /\ rpc[cw[t]] = "none"
    BY <1>1, <1>4 DEF ConnectFill, CAInv, ThreadInv, CWTypeOK
  <2>2. /\ request_cb' = [request_cb EXCEPT ![cw[t]] = given[cw[t]]]
        /\ UNCHANGED <<rpc, notified, given, cw_pending, closed, hpc, hcall>>
    BY <1>4 DEF ConnectFill, cwVars, hVars
  <2> QED
    BY <1>1, <2>1, <2>2 DEF CallInv, CATypeOK
<1>5. ASSUME NEW t \in CWThreads, ConnectIssue(t) PROVE CallInv'
  <2>1. /\ cw[t] \in cw_pending /\ rpc[cw[t]] = "none"
        /\ request_cb[cw[t]] = given[cw[t]]
    BY <1>1, <1>5 DEF ConnectIssue, CAInv, ThreadInv
  <2>2. /\ rpc' = [rpc EXCEPT ![cw[t]] = "sent"]
        /\ UNCHANGED <<request_cb, notified, given, cw_pending, closed, hpc, hcall>>
    BY <1>5 DEF ConnectIssue, cwVars, hVars
  <2> QED
    BY <1>1, <2>1, <2>2 DEF CallInv, CATypeOK, CWTypeOK
<1>6. ASSUME NEW c \in Calls, NEW outcome \in {"ok", "failed"}, ConnmanReplies(c, outcome)
      PROVE  CallInv'
  <2>1. /\ rpc[c] = "sent" /\ rpc' = [rpc EXCEPT ![c] = outcome]
        /\ UNCHANGED <<request_cb, notified, given, cw_pending, closed, hpc, hcall>>
    BY <1>6 DEF ConnmanReplies, cwVars, apiVars, hVars
  <2> QED
    BY <1>1, <2>1 DEF CallInv, CATypeOK
<1>7. ASSUME NEW c \in Calls, DispatchReply(c) PROVE CallInv'
  <2>1. /\ hpc = "loop" /\ rpc[c] \in {"ok", "failed"} /\ hpc' \in {"notify", "read"}
        /\ hcall' = c /\ rpc' = [rpc EXCEPT ![c] = "done"]
        /\ UNCHANGED <<request_cb, notified, given, cw_pending, closed>>
    BY <1>7 DEF DispatchReply, cwVars, apiVars
  <2>2. hcall = NoCall /\ c \in cw_pending /\ c \notin closed
    BY <1>1, <2>1 DEF CallInv
  <2> QED
    BY <1>1, <2>1, <2>2, CWAssumption DEF CallInv, CATypeOK
<1>8. CASE ReadError \/ ClearError
  <2>1. /\ hpc \in {"read", "clear"} /\ hpc' \in {"read", "clear", "notify"}
        /\ UNCHANGED <<rpc, request_cb, notified, given, cw_pending, closed, hcall>>
    BY <1>8 DEF ReadError, ClearError, cwVars, apiVars, callVars
  <2> QED
    BY <1>1, <2>1 DEF CallInv
<1>9. CASE Notify
  <2>1. /\ hpc = "notify"
        /\ UNCHANGED <<rpc, request_cb, given, cw_pending, closed, hcall>>
        /\ IF request_cb[hcall]
           THEN notified' = [notified EXCEPT ![hcall] = @ + 1] /\ hpc' = "in_cb"
           ELSE hpc' = "destroy" /\ UNCHANGED notified
    BY <1>9 DEF Notify, cwVars, apiVars
  <2>2. /\ hcall \in Calls /\ hcall \in cw_pending /\ hcall \notin closed
        /\ request_cb[hcall] = given[hcall] /\ notified[hcall] = 0
    BY <1>1, <2>1 DEF CallInv, CWTypeOK, CAInv, CWInv, PendingUntilDestroyed
  <2> QED
    BY <1>1, <2>1, <2>2 DEF CallInv, CATypeOK
<1>10. CASE CallbackReturns
  <2>1. /\ hpc = "in_cb" /\ hpc' = "destroy"
        /\ UNCHANGED <<rpc, request_cb, notified, given, cw_pending, closed, hcall>>
    BY <1>10 DEF CallbackReturns, cwVars, apiVars, callVars
  <2> QED
    BY <1>1, <2>1 DEF CallInv
<1>11. CASE DestroyCall
  <2>1. /\ hpc = "destroy" /\ hpc' = "loop" /\ hcall' = NoCall
        /\ closed' = closed \cup {hcall}
        /\ cw_pending' \cup {hcall} = cw_pending \cup {hcall}
        /\ UNCHANGED <<rpc, request_cb, notified, given>>
    BY <1>11 DEF DestroyCall, Destroy, apiVars, callVars
  <2>2. hcall \in cw_pending /\ rpc[hcall] = "done"
    BY <1>1, <2>1 DEF CallInv
  <2> QED
    BY <1>1, <2>1, <2>2, CWAssumption DEF CallInv
<1>12. ASSUME UNCHANGED <<rpc, request_cb, notified, given, cw_pending, closed, hcall>>,
              \/ hpc' = hpc
              \/ {hpc, hpc'} \subseteq {"loop", "prompt", "in_agent_cb"}
       PROVE  CallInv'
  BY <1>1, <1>12 DEF CallInv
<1>13. ASSUME NEW t \in CWThreads,
              \/ \E k \in Services : ConnectRefused(t, k)
              \/ ConnectStore(t)
              \/ RespondEnter(t) \/ \E i \in Requests : AgentResponse(t, i)
              \/ ConnectEnter(t) \/ RegisterEnter(t) \/ AddAgentCallback(t)
       PROVE  CallInv'
  BY <1>12, <1>13
     DEF ConnectRefused, ConnectStore, RespondEnter, AgentResponse, RespondReturn,
         ConnectEnter, RegisterEnter, AddAgentCallback, cwVars, callVars, hVars
<1>14. ASSUME NEW i \in Requests,
              \/ \E k \in Services, what \in Methods : ConnmanRequests(i, k, what)
              \/ CancelRequest(i)
              \/ TakeRequest(i)
              \/ HandleOther(i)
       PROVE  CallInv'
  BY <1>12, <1>14
     DEF ConnmanRequests, CancelRequest, TakeRequest, HandleOther, cwVars, apiVars,
         callVars, hVars
<1>15. CASE Prompt \/ AgentCallbackReturns
  BY <1>12, <1>15 DEF Prompt, AgentCallbackReturns, cwVars, apiVars, callVars
<1> QED
  BY <1>2, <1>3, <1>4, <1>5, <1>6, <1>7, <1>8, <1>9, <1>10, <1>11, <1>13, <1>14, <1>15
     DEF Next, Api, Connman, HandlerStep

-------------------------------------------------------------------------------
(* The pending call with the id an answer is given under, when it holds an  *)
(* invocation: one that is open.                                            *)
LEMMA AnsweredRequest ==
    ASSUME CAInv, NEW n, LookupId(n) # NoCall, invocation[LookupId(n)] # NoRequest
    PROVE  /\ LookupId(n) \in Calls
           /\ invocation[LookupId(n)] \in Requests
           /\ replies[invocation[LookupId(n)]] = 0
           /\ req[invocation[LookupId(n)]] = "taken"
<1>1. LookupId(n) \in Calls
  BY LookupIdResult DEF CAInv, CWInv, CWTypeOK
<1>2. invocation[LookupId(n)] \in Requests
  BY <1>1 DEF CAInv, CATypeOK
<1> QED
  BY <1>1, <1>2 DEF CAInv, RequestInv, HeldRequestIsOpen

(* Each step replies at most once, to an invocation nobody replied to, and  *)
(* a call gives up the invocation it replies to.                            *)
LEMMA RequestStep ==
    ASSUME CAInv, Next
    PROVE  RequestInv'
<1>1. CATypeOK /\ CWTypeOK /\ RequestInv
  BY DEF CAInv, CWInv
<1>2. ASSUME NEW t \in CWThreads, NEW k \in Services, NEW c \in Calls, NEW b \in BOOLEAN,
             ConnectBegin(t, k, c, b)
      PROVE  RequestInv'
  <2>1. /\ key[c] = NoKey /\ key' = [key EXCEPT ![c] = k]
        /\ UNCHANGED <<invocation, req, service, replies>>
    BY <1>2 DEF ConnectBegin, CreateBegin, reqVars
  <2>2. invocation[c] = NoRequest
    <3>1. invocation[c] # NoRequest => key[c] \in Keys
      BY <1>1 DEF CATypeOK, RequestInv, HeldRequestIsOpen, Services
    <3> QED
      BY <2>1, <3>1, CWAssumption
  <2>3. \A d \in Calls : d # c => key'[d] = key[d]
    BY <1>1, <2>1 DEF CWTypeOK
  <2> QED
    BY <1>1, <2>1, <2>2, <2>3 DEF RequestInv, HeldRequestIsOpen
<1>3. ASSUME NEW t \in CWThreads, NEW i \in Requests, AgentResponse(t, i)
      PROVE  RequestInv'
  <2> DEFINE c == LookupId(told[i])
             r == invocation[c]
  <2>1. UNCHANGED <<key, req, service>>
    BY <1>3 DEF AgentResponse, RespondReturn, cwVars
  <2>2. CASE c = NoCall \/ r = NoRequest
    <3>1. UNCHANGED <<invocation, replies>>
      BY <1>3, <2>2 DEF AgentResponse
    <3> QED
      BY <1>1, <2>1, <3>1 DEF RequestInv, HeldRequestIsOpen
  <2>3. CASE ~(c = NoCall \/ r = NoRequest)
    <3>1. c \in Calls /\ r \in Requests /\ replies[r] = 0 /\ req[r] = "taken"
      BY <2>3, AnsweredRequest
    <3>2. /\ replies' = [replies EXCEPT ![r] = @ + 1]
          /\ invocation' = [invocation EXCEPT ![c] = NoRequest]
      BY <1>3, <2>3 DEF AgentResponse, Reply
    <3>3. \A d \in Calls : invocation[d] = r => d = c
      BY <1>1, <2>3, <3>1 DEF RequestInv, HeldRequestIsOpen
    <3> HIDE DEF c, r
    <3>4. replies'[r] = 1 /\ \A j \in Requests : j # r => replies'[j] = replies[j]
      BY <1>1, <3>1, <3>2 DEF CATypeOK
    <3>5. \A d \in Calls : invocation'[d] = IF d = c THEN NoRequest ELSE invocation[d]
      BY <1>1, <3>1, <3>2 DEF CATypeOK
    <3>6. \A d \in Calls : invocation'[d] # NoRequest =>
                invocation'[d] = invocation[d] /\ invocation[d] # r /\ invocation[d] \in Requests
      BY <1>1, <3>3, <3>5 DEF CATypeOK
    <3> QED
      BY <1>1, <2>1, <3>1, <3>4, <3>5, <3>6 DEF RequestInv, HeldRequestIsOpen
  <2> QED
    BY <2>2, <2>3
<1>4. ASSUME NEW i \in Requests, NEW k \in Services, NEW what \in Methods,
             ConnmanRequests(i, k, what)
      PROVE  RequestInv'
  <2>1. /\ req[i] = "unsent" /\ req' = [req EXCEPT ![i] = what]
        /\ service' = [service EXCEPT ![i] = k]
        /\ UNCHANGED <<key, invocation, replies>>
    BY <1>4 DEF ConnmanRequests, cwVars
  <2>2. \A d \in Calls : invocation[d] # NoRequest => invocation[d] # i
    BY <1>1, <2>1 DEF RequestInv, HeldRequestIsOpen
  <2>3. \A j \in Requests : j # i => req'[j] = req[j] /\ service'[j] = service[j]
    BY <1>1, <2>1 DEF CATypeOK
  <2>4. req'[i] = what /\ service'[i] = k /\ replies[i] = 0
    BY <1>1, <2>1 DEF CATypeOK, RequestInv
  <2>5. \A d \in Calls : invocation[d] # NoRequest => invocation[d] \in Requests
    BY <1>1 DEF CATypeOK
  <2>6. HeldRequestIsOpen'
    BY <1>1, <2>1, <2>2, <2>3, <2>5 DEF RequestInv, HeldRequestIsOpen
  <2> QED
    BY <1>1, <2>1, <2>3, <2>4, <2>6 DEF RequestInv
<1>5. ASSUME NEW i \in Requests, CancelRequest(i) \/ HandleOther(i)
      PROVE  RequestInv'
  <2>1. /\ req[i] \in {"input", "other"} /\ req' = [req EXCEPT ![i] = "taken"]
        /\ replies' = [replies EXCEPT ![i] = @ + 1]
        /\ UNCHANGED <<key, invocation, service>>
    BY <1>5 DEF CancelRequest, HandleOther, Reply, cwVars
  <2>2. replies[i] = 0 /\ \A d \in Calls : invocation[d] # NoRequest => invocation[d] # i
    BY <1>1, <2>1 DEF RequestInv, HeldRequestIsOpen
  <2>3. req'[i] = "taken" /\ replies'[i] = 1
    BY <1>1, <2>1, <2>2 DEF CATypeOK
  <2>4. \A j \in Requests : j # i => req'[j] = req[j] /\ replies'[j] = replies[j]
    BY <1>1, <2>1 DEF CATypeOK
  <2>5. \A d \in Calls : invocation[d] # NoRequest => invocation[d] \in Requests
    BY <1>1 DEF CATypeOK
  <2>6. HeldRequestIsOpen'
    BY <1>1, <2>1, <2>2, <2>4, <2>5 DEF RequestInv, HeldRequestIsOpen
  <2> QED
    BY <1>1, <2>1, <2>3, <2>4, <2>6 DEF RequestInv
<1>6. ASSUME NEW i \in Requests, TakeRequest(i)
      PROVE  RequestInv'
  <2> DEFINE c == LookupKey(service[i])
  <2>1. /\ req[i] = "input" /\ req' = [req EXCEPT ![i] = "taken"]
        /\ invocation' = [invocation EXCEPT ![c] = i]
        /\ UNCHANGED <<key, replies, service>>
    BY <1>6 DEF TakeRequest, cwVars
  <2>2. c \in Calls /\ key[c] = service[i]
    BY <1>1, <1>6, LookupKeyResult DEF TakeRequest, CWTypeOK
  <2>3. replies[i] = 0 /\ \A d \in Calls : invocation[d] # NoRequest => invocation[d] # i
    BY <1>1, <2>1 DEF RequestInv, HeldRequestIsOpen
  <2> HIDE DEF c
  <2>4. req'[i] = "taken" /\ \A j \in Requests : j # i => req'[j] = req[j]
    BY <1>1, <2>1 DEF CATypeOK
  <2>5. \A d \in Calls : invocation'[d] = IF d = c THEN i ELSE invocation[d]
    BY <1>1, <2>1, <2>2 DEF CATypeOK
  <2>6. \A d \in Calls : invocation[d] # NoRequest => invocation[d] \in Requests
    BY <1>1 DEF CATypeOK
  <2>7. HeldRequestIsOpen'
    BY <1>1, <2>1, <2>2, <2>3, <2>4, <2>5, <2>6, CAAssumption
       DEF RequestInv, HeldRequestIsOpen
  <2> QED
    BY <1>1, <2>1, <2>3, <2>4, <2>7 DEF RequestInv
<1>7. ASSUME UNCHANGED <<key, invocation, req, service, replies>>
      PROVE  RequestInv'
  BY <1>1, <1>7 DEF RequestInv, HeldRequestIsOpen
<1>8. ASSUME NEW t \in CWThreads,
             \/ \E k \in Services : ConnectRefused(t, k)
             \/ ConnectAlloc(t) \/ ConnectFill(t) \/ ConnectIssue(t) \/ ConnectStore(t)
             \/ RespondEnter(t)
             \/ ConnectEnter(t) \/ RegisterEnter(t) \/ AddAgentCallback(t)
      PROVE  RequestInv'
  BY <1>7, <1>8
     DEF ConnectRefused, ConnectAlloc, CreateTryId, ConnectFill, ConnectIssue,
         ConnectStore, RespondEnter, ConnectEnter, RegisterEnter, AddAgentCallback,
         cwVars, reqVars
<1>9. ASSUME NEW c \in Calls,
             \/ \E outcome \in {"ok", "failed"} : ConnmanReplies(c, outcome)
             \/ DispatchReply(c)
      PROVE  RequestInv'
  BY <1>7, <1>9 DEF ConnmanReplies, DispatchReply, cwVars, reqVars
<1>10. CASE \/ ReadError \/ ClearError \/ Notify \/ CallbackReturns \/ DestroyCall
            \/ Prompt \/ AgentCallbackReturns
  BY <1>7, <1>10
     DEF ReadError, ClearError, Notify, CallbackReturns, DestroyCall, Destroy, Prompt,
         AgentCallbackReturns, cwVars, reqVars
<1> QED
  BY <1>2, <1>3, <1>4, <1>5, <1>6, <1>8, <1>9, <1>10 DEF Next, Api, Connman, HandlerStep

LEMMA CANextInv == CAInv /\ [Next]_vars => CAInv'
<1> SUFFICES ASSUME CAInv, [Next]_vars PROVE CAInv'
  OBVIOUS
<1>1. CWInv'
  BY TableStep, CWNextInv DEF CAInv
<1>2. CASE Next
  BY <1>1, <1>2, TypeStep, ThreadStep, CallStep, RequestStep DEF CAInv
<1>3. CASE UNCHANGED vars
  BY <1>1, <1>3
     DEF vars, cwVars, apiVars, callVars, reqVars, hVars, CAInv, CWInv, CATypeOK,
         ThreadInv, CallInv, RequestInv, HeldRequestIsOpen
<1> QED
  BY <1>2, <1>3

(* The inductive invariant holds in every reachable state.                  *)
THEOREM CAInvariant == Spec => []CAInv
  BY CAInitInv, CANextInv, PTL DEF Spec

(* The library uses the table of pending calls only in the ways CallWork    *)
(* allows; all that is proved of the table holds of the whole system.       *)
THEOREM LibraryUsesTable == Spec => CWSpec
<1>1. Init => CWInit
  BY DEF Init
<1> QED
  BY <1>1, CAInvariant, TableStep, PTL DEF Spec, CWSpec

(* Type correctness.                                                        *)
THEOREM CATypeCorrect == Spec => []CATypeOK
<1>1. CAInv => CATypeOK
  BY DEF CAInv
<1> QED
  BY <1>1, CAInvariant, PTL

(* Two connects to one service are never under way at the same time.        *)
THEOREM ConnectsDoNotOverlap == Spec => []OneConnectPerService
<1>1. CAInv => OneConnectPerService
  <2> SUFFICES ASSUME CAInv, NEW c \in Calls, NEW d \in Calls,
                      UnderWay(c), UnderWay(d), key[c] = key[d]
               PROVE  c = d
    BY DEF OneConnectPerService
  <2>1. \A e \in Calls : UnderWay(e) => e \in cw_pending
    BY CWAssumption
       DEF UnderWay, CAInv, CallInv, InConnectCallback
  <2> QED
    BY <2>1 DEF CAInv, CWInv, OnePendingPerKey
<1> QED
  BY <1>1, CAInvariant, PTL

(* The callback of a connect runs exactly once before the call is gone.     *)
THEOREM CallbackRunsOnce == Spec => []CallbackExactlyOnce
<1>1. CAInv => CallbackExactlyOnce
  BY CWAssumption DEF CAInv, CallInv, CallbackExactlyOnce, CATypeOK, InConnectCallback
<1> QED
  BY <1>1, CAInvariant, PTL

(* No invocation is replied to twice.                                       *)
THEOREM RepliesAreSingle == Spec => []AtMostOneReply
<1>1. CAInv => AtMostOneReply
  BY DEF CAInv, RequestInv, AtMostOneReply
<1> QED
  BY <1>1, CAInvariant, PTL

(* No callback of the application runs with cw_mutex held.                  *)
THEOREM CallbacksMayCallLibrary == Spec => []CallbacksRunUnlocked
<1>1. CAInv => CallbacksRunUnlocked
  BY DEF CAInv, ThreadInv, CallbacksRunUnlocked
<1> QED
  BY <1>1, CAInvariant, PTL

(* What a call holds is one request about its own service that nobody       *)
(* answered, and no other call holds it.                                    *)
THEOREM HeldRequestsAreOpen == Spec => []HeldRequestIsOpen
<1>1. CAInv => HeldRequestIsOpen
  BY DEF CAInv, RequestInv
<1> QED
  BY <1>1, CAInvariant, PTL

-------------------------------------------------------------------------------
(* A call lets an invocation go only by answering it or when it accepts the *)
(* next one.                                                                *)
LEMMA UnansweredStep ==
    ASSUME CAInv, UnansweredIsExplained, Next
    PROVE  UnansweredIsExplained'
<1>1. CATypeOK /\ CWTypeOK /\ HeldRequestIsOpen
  BY DEF CAInv, CWInv, RequestInv
<1>2. ASSUME UNCHANGED <<key, invocation, req, service, accepted, replies>>
      PROVE  UnansweredIsExplained'
  BY <1>2 DEF UnansweredIsExplained
<1>3. ASSUME NEW t \in CWThreads, NEW k \in Services, NEW c \in Calls, NEW b \in BOOLEAN,
             ConnectBegin(t, k, c, b)
      PROVE  UnansweredIsExplained'
  <2>1. /\ key[c] = NoKey /\ key' = [key EXCEPT ![c] = k]
        /\ UNCHANGED <<invocation, req, service, accepted, replies>>
    BY <1>3 DEF ConnectBegin, CreateBegin, reqVars
  <2>2. \A i \in Requests : req[i] = "taken" => service[i] # NoKey
    BY CWAssumption DEF CAInv, RequestInv, Services
  <2>3. \A d \in Calls : key[d] # NoKey => key'[d] = key[d]
    BY <1>1, <2>1 DEF CWTypeOK
  <2> QED
    BY <2>1, <2>2, <2>3 DEF UnansweredIsExplained
<1>4. ASSUME NEW t \in CWThreads,
             \/ \E k \in Services : ConnectRefused(t, k)
             \/ ConnectAlloc(t) \/ ConnectFill(t) \/ ConnectIssue(t) \/ ConnectStore(t)
             \/ RespondEnter(t)
             \/ ConnectEnter(t) \/ RegisterEnter(t) \/ AddAgentCallback(t)
      PROVE  UnansweredIsExplained'
  BY <1>2, <1>4
     DEF ConnectRefused, ConnectAlloc, CreateTryId, ConnectFill, ConnectIssue,
         ConnectStore, RespondEnter, ConnectEnter, RegisterEnter, AddAgentCallback,
         cwVars, reqVars
<1>5. ASSUME NEW t \in CWThreads, NEW n \in Requests, AgentResponse(t, n)
      PROVE  UnansweredIsExplained'
  <2> DEFINE c == LookupId(told[n])
             r == invocation[c]
  <2>1. UNCHANGED <<key, req, service, accepted>>
    BY <1>5 DEF AgentResponse, RespondReturn, cwVars
  <2>2. CASE c = NoCall \/ r = NoRequest
    BY <1>2, <1>5, <2>1, <2>2 DEF AgentResponse
  <2>3. CASE ~(c = NoCall \/ r = NoRequest)
    <3>1. c \in Calls /\ r \in Requests /\ replies[r] = 0
      BY <2>3, AnsweredRequest
    <3>2. /\ replies' = [replies EXCEPT ![r] = @ + 1]
          /\ invocation' = [invocation EXCEPT ![c] = NoRequest]
      BY <1>5, <2>3 DEF AgentResponse, Reply
    <3>3. r = invocation[c]
      OBVIOUS
    <3> HIDE DEF c, r
    <3>4. replies'[r] = 1 /\ \A i \in Requests : i # r => replies'[i] = replies[i]
      BY <1>1, <3>1, <3>2 DEF CATypeOK
    <3>5. \A d \in Calls, i \in Requests :
              invocation[d] = i /\ i # r => invocation'[d] = i
      BY <1>1, <3>1, <3>2, <3>3 DEF CATypeOK
    <3> QED
      BY <2>1, <3>4, <3>5 DEF UnansweredIsExplained
  <2> QED
    BY <2>2, <2>3
<1>6. ASSUME NEW n \in Requests, NEW k \in Services, NEW what \in Methods,
             ConnmanRequests(n, k, what)
      PROVE  UnansweredIsExplained'
  <2>1. /\ req[n] = "unsent" /\ req' = [req EXCEPT ![n] = what]
        /\ service' = [service EXCEPT ![n] = k]
        /\ UNCHANGED <<key, invocation, accepted, replies>>
    BY <1>6 DEF ConnmanRequests, cwVars, callVars
  <2>2. req'[n] # "taken"
    BY <1>1, <2>1, CAAssumption DEF CATypeOK
  <2>3. \A i \in Requests : i # n => req'[i] = req[i] /\ service'[i] = service[i]
    BY <1>1, <2>1 DEF CATypeOK
  <2> QED
    BY <2>1, <2>2, <2>3 DEF UnansweredIsExplained
<1>7. ASSUME NEW n \in Requests, CancelRequest(n) \/ HandleOther(n)
      PROVE  UnansweredIsExplained'
  <2>1. /\ req[n] \in {"input", "other"} /\ req' = [req EXCEPT ![n] = "taken"]
        /\ replies' = [replies EXCEPT ![n] = @ + 1]
        /\ UNCHANGED <<key, invocation, accepted, service>>
    BY <1>7 DEF CancelRequest, HandleOther, Reply, cwVars
  <2>2. replies'[n] # 0
    BY <1>1, <2>1 DEF CATypeOK
  <2>3. \A i \in Requests : i # n => req'[i] = req[i] /\ replies'[i] = replies[i]
    BY <1>1, <2>1 DEF CATypeOK
  <2> QED
    BY <2>1, <2>2, <2>3 DEF UnansweredIsExplained
<1>8. ASSUME NEW n \in Requests, TakeRequest(n)
      PROVE  UnansweredIsExplained'
  <2> DEFINE c == LookupKey(service[n])
  <2>1. /\ req[n] = "input" /\ req' = [req EXCEPT ![n] = "taken"]
        /\ invocation' = [invocation EXCEPT ![c] = n]
        /\ accepted' = [accepted EXCEPT ![c] = Append(@, n)]
        /\ UNCHANGED <<key, replies, service>>
    BY <1>8 DEF TakeRequest, cwVars
  <2>2. c \in Calls /\ key[c] = service[n]
    BY <1>1, <1>8, LookupKeyResult DEF TakeRequest, CWTypeOK
  <2> HIDE DEF c
  <2>3. \A i \in Requests : i # n => req'[i] = req[i]
    BY <1>1, <2>1 DEF CATypeOK
  <2>4. /\ invocation'[c] = n /\ accepted'[c] = Append(accepted[c], n)
        /\ \A d \in Calls : d # c =>
               invocation'[d] = invocation[d] /\ accepted'[d] = accepted[d]
    BY <1>1, <2>1, <2>2 DEF CATypeOK
  <2>5. accepted[c] \in Seq(Requests)
    BY <1>1, <2>2 DEF CATypeOK
  <2>6. /\ DOMAIN accepted[c] = 1 .. Len(accepted[c]) /\ Len(accepted[c]) \in Nat
        /\ DOMAIN accepted'[c] = 1 .. Len(accepted'[c])
        /\ Len(accepted'[c]) = Len(accepted[c]) + 1
        /\ accepted'[c][Len(accepted[c]) + 1] = n
        /\ \A m \in DOMAIN accepted[c] : accepted'[c][m] = accepted[c][m]
    BY <2>4, <2>5
  <2> SUFFICES ASSUME NEW i \in Requests, req'[i] = "taken", replies'[i] = 0
               PROVE  \E d \in Calls : \E m \in DOMAIN accepted'[d] :
                          /\ accepted'[d][m] = i /\ key'[d] = service'[i]
                          /\ m = Len(accepted'[d]) => invocation'[d] = i
    BY DEF UnansweredIsExplained
  <2>7. CASE i = n
    BY <2>1, <2>2, <2>4, <2>6, <2>7
  <2>8. CASE i # n
    <3>0. PICK d \in Calls :
              \E m \in DOMAIN accepted[d] :
                  /\ accepted[d][m] = i /\ key[d] = service[i]
                  /\ m = Len(accepted[d]) => invocation[d] = i
      BY <2>1, <2>3, <2>8 DEF UnansweredIsExplained
    <3>1. PICK m \in DOMAIN accepted[d] :
              /\ accepted[d][m] = i /\ key[d] = service[i]
              /\ m = Len(accepted[d]) => invocation[d] = i
      BY <3>0
    <3>2. CASE d = c
      <4>1. m \in DOMAIN accepted'[c] /\ accepted'[c][m] = i /\ m # Len(accepted'[c])
        BY <2>6, <3>1, <3>2
      <4> QED
        BY <2>1, <3>1, <3>2, <4>1
    <3>3. CASE d # c
      BY <2>1, <2>4, <3>1, <3>3
    <3> QED
      BY <3>2, <3>3
  <2> QED
    BY <2>7, <2>8
<1>9. ASSUME NEW c \in Calls,
             \/ \E outcome \in {"ok", "failed"} : ConnmanReplies(c, outcome)
             \/ DispatchReply(c)
      PROVE  UnansweredIsExplained'
  BY <1>2, <1>9 DEF ConnmanReplies, DispatchReply, cwVars, reqVars
<1>10. CASE \/ ReadError \/ ClearError \/ Notify \/ CallbackReturns \/ DestroyCall
            \/ Prompt \/ AgentCallbackReturns
  BY <1>2, <1>10
     DEF ReadError, ClearError, Notify, CallbackReturns, DestroyCall, Destroy, Prompt,
         AgentCallbackReturns, cwVars, reqVars
<1> QED
  BY <1>3, <1>4, <1>5, <1>6, <1>7, <1>8, <1>9, <1>10
     DEF Next, Api, Connman, HandlerStep

(* An accepted RequestInput that nobody answered was replaced by one that   *)
(* the same call accepted later, or the call holds it still.                *)
THEOREM RequestsAreNotLost == Spec => []UnansweredIsExplained
<1>1. Init => UnansweredIsExplained
  BY DEF Init, UnansweredIsExplained
<1>2. CAInv /\ UnansweredIsExplained /\ [Next]_vars => UnansweredIsExplained'
  <2>1. CASE Next
    BY <2>1, UnansweredStep
  <2>2. CASE UNCHANGED vars
    BY <2>2 DEF vars, cwVars, reqVars, UnansweredIsExplained
  <2> QED
    BY <2>1, <2>2
<1> QED
  BY <1>1, <1>2, CAInvariant, PTL DEF Spec

-------------------------------------------------------------------------------
(* A request that was taken keeps its service, and a numbered call keeps    *)
(* its key and its number: what the application was told stays true.        *)
LEMMA TakenStays ==
    ASSUME CAInv, Next, NEW i \in Requests, req[i] = "taken"
    PROVE  req'[i] = "taken" /\ service'[i] = service[i]
<1>1. CATypeOK
  BY DEF CAInv
<1>2. CASE \E t \in CWThreads : Api(t)
  BY <1>2
     DEF Api, ConnectBegin, ConnectRefused, ConnectAlloc, ConnectFill, ConnectIssue,
         ConnectStore, AgentResponse, RespondReturn, RespondEnter, ConnectEnter,
         RegisterEnter, AddAgentCallback, reqVars
<1>3. CASE Connman
  BY <1>1, <1>3 DEF Connman, ConnmanReplies, ConnmanRequests, CATypeOK, reqVars
<1>4. ASSUME NEW j \in Requests, CancelRequest(j) \/ TakeRequest(j) \/ HandleOther(j)
      PROVE  req'[i] = "taken" /\ service'[i] = service[i]
  BY <1>1, <1>4 DEF CancelRequest, TakeRequest, HandleOther, CATypeOK
<1>5. CASE \/ ReadError \/ ClearError \/ Notify \/ CallbackReturns \/ DestroyCall
           \/ Prompt \/ AgentCallbackReturns \/ \E c \in Calls : DispatchReply(c)
  BY <1>5
     DEF ReadError, ClearError, Notify, CallbackReturns, DestroyCall, Prompt,
         AgentCallbackReturns, DispatchReply, reqVars
<1> QED
  BY <1>2, <1>3, <1>4, <1>5 DEF Next, HandlerStep

LEMMA NumberedStays ==
    ASSUME CAInv, NumberingInv, [Next]_vars, NEW c \in Numbered
    PROVE  c \in Numbered' /\ key'[c] = key[c] /\ id'[c] = id[c]
<1>1. CWTypeOK
  BY DEF CAInv, CWInv
<1>2. c \in Calls /\ c # creating /\ key[c] # NoKey /\ id[c] # 0
  BY DEF NumberingInv, CAInv, CWInv, PendingUntilDestroyed, Created, Numbered
<1>3. [CWNext]_cwVars
  BY TableStep
<1>4. ASSUME NEW t \in CWThreads, NEW k \in Keys, NEW d \in Calls, CreateBegin(t, k, d)
      PROVE  key'[c] = key[c] /\ id'[c] = id[c]
  BY <1>1, <1>2, <1>4 DEF CreateBegin, CWTypeOK
<1>5. ASSUME NEW t \in CWThreads, CreateTryId(t)
      PROVE  key'[c] = key[c] /\ id'[c] = id[c]
  BY <1>1, <1>2, <1>5 DEF CreateTryId, CWTypeOK
<1>6. ASSUME NEW d \in Calls, Destroy(d)
      PROVE  key'[c] = key[c] /\ id'[c] = id[c]
  BY <1>6 DEF Destroy
<1>7. ASSUME UNCHANGED cwVars PROVE key'[c] = key[c] /\ id'[c] = id[c]
  BY <1>7 DEF cwVars
<1>8. key'[c] = key[c] /\ id'[c] = id[c]
  BY <1>3, <1>4, <1>5, <1>6, <1>7 DEF CWNext
<1> QED
  BY <1>2, <1>8 DEF Numbered

LEMMA ToldStaysTrue ==
    ASSUME CAInv, NumberingInv, Next, NEW n, NEW i \in Requests, IsToldOf(n, i)
    PROVE  /\ req'[i] = "taken"
           /\ \E c \in Numbered' : id'[c] = n /\ key'[c] = service'[i]
<1>1. req[i] = "taken"
  BY DEF IsToldOf
<1>2. PICK c \in Numbered : id[c] = n /\ key[c] = service[i]
  BY DEF IsToldOf
<1>3. c \in Numbered' /\ key'[c] = key[c] /\ id'[c] = id[c]
  BY NumberedStays
<1> QED
  BY <1>1, <1>2, <1>3, TakenStays

(* The request an answer goes to is held by the call whose number the       *)
(* application was told: it is about the service it was told of.            *)
LEMMA AnswerMatches ==
    ASSUME CAInv, NumberingInv, NEW n, NEW i \in Requests, IsToldOf(n, i),
           LookupId(n) # NoCall, invocation[LookupId(n)] # NoRequest
    PROVE  /\ req[invocation[LookupId(n)]] = "taken"
           /\ service[invocation[LookupId(n)]] = service[i]
<1> DEFINE d == LookupId(n)
<1>1. d \in cw_pending /\ id[d] = n
  BY LookupIdResult DEF CAInv, CWInv
<1>2. d \in Numbered /\ d \in Calls
  BY <1>1 DEF NumberingInv, CAInv, CWInv, CWTypeOK
<1>3. invocation[d] # NoRequest
  OBVIOUS
<1>4. d = LookupId(n)
  OBVIOUS
<1> HIDE DEF d
<1>5. key[d] = service[i]
  BY <1>1, <1>2 DEF IsToldOf, NumberingInv
<1>6. req[invocation[d]] = "taken" /\ service[invocation[d]] = key[d]
  BY <1>2, <1>3 DEF CAInv, RequestInv, HeldRequestIsOpen
<1> QED
  BY <1>4, <1>5, <1>6

(* An answer is sent for the service it was given for, and the application  *)
(* is told the number of the call that holds the request.                   *)
LEMMA AnswersStep ==
    ASSUME CAInv, NumberingInv, AnswersInv, Next
    PROVE  AnswersInv'
<1>1. CATypeOK /\ CWTypeOK
  BY DEF CAInv, CWInv
<1>2. ASSUME NEW i \in Requests, told[i] # 0
      PROVE  /\ req'[i] = "taken"
             /\ \E c \in Numbered' : id'[c] = told[i] /\ key'[c] = service'[i]
  BY <1>2, ToldStaysTrue DEF AnswersInv
<1>3. ASSUME NEW i \in Requests, answers[i] # NoRequest
      PROVE  /\ req'[i] = "taken" /\ req'[answers[i]] = "taken"
             /\ service'[answers[i]] = service'[i]
  <2>1. /\ answers[i] \in Requests /\ req[i] = "taken" /\ req[answers[i]] = "taken"
        /\ service[answers[i]] = service[i]
    BY <1>1, <1>3 DEF AnswersInv, CATypeOK
  <2> QED
    BY <2>1, TakenStays
<1>4. ASSUME hpc = "prompt"
      PROVE  /\ hreq \in Requests /\ req'[hreq] = "taken"
             /\ \E c \in Numbered' : id'[c] = hid /\ key'[c] = service'[hreq]
  BY <1>4, ToldStaysTrue DEF AnswersInv
<1>5. ASSUME UNCHANGED <<told, answers>>,
             hpc' = "prompt" => hpc = "prompt" /\ UNCHANGED <<hreq, hid>>
      PROVE  AnswersInv'
  BY <1>2, <1>3, <1>4, <1>5 DEF AnswersInv, IsToldOf
<1>6. ASSUME NEW t \in CWThreads,
             \/ \E k \in Services, c \in Calls, b \in BOOLEAN : ConnectBegin(t, k, c, b)
             \/ \E k \in Services : ConnectRefused(t, k)
             \/ ConnectAlloc(t) \/ ConnectFill(t) \/ ConnectIssue(t) \/ ConnectStore(t)
             \/ RespondEnter(t)
             \/ ConnectEnter(t) \/ RegisterEnter(t) \/ AddAgentCallback(t)
      PROVE  AnswersInv'
  BY <1>5, <1>6
     DEF ConnectBegin, ConnectRefused, ConnectAlloc, ConnectFill, ConnectIssue,
         ConnectStore, RespondEnter, ConnectEnter, RegisterEnter, AddAgentCallback,
         reqVars, hVars
<1>7. ASSUME NEW t \in CWThreads, NEW n \in Requests, AgentResponse(t, n)
      PROVE  AnswersInv'
  <2> DEFINE c == LookupId(told[n])
             r == invocation[c]
  <2>1. UNCHANGED <<req, service, told, hpc, hreq, hid>> /\ told[n] # 0
    BY <1>7 DEF AgentResponse, RespondReturn, hVars
  <2>2. CASE c = NoCall \/ r = NoRequest
    <3>1. UNCHANGED answers
      BY <1>7, <2>2 DEF AgentResponse
    <3> QED
      BY <1>2, <1>3, <1>4, <2>1, <3>1 DEF AnswersInv, IsToldOf
  <2>3. CASE ~(c = NoCall \/ r = NoRequest)
    <3>1. IsToldOf(told[n], n) /\ req[n] = "taken"
      BY <2>1, CAAssumption DEF AnswersInv, IsToldOf
    <3>2. r \in Requests
      BY <2>3, AnsweredRequest
    <3>3. req[r] = "taken" /\ service[r] = service[n]
      BY <2>3, <3>1, AnswerMatches
    <3>4. answers' = [answers EXCEPT ![r] = n]
      BY <1>7, <2>3 DEF AgentResponse
    <3> HIDE DEF c, r
    <3>5. \A i \in Requests : answers'[i] = IF i = r THEN n ELSE answers[i]
      BY <1>1, <3>2, <3>4 DEF CATypeOK
    <3>6. \A i \in Requests :
              answers'[i] # NoRequest =>
                  /\ req'[i] = "taken" /\ req'[answers'[i]] = "taken"
                  /\ service'[answers'[i]] = service'[i]
      BY <1>3, <2>1, <3>1, <3>3, <3>5
    <3> QED
      BY <1>2, <1>4, <2>1, <3>6 DEF AnswersInv, IsToldOf
  <2> QED
    BY <2>2, <2>3
<1>8. CASE Connman
  BY <1>5, <1>8 DEF Connman, ConnmanReplies, ConnmanRequests, apiVars, reqVars, hVars
<1>9. ASSUME NEW n \in Requests, CancelRequest(n) \/ HandleOther(n)
      PROVE  AnswersInv'
  BY <1>5, <1>9 DEF CancelRequest, HandleOther, apiVars, hVars
<1>10. ASSUME NEW n \in Requests, TakeRequest(n)
       PROVE  AnswersInv'
  <2> DEFINE c == LookupKey(service[n])
  <2>1. /\ req' = [req EXCEPT ![n] = "taken"] /\ hid' = id[c] /\ hreq' = n
        /\ UNCHANGED <<id, key, service, told, answers>>
    BY <1>10 DEF TakeRequest, cwVars, apiVars
  <2>2. c \in Numbered /\ key[c] = service[n]
    BY <1>1, <1>10, LookupKeyResult DEF TakeRequest, NumberingInv
  <2> HIDE DEF c
  <2>3. c \in Numbered' /\ req'[n] = "taken"
    BY <1>1, <2>1, <2>2 DEF Numbered, CATypeOK
  <2> QED
    BY <1>2, <1>3, <2>1, <2>2, <2>3 DEF AnswersInv, IsToldOf
<1>11. CASE Prompt
  <2>1. UNCHANGED <<answers>> /\ hpc = "prompt" /\ hpc' # "prompt"
    BY <1>11 DEF Prompt, apiVars
  <2>2. \/ UNCHANGED told
        \/ told' = [told EXCEPT ![hreq] = hid]
    BY <1>11 DEF Prompt
  <2>3. \A i \in Requests : told'[i] = told[i] \/ (i = hreq /\ told'[i] = hid)
    BY <1>1, <2>2 DEF CATypeOK
  <2>4. \A i \in Requests : told'[i] # 0 =>
            req'[i] = "taken" /\ \E c \in Numbered' : id'[c] = told'[i] /\ key'[c] = service'[i]
    BY <1>2, <1>4, <2>1, <2>3
  <2> QED
    BY <1>3, <2>1, <2>4 DEF AnswersInv, IsToldOf
<1>12. CASE \/ ReadError \/ ClearError \/ Notify \/ CallbackReturns \/ DestroyCall
            \/ AgentCallbackReturns \/ \E c \in Calls : DispatchReply(c)
  BY <1>5, <1>12
     DEF ReadError, ClearError, Notify, CallbackReturns, DestroyCall,
         AgentCallbackReturns, DispatchReply, apiVars, reqVars
<1> QED
  BY <1>6, <1>7, <1>8, <1>9, <1>10, <1>11, <1>12 DEF Next, Api, HandlerStep

(* In a program that makes no more connects than the counter has values, an *)
(* answer never goes to a request about another service than the one it was *)
(* given for, however late it comes.                                        *)
THEOREM AnswersReachTheirService ==
    ASSUME CallsFitCounter PROVE Spec => []AnswerReachesItsService
<1>1. Init => AnswersInv
  BY DEF Init, AnswersInv
<1>2. CAInv /\ NumberingInv /\ AnswersInv /\ [Next]_vars => AnswersInv'
  <2>1. CASE UNCHANGED vars
    BY <2>1 DEF vars, cwVars, apiVars, reqVars, hVars, AnswersInv, IsToldOf, Numbered
  <2> QED
    BY <2>1, AnswersStep
<1>3. Spec => []NumberingInv
  BY LibraryUsesTable, IdsAreNotReused, PTL
<1>4. AnswersInv => AnswerReachesItsService
  BY DEF AnswersInv, AnswerReachesItsService
<1> QED
  BY <1>1, <1>2, <1>3, <1>4, CAInvariant, PTL DEF Spec

-------------------------------------------------------------------------------
(* The refinement: what the application and ConnMan see of each call and    *)
(* request.                                                                 *)
StageOf(c) ==
    IF c \in closed THEN "closed"
    ELSE IF notified[c] = 1 THEN "told"
    ELSE IF c \in cw_pending THEN "open" ELSE "new"
StagesOf == [c \in Calls |-> StageOf(c)]
TargetOf == [c \in Calls |-> IF c \in cw_pending \cup closed THEN key[c] ELSE NoKey]
WantsOf == [c \in Calls |-> c \in cw_pending \cup closed /\ given[c]]
AskedOf == {i \in Requests : req[i] # "unsent"}
AnsweredOf == {i \in Requests : replies[i] = 1}

LEMMA ContractInit == Init => Contract!ContractInit
<1> SUFFICES ASSUME Init PROVE Contract!ContractInit
  OBVIOUS
<1>1. StagesOf = [c \in Calls |-> "new"] /\ TargetOf = [c \in Calls |-> NoKey]
  BY DEF Init, CWInit, StagesOf, StageOf, TargetOf
<1>2. WantsOf = [c \in Calls |-> FALSE]
  BY DEF Init, CWInit, WantsOf
<1>3. AskedOf = {} /\ AnsweredOf = {}
  BY DEF Init, AskedOf, AnsweredOf
<1> QED
  BY <1>1, <1>2, <1>3
     DEF Contract!ContractInit, StagesOf, StageOf, TargetOf, WantsOf, AskedOf, AnsweredOf

LEMMA ContractStutter ==
    ASSUME UNCHANGED <<StagesOf, TargetOf, WantsOf, AskedOf, AnsweredOf>>
    PROVE  UNCHANGED Contract!contractVars
  BY DEF Contract!contractVars, StagesOf, StageOf, TargetOf, WantsOf, AskedOf, AnsweredOf

(* A call in progress is pending.                                           *)
LEMMA InProgressPending ==
    ASSUME CAInv, NEW c \in Calls
    PROVE  /\ c \notin closed /\ notified[c] = 1 => c \in cw_pending
           /\ c \in cw_pending => c \notin closed
<1>1. c \in cw_pending => c \notin closed
  BY DEF CAInv, CWInv, PendingUntilDestroyed
<1>2. c \notin closed /\ notified[c] = 1 => c \in cw_pending
  BY DEF CAInv, CallInv, InConnectCallback
<1> QED
  BY <1>1, <1>2

LEMMA AllocOpens ==
    ASSUME CAInv, NEW t \in CWThreads, ConnectAlloc(t)
    PROVE  [Contract!ContractNext]_(Contract!contractVars)
<1>1. UNCHANGED <<rpc, notified, given, key, closed, req, replies>>
  BY DEF ConnectAlloc, CreateTryId, callVars, reqVars
<1>2. UNCHANGED <<AskedOf, AnsweredOf>>
  BY <1>1 DEF AskedOf, AnsweredOf
<1>3. CASE cw_pending' = cw_pending
  <2>1. UNCHANGED <<StagesOf, TargetOf, WantsOf>>
    BY <1>1, <1>3 DEF StagesOf, StageOf, TargetOf, WantsOf
  <2> QED
    BY <1>2, <2>1, ContractStutter
<1>4. CASE cw_pending' = cw_pending \cup {creating}
  <2>1. /\ creating \in Calls /\ creating \notin cw_pending /\ creating \notin closed
        /\ key[creating] \in Services /\ given[creating] \in BOOLEAN
        /\ \A d \in cw_pending : key[d] # key[creating]
    BY CWAssumption
       DEF ConnectAlloc, CreateTryId, CAInv, CATypeOK, CWInv, CWTypeOK,
           PendingUntilDestroyed, Created, Services
  <2>2. PICK c \in Calls, k \in Services, b \in BOOLEAN :
            c = creating /\ k = key[creating] /\ b = given[creating]
    BY <2>1
  <2>3. notified[c] = 0
    BY <2>1, <2>2, InProgressPending DEF CAInv, CallInv
  <2>4. StagesOf[c] = "new" /\ StagesOf' = [StagesOf EXCEPT ![c] = "open"]
    <3>1. StageOf(c) = "new"
      BY <2>1, <2>2, <2>3 DEF StageOf
    <3>2. StageOf(c)' = "open"
      BY <1>1, <1>4, <2>1, <2>2, <2>3 DEF StageOf
    <3>3. \A d \in Calls : d # c => StageOf(d)' = StageOf(d)
      BY <1>1, <1>4, <2>2 DEF StageOf
    <3> QED
      BY <3>1, <3>2, <3>3 DEF StagesOf
  <2>5. TargetOf' = [TargetOf EXCEPT ![c] = k] /\ WantsOf' = [WantsOf EXCEPT ![c] = b]
    BY <1>1, <1>4, <2>1, <2>2 DEF TargetOf, WantsOf
  <2>6. ASSUME NEW d \in Calls, StagesOf[d] \in {"open", "told"} PROVE TargetOf[d] # k
    <3>1. d \in cw_pending
      BY <2>6, InProgressPending DEF StagesOf, StageOf
    <3> QED
      BY <2>1, <2>2, <3>1 DEF TargetOf
  <2>7. Contract!Open(c, k, b)
    BY <1>2, <2>4, <2>5, <2>6
       DEF Contract!Open, Contract!InProgress, StagesOf, StageOf, TargetOf, WantsOf,
           AskedOf, AnsweredOf
  <2> QED
    BY <2>7 DEF Contract!ContractNext
<1> QED
  BY <1>3, <1>4 DEF ConnectAlloc, CreateTryId

LEMMA NotifyTells ==
    ASSUME CAInv, Notify
    PROVE  [Contract!ContractNext]_(Contract!contractVars)
<1>1. UNCHANGED <<given, key, cw_pending, closed, req, replies>>
  BY DEF Notify, cwVars, apiVars, reqVars
<1>2. UNCHANGED <<AskedOf, AnsweredOf, TargetOf, WantsOf>>
  BY <1>1 DEF AskedOf, AnsweredOf, TargetOf, WantsOf
<1>3. /\ hcall \in Calls /\ hcall \in cw_pending /\ hcall \notin closed
      /\ request_cb[hcall] = given[hcall] /\ notified[hcall] = 0
  BY DEF Notify, InConnectCallback, CAInv, CallInv, CWInv, CWTypeOK, PendingUntilDestroyed
<1>4. CASE request_cb[hcall]
  <2>1. PICK c \in Calls : c = hcall
    BY <1>3
  <2>2. notified' = [notified EXCEPT ![c] = 1]
    BY <1>3, <1>4, <2>1 DEF Notify
  <2>3. StagesOf[c] = "open" /\ StagesOf' = [StagesOf EXCEPT ![c] = "told"]
    <3>1. StageOf(c) = "open"
      BY <1>3, <2>1 DEF StageOf
    <3>2. /\ notified'[c] = 1
          /\ \A d \in Calls : d # c => notified'[d] = notified[d]
      BY <2>2 DEF CAInv, CATypeOK
    <3>3. StageOf(c)' = "told"
      BY <1>1, <1>3, <2>1, <3>2 DEF StageOf
    <3>4. \A d \in Calls : d # c => StageOf(d)' = StageOf(d)
      BY <1>1, <3>2 DEF StageOf
    <3> QED
      BY <3>1, <3>3, <3>4 DEF StagesOf
  <2>4. WantsOf[c]
    BY <1>3, <1>4, <2>1 DEF WantsOf
  <2>5. Contract!Tell(c)
    BY <1>2, <2>3, <2>4
       DEF Contract!Tell, StagesOf, StageOf, TargetOf, WantsOf, AskedOf, AnsweredOf
  <2> QED
    BY <2>5 DEF Contract!ContractNext
<1>5. CASE ~request_cb[hcall]
  <2>1. StagesOf' = StagesOf
    BY <1>1, <1>5 DEF Notify, StagesOf, StageOf
  <2> QED
    BY <1>2, <2>1, ContractStutter
<1> QED
  BY <1>4, <1>5

LEMMA DestroyCloses ==
    ASSUME CAInv, DestroyCall
    PROVE  [Contract!ContractNext]_(Contract!contractVars)
<1>1. UNCHANGED <<given, key, notified, req, replies>>
  BY DEF DestroyCall, Destroy, apiVars, callVars, reqVars
<1>2. UNCHANGED <<AskedOf, AnsweredOf>>
  BY <1>1 DEF AskedOf, AnsweredOf
<1>3. /\ hcall \in Calls /\ hcall \in cw_pending /\ hcall \notin closed
      /\ notified[hcall] = IF given[hcall] THEN 1 ELSE 0
  BY DEF DestroyCall, InConnectCallback, CAInv, CallInv, CWInv, CWTypeOK,
         PendingUntilDestroyed
<1>4. PICK c \in Calls : c = hcall
  BY <1>3
<1>5. /\ closed' = closed \cup {c}
      /\ cw_pending' \cup {c} = cw_pending \cup {c}
  BY <1>4 DEF DestroyCall, Destroy
<1>6. UNCHANGED <<TargetOf, WantsOf>>
  BY <1>1, <1>3, <1>4, <1>5 DEF TargetOf, WantsOf
<1>7. StagesOf' = [StagesOf EXCEPT ![c] = "closed"]
  BY <1>1, <1>5 DEF StagesOf, StageOf
<1>8. WantsOf[c] = given[c] /\ StagesOf[c] = IF given[c] THEN "told" ELSE "open"
  <2>1. given[c] \in BOOLEAN
    BY DEF CAInv, CATypeOK
  <2>2. StageOf(c) = IF given[c] THEN "told" ELSE "open"
    BY <1>3, <1>4, <2>1 DEF StageOf
  <2>3. WantsOf[c] = given[c]
    BY <1>3, <1>4, <2>1 DEF WantsOf
  <2> QED
    BY <2>2, <2>3 DEF StagesOf
<1>9. Contract!Close(c)
  BY <1>2, <1>6, <1>7, <1>8
     DEF Contract!Close, StagesOf, StageOf, TargetOf, WantsOf, AskedOf, AnsweredOf
<1> QED
  BY <1>9 DEF Contract!ContractNext

(* A reply answers a request that was asked and not answered yet.           *)
LEMMA ReplyAnswers ==
    ASSUME CAInv, NEW i \in Requests, replies[i] = 0, req[i] # "unsent", Reply(i),
           UNCHANGED <<cwVars, given, callVars>>,
           \A j \in Requests : req'[j] = "unsent" <=> req[j] = "unsent"
    PROVE  Contract!Answer(i)
<1>1. UNCHANGED <<StagesOf, TargetOf, WantsOf, AskedOf>>
  BY DEF cwVars, callVars, StagesOf, StageOf, TargetOf, WantsOf, AskedOf
<1>2. AnsweredOf' = AnsweredOf \cup {i}
  BY DEF Reply, AnsweredOf, CAInv, CATypeOK
<1>3. i \in AskedOf /\ i \notin AnsweredOf
  BY DEF AskedOf, AnsweredOf
<1> QED
  BY <1>1, <1>2, <1>3
     DEF Contract!Answer, StagesOf, StageOf, TargetOf, WantsOf, AskedOf, AnsweredOf

LEMMA ContractStep == CAInv /\ [Next]_vars => [Contract!ContractNext]_(Contract!contractVars)
<1> SUFFICES ASSUME CAInv, [Next]_vars
             PROVE  [Contract!ContractNext]_(Contract!contractVars)
  OBVIOUS
<1>1. ASSUME UNCHANGED <<cw_pending, closed, key, given, notified, req, replies>>
      PROVE  UNCHANGED Contract!contractVars
  <2>1. UNCHANGED <<StagesOf, TargetOf, WantsOf, AskedOf, AnsweredOf>>
    BY <1>1 DEF StagesOf, StageOf, TargetOf, WantsOf, AskedOf, AnsweredOf
  <2> QED
    BY <2>1, ContractStutter
<1>2. ASSUME NEW t \in CWThreads, NEW k \in Services, NEW c \in Calls, NEW b \in BOOLEAN,
             ConnectBegin(t, k, c, b)
      PROVE  UNCHANGED Contract!contractVars
  <2>1. c \notin cw_pending \cup closed
    BY <1>2, FreeCall DEF ConnectBegin, CreateBegin
  <2>2. /\ key' = [key EXCEPT ![c] = k] /\ given' = [given EXCEPT ![c] = b]
        /\ UNCHANGED <<cw_pending, closed, notified, req, replies>>
    BY <1>2 DEF ConnectBegin, CreateBegin, callVars, reqVars
  <2>3. \A d \in cw_pending \cup closed : key'[d] = key[d] /\ given'[d] = given[d]
    BY <2>1, <2>2 DEF CAInv, CATypeOK, CWTypeOK
  <2>4. UNCHANGED <<StagesOf, TargetOf, WantsOf, AskedOf, AnsweredOf>>
    BY <2>2, <2>3 DEF StagesOf, StageOf, TargetOf, WantsOf, AskedOf, AnsweredOf
  <2> QED
    BY <2>4, ContractStutter
<1>3. ASSUME NEW t \in CWThreads, NEW i \in Requests, AgentResponse(t, i)
      PROVE  [Contract!ContractNext]_(Contract!contractVars)
  <2> DEFINE c == LookupId(told[i])
  <2>1. UNCHANGED <<cwVars, given, callVars, req>>
    BY <1>3 DEF AgentResponse, RespondReturn
  <2>2. CASE c = NoCall \/ invocation[c] = NoRequest
    BY <1>1, <1>3, <2>1, <2>2 DEF AgentResponse, cwVars, callVars
  <2>3. CASE ~(c = NoCall \/ invocation[c] = NoRequest)
    <3>1. PICK r \in Requests : r = invocation[c] /\ replies[r] = 0 /\ req[r] = "taken"
      BY <2>3, AnsweredRequest
    <3>2. Reply(r)
      BY <1>3, <2>3, <3>1 DEF AgentResponse, Reply
    <3>3. Contract!Answer(r)
      BY <2>1, <3>1, <3>2, ReplyAnswers
    <3> QED
      BY <3>3 DEF Contract!ContractNext
  <2> QED
    BY <2>2, <2>3
<1>4. ASSUME NEW i \in Requests, CancelRequest(i) \/ HandleOther(i)
      PROVE  [Contract!ContractNext]_(Contract!contractVars)
  <2>1. /\ req[i] \in {"input", "other"} /\ req' = [req EXCEPT ![i] = "taken"]
        /\ Reply(i) /\ UNCHANGED <<cwVars, given, callVars>>
    BY <1>4 DEF CancelRequest, HandleOther, apiVars
  <2>2. replies[i] = 0
    BY <2>1 DEF CAInv, RequestInv
  <2>3. \A j \in Requests : req'[j] = "unsent" <=> req[j] = "unsent"
    BY <2>1 DEF CAInv, CATypeOK
  <2>4. Contract!Answer(i)
    BY <2>1, <2>2, <2>3, ReplyAnswers
  <2> QED
    BY <2>4 DEF Contract!ContractNext
<1>5. ASSUME NEW i \in Requests, TakeRequest(i)
      PROVE  UNCHANGED Contract!contractVars
  <2>1. /\ req[i] = "input" /\ req' = [req EXCEPT ![i] = "taken"]
        /\ UNCHANGED <<cw_pending, closed, key, given, notified, replies>>
    BY <1>5 DEF TakeRequest, cwVars, apiVars, callVars
  <2>2. UNCHANGED <<StagesOf, TargetOf, WantsOf, AskedOf, AnsweredOf>>
    BY <2>1
       DEF StagesOf, StageOf, TargetOf, WantsOf, AskedOf, AnsweredOf, CAInv, CATypeOK
  <2> QED
    BY <2>2, ContractStutter
<1>6. ASSUME NEW i \in Requests, NEW k \in Services, NEW what \in Methods,
             ConnmanRequests(i, k, what)
      PROVE  Contract!Ask(i)
  <2>1. /\ req[i] = "unsent" /\ req' = [req EXCEPT ![i] = what]
        /\ UNCHANGED <<cw_pending, closed, key, given, notified, replies>>
    BY <1>6 DEF ConnmanRequests, cwVars, apiVars, callVars
  <2>2. UNCHANGED <<StagesOf, TargetOf, WantsOf, AnsweredOf>>
    BY <2>1 DEF StagesOf, StageOf, TargetOf, WantsOf, AnsweredOf
  <2>3. i \notin AskedOf /\ AskedOf' = AskedOf \cup {i}
    BY <2>1, CAAssumption DEF AskedOf, CAInv, CATypeOK
  <2> QED
    BY <2>2, <2>3
       DEF Contract!Ask, StagesOf, StageOf, TargetOf, WantsOf, AskedOf, AnsweredOf
<1>7. ASSUME NEW t \in CWThreads,
             \/ \E k \in Services : ConnectRefused(t, k)
             \/ ConnectFill(t) \/ ConnectIssue(t) \/ ConnectStore(t)
             \/ RespondEnter(t)
             \/ ConnectEnter(t) \/ RegisterEnter(t) \/ AddAgentCallback(t)
      PROVE  UNCHANGED Contract!contractVars
  BY <1>1, <1>7
     DEF ConnectRefused, ConnectFill, ConnectIssue, ConnectStore, RespondEnter,
         ConnectEnter, RegisterEnter, AddAgentCallback, cwVars, callVars, reqVars
<1>8. ASSUME NEW c \in Calls,
             \/ \E outcome \in {"ok", "failed"} : ConnmanReplies(c, outcome)
             \/ DispatchReply(c)
      PROVE  UNCHANGED Contract!contractVars
  BY <1>1, <1>8 DEF ConnmanReplies, DispatchReply, cwVars, apiVars, reqVars
<1>9. CASE ReadError \/ ClearError \/ CallbackReturns \/ Prompt \/ AgentCallbackReturns
  BY <1>1, <1>9
     DEF ReadError, ClearError, CallbackReturns, Prompt, AgentCallbackReturns, cwVars,
         apiVars, callVars, reqVars
<1>10. CASE UNCHANGED vars
  BY <1>1, <1>10 DEF vars, cwVars, apiVars, callVars, reqVars
<1>11. (\E i \in Requests : Contract!Ask(i)) => Contract!ContractNext
  BY DEF Contract!ContractNext
<1>12. CASE \E t \in CWThreads : Api(t)
  BY <1>2, <1>3, <1>7, <1>12, AllocOpens DEF Api
<1>13. CASE Connman
  BY <1>6, <1>8, <1>11, <1>13 DEF Connman
<1>14. CASE HandlerStep
  BY <1>4, <1>5, <1>8, <1>9, <1>14, NotifyTells, DestroyCloses DEF HandlerStep
<1> QED
  BY <1>10, <1>12, <1>13, <1>14 DEF Next

(* The library keeps its contract: connects to a service follow one         *)
(* another, each tells its caller once before it closes, and a request is   *)
(* answered at most once and only if it was asked.                          *)
THEOREM ConnectAgentImplementsContract == Spec => ImplementsContract
<1> QED
  BY ContractInit, ContractStep, CAInvariant, PTL
     DEF Spec, ImplementsContract, Contract!ContractSpec
===============================================================================
