-------------------------- MODULE PropertyCallsProofs --------------------------
(***************************************************************************)
(* The synchronous calls, for any threads, objects, calls and start: their *)
(* type, what a failure and the end of the process mean, and that they     *)
(* implement PropertyRegister.                                             *)
(***************************************************************************)
EXTENDS PropertyCalls, TLAPS

LEMMA NothingIsListed == <<>> \in Listings
<1>1. <<>> \in [{} -> Values \cup {Absent}]
  OBVIOUS
<1>2. {} \in SUBSET Objects
  OBVIOUS
<1> QED
  BY <1>1, <1>2 DEF Listings

(* What is seen of any objects is a listing of those ConnMan has.           *)
LEMMA SeenIsListed ==
    ASSUME TypeOK, NEW S
    PROVE  /\ Present(S) \subseteq Objects \cap S
           /\ Seen(S) \in Listings
           /\ DOMAIN Seen(S) = Present(S)
<1>1. Present(S) \subseteq Objects \cap S
  BY DEF Present
<1>2. Seen(S) \in [Present(S) -> Values \cup {Absent}]
  BY <1>1 DEF Seen, TypeOK
<1> QED
  BY <1>1, <1>2 DEF Listings, Seen

(* What the functions of the API make of their arguments.                   *)
LEMMA CallFacts ==
    ASSUME NEW c \in Calls
    PROVE  /\ c # NoCall
           /\ KindOf[c.fn] \in {"list", "read", "test", "ensure", "write", "run"}
           /\ c.value \in Values \cup {Absent}
           /\ c.access_type \in {"manager", "technology", "service"}
           /\ Listed(c) \subseteq Objects
           /\ Target(c) \in Listed(c) \cup {NULL}
           /\ c.access_type = "manager" <=> Target(c) = Manager /\ c.type_arg = NULL
           /\ c.type_arg # NULL => Target(c) \in Technologies \cup Services
           /\ KindOf[c.fn] = "run" => c.access_type # "manager"
           /\ KindOf[c.fn] \in {"ensure", "write", "run"} => c.fn \notin TestsState
           /\ KindOf[c.fn] = "test" => c.access_type = "manager"
           /\ KindOf[c.fn] = "ensure" => c.access_type # "manager" /\ Target(c) = c.type_arg
  BY PCAssumption, SMTT(60)
     DEF Calls, NoCall, KindOf, Listed, Target, Objects, TestsState, AccessTypes, TypeArgs

-------------------------------------------------------------------------------
(* A step of one thread.                                                    *)

OnlyThread(t) ==
    \A u \in Threads \ {t} :
        /\ pc'[u] = pc[u] /\ call'[u] = call[u] /\ ns'[u] = ns[u]
        /\ request'[u] = request[u] /\ reply'[u] = reply[u] /\ error'[u] = error[u]
        /\ result'[u] = result[u] /\ effect'[u] = effect[u]

KeepsCall(t) ==
    /\ call'[t] = call[t] /\ ns'[t] = ns[t]
    /\ result'[t] = result[t] /\ effect'[t] = effect[t]

LEMMA FrameInv ==
    ASSUME NEW u, PCThreadInv(u),
           pc'[u] = pc[u], call'[u] = call[u], ns'[u] = ns[u], request'[u] = request[u],
           reply'[u] = reply[u], error'[u] = error[u], result'[u] = result[u],
           effect'[u] = effect[u]
    PROVE  PCThreadInv(u)'
<1>1. /\ Kind(u)' = Kind(u)
      /\ IsReal(u)' = IsReal(u)
      /\ IsExplained(u)' = IsExplained(u)
      /\ ListAgrees(u)' = ListAgrees(u)
  BY DEF Kind, IsReal, IsExplained, ListAgrees
<1>2. NamesCause(u)' = NamesCause(u)
  BY <1>1 DEF NamesCause
<1>3. PlaceInv(u)' = PlaceInv(u)
  BY <1>1 DEF PlaceInv
<1>4. RequestInv(u)' = RequestInv(u)
  BY <1>1 DEF RequestInv
<1> QED
  BY <1>1, <1>2, <1>3, <1>4 DEF PCThreadInv

LEMMA ThreadStep ==
    ASSUME PCInv, NEW t \in Threads, TypeOK', OnlyThread(t), PCThreadInv(t)'
    PROVE  PCInv'
<1>1. ASSUME NEW u \in Threads \ {t}
      PROVE  PCThreadInv(u)'
  BY <1>1, FrameInv DEF PCInv, OnlyThread
<1> QED
  BY <1>1 DEF PCInv

LEMMA ReturnInv ==
    ASSUME PCInv, NEW t \in Threads, NEW ok \in BOOLEAN, NEW got \in Listings,
           Return(t, ok, got)
    PROVE  PCInv'
<1>1. TypeOK'
  BY NothingIsListed DEF PCInv, TypeOK, Return, Goto, others, NoReply
<1>2. OnlyThread(t)
  BY DEF PCInv, TypeOK, Return, Goto, others, OnlyThread
<1>3. /\ pc'[t] = "idle" /\ error'[t] = "none"
      /\ result'[t] = [over |-> TRUE, ok |-> ok, got |-> got]
  BY DEF PCInv, TypeOK, Return, Goto
<1>4. PCThreadInv(t)'
  BY <1>3 DEF PCThreadInv, PlaceInv, RequestInv
<1> QED
  BY <1>1, <1>2, <1>4, ThreadStep

LEMMA GoOnStep ==
    ASSUME PCInv, NEW t \in Threads,
           NEW place \in {"list", "set_property", "set", "run", "find", "report", "crashed"},
           GoOn(t, place)
    PROVE  /\ TypeOK' /\ OnlyThread(t) /\ KeepsCall(t)
           /\ pc'[t] = place
           /\ request'[t] = request[t] /\ reply'[t] = reply[t] /\ error'[t] = error[t]
<1>1. TypeOK'
  BY DEF PCInv, TypeOK, GoOn, Goto, others
<1> QED
  BY <1>1 DEF PCInv, TypeOK, GoOn, Goto, others, OnlyThread, KeepsCall

LEMMA FailWithStep ==
    ASSUME PCInv, NEW t \in Threads, NEW place \in {"report", "crashed"},
           NEW e \in {"none", "missing_argument", "bad_property", "remote",
                      "unknown_property", "unknown_technology", "unknown_service"},
           FailWith(t, place, e)
    PROVE  /\ TypeOK' /\ OnlyThread(t) /\ KeepsCall(t)
           /\ pc'[t] = place /\ error'[t] = e
           /\ request'[t] = request[t] /\ reply'[t] = reply[t]
<1>1. TypeOK'
  BY DEF PCInv, TypeOK, FailWith, Goto, others
<1> QED
  BY <1>1 DEF PCInv, TypeOK, FailWith, Goto, others, OnlyThread, KeepsCall

(* The tests, up to the request.                                            *)
LEMMA CheckArgumentsInv ==
    ASSUME PCInv, NEW t \in Threads, CheckArguments(t)
    PROVE  PCInv'
<1> DEFINE c == call[t]
<1>1. /\ pc[t] = "check" /\ c \in Calls /\ result[t] = Unanswered
      /\ c \in ApiCalls[t] /\ error[t] = "none" /\ effect[t] = NoEffect
  BY PCAssumption DEF CheckArguments, At, PCInv, PCThreadInv, PlaceInv, RequestInv
<1>2. CASE c.complete /\ (c.fn \in TestsState => ns[t])
  <2>1. GoOn(t, First[Kind(t)])
    BY <1>2 DEF CheckArguments
  <2>2. /\ Kind(t) \in {"list", "read", "test", "ensure", "write", "run"}
        /\ Kind(t) \in {"ensure", "write", "run"} => c.fn \notin TestsState
    BY <1>1, CallFacts DEF Kind
  <2>3. First[Kind(t)] \in {"list", "set_property", "run"}
    BY <2>2 DEF First
  <2>4. /\ TypeOK' /\ OnlyThread(t) /\ KeepsCall(t)
        /\ pc'[t] = First[Kind(t)] /\ error'[t] = error[t]
    BY <2>1, <2>3, GoOnStep
  <2>5. Kind(t)' = Kind(t)
    BY <2>4 DEF Kind, KeepsCall
  <2>6. PCThreadInv(t)'
    BY <1>1, <1>2, <2>2, <2>4, <2>5
       DEF PCThreadInv, PlaceInv, RequestInv, KeepsCall, First
  <2> QED
    BY <2>4, <2>6, ThreadStep
<1>3. CASE ~(c.complete /\ (c.fn \in TestsState => ns[t]))
  BY <1>3, ReturnInv, NothingIsListed DEF CheckArguments
<1> QED
  BY <1>2, <1>3

LEMMA SetPropertyInternalInv ==
    ASSUME PCInv, NEW t \in Threads, SetPropertyInternal(t)
    PROVE  PCInv'
<1> DEFINE place == IF ns[t] /\ call[t].type_arg # NULL THEN "set" ELSE "report"
<1>1. /\ pc[t] = "set_property" /\ Kind(t) \in {"ensure", "write"}
      /\ call[t] \in ApiCalls[t] /\ result[t] = Unanswered
      /\ (call[t].fn \in TestsState => ns[t])
      /\ error[t] = "none" /\ effect[t] = NoEffect
  BY DEF SetPropertyInternal, At, PCInv, PCThreadInv, PlaceInv, RequestInv
<1>2. GoOn(t, place) /\ place \in {"set", "report"}
  BY DEF SetPropertyInternal
<1>3. /\ TypeOK' /\ OnlyThread(t) /\ KeepsCall(t)
      /\ pc'[t] = place /\ error'[t] = error[t]
  BY <1>2, GoOnStep
<1>4. Kind(t)' = Kind(t)
  BY <1>3 DEF Kind, KeepsCall
<1>5. PlaceInv(t)' /\ RequestInv(t)'
  BY <1>1, <1>3, <1>4 DEF PlaceInv, RequestInv, KeepsCall
<1>6. pc'[t] = "report" => IsReal(t)' /\ NamesCause(t)'
  BY <1>1, <1>3 DEF IsReal, NamesCause, KeepsCall, NoEffect
<1> QED
  BY <1>3, <1>5, <1>6, ThreadStep DEF PCThreadInv

LEMMA MissingArgumentInv ==
    ASSUME PCInv, NEW t \in Threads, MissingArgument(t)
    PROVE  PCInv'
<1>1. /\ pc[t] \in {"list", "set", "run"} /\ call[t].type_arg = NULL
      /\ call[t] \in ApiCalls[t] /\ result[t] = Unanswered
      /\ (call[t].fn \in TestsState => ns[t])
      /\ error[t] = "none" /\ effect[t] = NoEffect
  BY DEF MissingArgument, PCInv, PCThreadInv, PlaceInv, RequestInv
<1>2. FailWith(t, "report", "missing_argument")
  BY <1>1 DEF MissingArgument, SetError
<1>3. /\ TypeOK' /\ OnlyThread(t) /\ KeepsCall(t)
      /\ pc'[t] = "report" /\ error'[t] = "missing_argument"
  BY <1>2, FailWithStep
<1>4. PlaceInv(t)' /\ RequestInv(t)'
  BY <1>1, <1>3 DEF PlaceInv, RequestInv, KeepsCall
<1>5. IsReal(t)' /\ NamesCause(t)'
  BY <1>1, <1>3 DEF IsReal, NamesCause, KeepsCall, NoEffect
<1> QED
  BY <1>3, <1>4, <1>5, ThreadStep DEF PCThreadInv

LEMMA SendRequestInv ==
    ASSUME PCInv, NEW t \in Threads, SendRequest(t)
    PROVE  PCInv'
<1>1. /\ pc[t] \in {"list", "set", "run"}
      /\ call[t] \in ApiCalls[t] /\ call[t] \in Calls /\ result[t] = Unanswered
      /\ (call[t].fn \in TestsState => ns[t])
      /\ error[t] = "none" /\ effect[t] = NoEffect
      /\ pc[t] = "list" => Kind(t) \in {"list", "read", "test", "ensure"}
      /\ pc[t] = "set" => Kind(t) \in {"ensure", "write"} /\ call[t].type_arg # NULL
      /\ pc[t] = "run" => Kind(t) = "run"
  BY PCAssumption DEF SendRequest, PCInv, PCThreadInv, PlaceInv, RequestInv
<1>2. pc[t] = "run" => call[t].type_arg # NULL
  BY <1>1, CallFacts DEF SendRequest, OnManager, Kind
<1>3. CASE ns[t]
  <2>1. /\ Goto(t, "wait")
        /\ request' = [request EXCEPT ![t] = pc[t]]
        /\ reply' = [reply EXCEPT ![t] = NoReply]
        /\ UNCHANGED <<others, result, error>>
    BY <1>3 DEF SendRequest
  <2>2. TypeOK'
    BY <1>1, <2>1, NothingIsListed DEF PCInv, TypeOK, Goto, others, NoReply
  <2>3. OnlyThread(t) /\ KeepsCall(t)
    BY <2>1 DEF PCInv, TypeOK, Goto, others, OnlyThread, KeepsCall
  <2>4. /\ pc'[t] = "wait" /\ request'[t] = pc[t] /\ reply'[t].status = "none"
        /\ error'[t] = "none"
    BY <1>1, <2>1 DEF PCInv, TypeOK, Goto, NoReply
  <2>5. Kind(t)' = Kind(t)
    BY <2>3 DEF Kind, KeepsCall
  <2>6. PlaceInv(t)'
    BY <1>1, <1>3, <2>3, <2>4 DEF PlaceInv, KeepsCall
  <2>7. RequestInv(t)'
    BY <1>1, <1>2, <1>3, <2>3, <2>4, <2>5 DEF RequestInv, KeepsCall
  <2> QED
    BY <2>2, <2>3, <2>4, <2>6, <2>7, ThreadStep DEF PCThreadInv
<1>4. CASE ~ns[t]
  <2>1. GoOn(t, "crashed")
    BY <1>4 DEF SendRequest
  <2>2. /\ TypeOK' /\ OnlyThread(t) /\ KeepsCall(t) /\ pc'[t] = "crashed"
    BY <2>1, GoOnStep
  <2>3. PlaceInv(t)' /\ RequestInv(t)' /\ IsExplained(t)'
    BY <1>1, <1>4, <2>2 DEF PlaceInv, RequestInv, IsExplained, KeepsCall
  <2> QED
    BY <2>2, <2>3, ThreadStep DEF PCThreadInv
<1> QED
  BY <1>3, <1>4

(* The end of the request.                                                  *)
LEMMA RequestEndsInv ==
    ASSUME PCInv, NEW t \in Threads, RequestEnds(t)
    PROVE  PCInv'
<1>0. pc[t] = "wait" /\ RequestInv(t)
  BY DEF RequestEnds, At, PCInv, PCThreadInv
<1>1. /\ ns[t] /\ error[t] = "none"
      /\ call[t] \in ApiCalls[t] /\ result[t] = Unanswered
      /\ request[t] \in {"list", "set", "run"}
      /\ reply[t].props \in Listings
      /\ reply[t].status \in {"none", "ok", "failed", "unknown_object", "timeout"}
  BY <1>0 DEF PCInv, TypeOK, PCThreadInv, PlaceInv, RequestInv
<1>2. CASE request[t] # "list" /\ Return(t, TRUE, <<>>)
  BY <1>2, ReturnInv, NothingIsListed
<1>3. CASE Return(t, TRUE, reply[t].props)
  BY <1>1, <1>3, ReturnInv
<1>4. CASE reply[t].status = "ok" /\ request[t] = "list" /\ Kind(t) # "list" /\ GoOn(t, "find")
  <2>1. ListAgrees(t) /\ Kind(t) \in {"read", "test", "ensure"}
    BY <1>0, <1>1, <1>4 DEF RequestInv
  <2>2. /\ TypeOK' /\ OnlyThread(t) /\ KeepsCall(t)
        /\ pc'[t] = "find" /\ reply'[t] = reply[t] /\ error'[t] = "none"
    BY <1>1, <1>4, GoOnStep
  <2>3. Kind(t)' = Kind(t)
    BY <2>2 DEF Kind, KeepsCall
  <2>4. ListAgrees(t)'
    BY <2>1, <2>2, <2>3 DEF ListAgrees, KeepsCall
  <2>5. PlaceInv(t)' /\ RequestInv(t)'
    BY <1>1, <2>1, <2>2, <2>3, <2>4 DEF PlaceInv, RequestInv, KeepsCall
  <2> QED
    BY <2>2, <2>5, ThreadStep DEF PCThreadInv
<1>5. CASE /\ reply[t].status \notin {"none", "ok"} /\ request[t] = "list"
           /\ \E place \in {"report", "crashed"} :
                  FailWith(t, place,
                      SetError(SetError(error[t], Decoded(t)), "illegal_argument"))
  <2>1. PICK place \in {"report", "crashed"} : FailWith(t, place, "remote")
    BY <1>1, <1>5 DEF SetError, Decoded
  <2>2. reply[t].status \in {"failed", "timeout"}
    BY <1>0, <1>1, <1>5 DEF RequestInv
  <2>3. /\ TypeOK' /\ OnlyThread(t) /\ KeepsCall(t) /\ pc'[t] = place
        /\ error'[t] = "remote" /\ request'[t] = request[t] /\ reply'[t] = reply[t]
    BY <2>1, FailWithStep
  <2>4. PlaceInv(t)' /\ RequestInv(t)'
    BY <1>1, <2>3 DEF PlaceInv, RequestInv, KeepsCall
  <2>5. IsReal(t)' /\ NamesCause(t)' /\ IsExplained(t)'
    BY <1>0, <1>1, <1>5, <2>2, <2>3
       DEF RequestInv, IsReal, NamesCause, IsExplained, KeepsCall, NoEffect
  <2> QED
    BY <2>3, <2>4, <2>5, ThreadStep DEF PCThreadInv
<1>6. CASE /\ reply[t].status \notin {"none", "ok"} /\ request[t] # "list"
           /\ FailWith(t, "report", SetError(error[t], Decoded(t)))
  <2> DEFINE e == Decoded(t)
  <2>1. /\ FailWith(t, "report", e)
        /\ e \in {"remote", "unknown_property", "unknown_technology", "unknown_service"}
    BY <1>1, <1>6 DEF SetError, Decoded
  <2>2. /\ TypeOK' /\ OnlyThread(t) /\ KeepsCall(t) /\ pc'[t] = "report"
        /\ error'[t] = e /\ request'[t] = request[t] /\ reply'[t] = reply[t]
    BY <2>1, FailWithStep
  <2>3. PlaceInv(t)' /\ RequestInv(t)'
    BY <1>1, <2>1, <2>2 DEF PlaceInv, RequestInv, KeepsCall
  <2>4. Kind(t)' = Kind(t)
    BY <2>2 DEF Kind, KeepsCall
  <2>5. /\ e = "remote" <=> reply[t].status # "unknown_object"
        /\ e = "unknown_property" => request[t] = "set" /\ Kind(t) # "run"
        /\ e \in {"unknown_technology", "unknown_service"} =>
               request[t] = "run" /\ Kind(t) = "run"
        /\ e # "remote" => effect[t].kind = "gone"
        /\ reply[t].status = "failed" => effect[t] = NoEffect
    BY <1>0, <1>1, <1>6 DEF RequestInv, Decoded
  <2>6. IsReal(t)' /\ NamesCause(t)'
    BY <1>1, <1>6, <2>1, <2>2, <2>4, <2>5 DEF IsReal, NamesCause, KeepsCall, NoEffect
  <2> QED
    BY <2>2, <2>3, <2>6, ThreadStep DEF PCThreadInv
<1> QED
  BY <1>2, <1>3, <1>4, <1>5, <1>6 DEF RequestEnds

(* The property in the list.                                                *)
LEMMA NotFoundInv ==
    ASSUME PCInv, NEW t \in Threads, NotFound(t)
    PROVE  PCInv'
<1>1. /\ pc[t] = "find" /\ error[t] = "none" /\ ListAgrees(t)
      /\ call[t] \in ApiCalls[t] /\ call[t] \in Calls /\ result[t] = Unanswered
      /\ (call[t].fn \in TestsState => ns[t])
      /\ Kind(t) \in {"read", "test", "ensure"}
  BY PCAssumption DEF NotFound, At, PCInv, PCThreadInv, PlaceInv, RequestInv
<1>2. CASE Target(call[t]) = NULL
  <2>1. GoOn(t, "crashed")
    BY <1>2 DEF NotFound
  <2>2. TypeOK' /\ OnlyThread(t) /\ KeepsCall(t) /\ pc'[t] = "crashed"
    BY <2>1, GoOnStep
  <2>3. Kind(t) # "test"
    BY <1>1, <1>2, CallFacts, PCAssumption DEF Kind, Target, Objects
  <2>4. Kind(t)' = Kind(t) /\ call'[t] = call[t]
    BY <2>2 DEF Kind, KeepsCall
  <2>5. PlaceInv(t)' /\ RequestInv(t)' /\ IsExplained(t)'
    BY <1>1, <1>2, <2>2, <2>3, <2>4 DEF PlaceInv, RequestInv, IsExplained, KeepsCall
  <2> QED
    BY <2>2, <2>5, ThreadStep DEF PCThreadInv
<1>3. CASE Target(call[t]) # NULL
  <2>1. /\ Target(call[t]) \notin DOMAIN reply[t].props
        /\ FailWith(t, "report", "bad_property")
    BY <1>1, <1>3 DEF NotFound, SetError
  <2>2. /\ TypeOK' /\ OnlyThread(t) /\ KeepsCall(t) /\ pc'[t] = "report"
        /\ error'[t] = "bad_property"
    BY <2>1, FailWithStep
  <2>3. effect[t].kind = "gone"
    BY <1>1, <2>1 DEF ListAgrees
  <2>4. Kind(t)' = Kind(t)
    BY <2>2 DEF Kind, KeepsCall
  <2>5. PlaceInv(t)' /\ RequestInv(t)' /\ IsReal(t)' /\ NamesCause(t)'
    BY <1>1, <2>2, <2>3, <2>4
       DEF PlaceInv, RequestInv, IsReal, NamesCause, KeepsCall
  <2> QED
    BY <2>2, <2>5, ThreadStep DEF PCThreadInv
<1> QED
  BY <1>2, <1>3

LEMMA OneIsListed ==
    ASSUME NEW o \in Objects, NEW v \in Values \cup {Absent}
    PROVE  [x \in {o} |-> v] \in Listings
<1>1. [x \in {o} |-> v] \in [{o} -> Values \cup {Absent}] /\ {o} \in SUBSET Objects
  OBVIOUS
<1> QED
  BY <1>1 DEF Listings

LEMMA ListingValue ==
    ASSUME NEW f \in Listings, NEW o \in DOMAIN f
    PROVE  o \in Objects /\ f[o] \in Values \cup {Absent}
  BY DEF Listings

LEMMA FindInv ==
    ASSUME PCInv, NEW t \in Threads, Find(t)
    PROVE  PCInv'
<1> DEFINE o == Target(call[t])
           v == reply[t].props[o]
<1>1. /\ pc[t] = "find" /\ error[t] = "none" /\ ListAgrees(t)
      /\ call[t] \in ApiCalls[t] /\ call[t] \in Calls /\ result[t] = Unanswered
      /\ (call[t].fn \in TestsState => ns[t])
      /\ Kind(t) \in {"read", "test", "ensure"}
  BY PCAssumption DEF Find, At, PCInv, PCThreadInv, PlaceInv, RequestInv
<1>2. o \in DOMAIN reply[t].props /\ o \in Objects /\ v \in Values \cup {Absent}
  BY ListingValue DEF Find, PCInv, TypeOK
<1>3. CASE Return(t, TRUE, [x \in {o} |-> v])
  BY <1>2, <1>3, OneIsListed, ReturnInv
<1>4. CASE \E ok \in BOOLEAN : Return(t, ok, <<>>)
  BY <1>4, NothingIsListed, ReturnInv
<1>5. CASE Kind(t) = "ensure" /\ v # call[t].value /\ GoOn(t, "set_property")
  <2>1. effect[t] = NoEffect
    BY <1>1, <1>2, <1>5 DEF ListAgrees
  <2>2. /\ TypeOK' /\ OnlyThread(t) /\ KeepsCall(t)
        /\ pc'[t] = "set_property" /\ error'[t] = "none"
    BY <1>1, <1>5, GoOnStep
  <2>3. Kind(t)' = Kind(t)
    BY <2>2 DEF Kind, KeepsCall
  <2>4. PlaceInv(t)' /\ RequestInv(t)'
    BY <1>1, <1>5, <2>1, <2>2, <2>3 DEF PlaceInv, RequestInv, KeepsCall
  <2> QED
    BY <2>2, <2>4, ThreadStep DEF PCThreadInv
<1> QED
  BY <1>3, <1>4, <1>5 DEF Find, UseProperty

LEMMA ReportInv ==
    ASSUME PCInv, NEW t \in Threads, Report(t)
    PROVE  PCInv'
<1>1. /\ pc[t] = "report" /\ NamesCause(t)
      /\ call[t] \in ApiCalls[t] /\ call[t] \in Calls /\ result[t] = Unanswered
      /\ (call[t].fn \in TestsState => ns[t])
      /\ error[t] = "none" => Kind(t) \in {"ensure", "write"}
  BY PCAssumption DEF Report, At, PCInv, PCThreadInv, PlaceInv
<1>2. CASE error[t] = "none" /\ call[t].fn \in PrintsAnyway
  <2>1. GoOn(t, "crashed")
    BY <1>2 DEF Report
  <2>2. TypeOK' /\ OnlyThread(t) /\ KeepsCall(t) /\ pc'[t] = "crashed"
    BY <2>1, GoOnStep
  <2>3. /\ call[t].type_arg = NULL \/ ~ns[t]
        /\ call[t].fn \notin TestsState
        /\ Kind(t) = "ensure" => Target(call[t]) = call[t].type_arg
    BY <1>1, <1>2, CallFacts DEF NamesCause, Kind
  <2>4. Kind(t)' = Kind(t) /\ call'[t] = call[t]
    BY <2>2 DEF Kind, KeepsCall
  <2>5. PlaceInv(t)' /\ RequestInv(t)' /\ IsExplained(t)'
    BY <1>1, <1>2, <2>2, <2>3, <2>4 DEF PlaceInv, RequestInv, IsExplained, KeepsCall
  <2> QED
    BY <2>2, <2>5, ThreadStep DEF PCThreadInv
<1>3. CASE ~(error[t] = "none" /\ call[t].fn \in PrintsAnyway)
  BY <1>3, NothingIsListed, ReturnInv DEF Report
<1> QED
  BY <1>2, <1>3

LEMMA BeginInv ==
    ASSUME PCInv, NEW t \in Threads, Begin(t)
    PROVE  PCInv'
<1>1. PICK c \in ApiCalls[t] : call' = [call EXCEPT ![t] = c]
  BY DEF Begin
<1>2. c \in Calls
  BY <1>1, PCAssumption
<1>3. TypeOK'
  BY <1>1, <1>2, NothingIsListed, PCAssumption
     DEF PCInv, TypeOK, Begin, At, Goto, Unanswered, NoEffect
<1>4. OnlyThread(t)
  BY <1>1 DEF PCInv, TypeOK, Begin, Goto, OnlyThread
<1>5. /\ pc'[t] = "check" /\ call'[t] = c /\ result'[t] = Unanswered
      /\ effect'[t] = NoEffect /\ error'[t] = "none"
  BY <1>1 DEF PCInv, TypeOK, Begin, At, Goto
<1>6. PlaceInv(t)' /\ RequestInv(t)'
  BY <1>1, <1>5 DEF PlaceInv, RequestInv
<1> QED
  BY <1>3, <1>4, <1>5, <1>6, ThreadStep DEF PCThreadInv

-------------------------------------------------------------------------------
(* The end of a request of thread t, which leaves the thread where it is.   *)
LEMMA AnswerStep ==
    ASSUME PCInv, NEW t \in Threads,
           NEW status \in {"ok", "failed", "unknown_object", "timeout"},
           NEW props \in Listings,
           NEW e \in [kind : {"none", "read", "found", "written", "ran", "gone", "lost"},
                      got : Listings],
           pc[t] = "wait",
           Answer(t, status, props),
           effect' = [effect EXCEPT ![t] = e],
           prop' \in [Objects -> Values \cup {Absent}],
           late' \subseteq [on : Technologies \cup Services, value : Values \cup {Absent}],
           RequestInv(t)'
    PROVE  PCInv'
<1>1. TypeOK'
  BY DEF PCInv, TypeOK, Answer, threadVars
<1>2. OnlyThread(t)
  BY DEF PCInv, TypeOK, Answer, threadVars, OnlyThread
<1>3. /\ pc'[t] = "wait" /\ call'[t] = call[t] /\ ns'[t] = ns[t]
      /\ error'[t] = error[t] /\ result'[t] = result[t]
  BY DEF Answer, threadVars
<1>4. PlaceInv(t)'
  BY <1>3 DEF PCInv, PCThreadInv, PlaceInv
<1> QED
  BY <1>1, <1>2, <1>3, <1>4, ThreadStep DEF PCThreadInv

LEMMA AnswerKeeps ==
    ASSUME PCInv, NEW t \in Threads, NEW status, NEW props, NEW e,
           Answer(t, status, props), effect' = [effect EXCEPT ![t] = e]
    PROVE  /\ pc'[t] = pc[t] /\ call'[t] = call[t] /\ ns'[t] = ns[t]
           /\ request'[t] = request[t]
           /\ reply'[t] = [status |-> status, props |-> props]
           /\ effect'[t] = e /\ Kind(t)' = Kind(t)
  BY DEF PCInv, TypeOK, Answer, threadVars, Kind

LEMMA WaitFacts ==
    ASSUME PCInv, NEW t \in Threads, At(t, "wait")
    PROVE  /\ pc[t] = "wait" /\ ns[t] /\ RequestInv(t)
           /\ call[t] \in ApiCalls[t] /\ call[t] \in Calls /\ result[t] = Unanswered
           /\ reply[t].status = "none" => effect[t] = NoEffect
           /\ effect[t] \in [kind : {"none", "read", "found", "written", "ran", "gone",
                                     "lost"}, got : Listings]
<1>1. pc[t] = "wait" /\ RequestInv(t)
  BY DEF At, PCInv, PCThreadInv
<1> QED
  BY <1>1, PCAssumption DEF PCInv, TypeOK, PCThreadInv, PlaceInv, RequestInv

(* A list agrees with what is recorded of the call.                         *)
LEMMA ListPropertiesInv ==
    ASSUME PCInv, NEW t \in Threads, ListProperties(t)
    PROVE  PCInv'
<1> DEFINE o == Target(call[t])
           k == Kind(t)
           props == Seen(Listed(call[t]))
<1>1. At(t, "wait") /\ request[t] = "list" /\ reply[t].status = "none"
  BY DEF ListProperties, Waiting
<1>2. /\ call[t] \in Calls /\ ns[t] /\ effect[t] = NoEffect /\ pc[t] = "wait"
      /\ k \in {"list", "read", "test", "ensure"}
      /\ TypeOK
  BY <1>1, WaitFacts DEF RequestInv, PCInv
<1>3. /\ Listed(call[t]) \subseteq Objects
      /\ o \in Listed(call[t]) \cup {NULL}
  BY <1>2, CallFacts
<1>4. /\ props \in Listings /\ DOMAIN props = Present(Listed(call[t]))
      /\ \A x \in DOMAIN props : props[x] = prop[x]
      /\ Seen({o}) \in Listings
  BY <1>2, SeenIsListed DEF Seen
<1>5. o \in DOMAIN props <=> Present({o}) # {}
  BY <1>3, <1>4, PCAssumption DEF Present
<1>6. Present({o}) # {} => Seen({o}) = [x \in {o} |-> props[o]]
  <2>1. Present({o}) # {} => Present({o}) = {o}
    BY DEF Present
  <2> QED
    BY <1>4, <1>5, <2>1 DEF Seen
<1>7. PICK e \in {[kind |-> "read", got |-> props], [kind |-> "gone", got |-> <<>>],
                  [kind |-> "read", got |-> Seen({o})], [kind |-> "found", got |-> <<>>],
                  NoEffect} :
          /\ effect' = [effect EXCEPT ![t] = e]
          /\ k = "list" => e = [kind |-> "read", got |-> props]
          /\ k # "list" /\ Present({o}) = {} => e.kind = "gone"
          /\ k = "read" /\ Present({o}) # {} => e = [kind |-> "read", got |-> Seen({o})]
          /\ k \in {"test", "ensure"} /\ Present({o}) # {} =>
                 e = IF prop[o] = call[t].value
                     THEN [kind |-> "found", got |-> <<>>] ELSE NoEffect
  <2>1. UNCHANGED effect => effect' = [effect EXCEPT ![t] = NoEffect]
    BY <1>2 DEF TypeOK
  <2> QED
    BY <1>2, <2>1 DEF ListProperties, HasEffect
<1>8. e \in [kind : {"none", "read", "found", "written", "ran", "gone", "lost"},
             got : Listings]
  BY <1>4, NothingIsListed DEF NoEffect
<1>9. Answer(t, "ok", props) /\ prop' = prop /\ late' = late
  BY DEF ListProperties
<1>10. /\ pc'[t] = pc[t] /\ call'[t] = call[t] /\ ns'[t] = ns[t]
       /\ request'[t] = request[t]
       /\ reply'[t] = [status |-> "ok", props |-> props]
       /\ effect'[t] = e /\ Kind(t)' = k
  BY <1>7, <1>9, AnswerKeeps
<1>11. ListAgrees(t)'
  <2>1. reply'[t].props = props /\ Target(call'[t]) = o /\ call'[t].value = call[t].value
    BY <1>10
  <2>2. o \in DOMAIN props => props[o] = prop[o]
    BY <1>4
  <2>3. /\ k = "list" => e = [kind |-> "read", got |-> props]
        /\ k # "list" /\ o \notin DOMAIN props => e.kind = "gone"
        /\ k = "read" /\ o \in DOMAIN props =>
               e = [kind |-> "read", got |-> [x \in {o} |-> props[o]]]
        /\ k \in {"test", "ensure"} /\ o \in DOMAIN props =>
               e = IF props[o] = call[t].value
                   THEN [kind |-> "found", got |-> <<>>] ELSE NoEffect
    BY <1>5, <1>6, <1>7, <2>2
  <2> HIDE DEF o, k, props
  <2> QED
    BY <1>10, <2>1, <2>3 DEF ListAgrees
<1>12. RequestInv(t)'
  BY <1>1, <1>2, <1>10, <1>11 DEF RequestInv
<1> QED
  BY <1>2, <1>4, <1>7, <1>8, <1>9, <1>12, AnswerStep DEF TypeOK

LEMMA SetPropertyInv ==
    ASSUME PCInv, NEW t \in Threads, SetProperty(t)
    PROVE  PCInv'
<1> DEFINE e == [kind |-> "written", got |-> <<>>]
<1>1. At(t, "wait") /\ request[t] = "set" /\ reply[t].status = "none"
  BY DEF SetProperty, Waiting
<1>2. /\ call[t] \in Calls /\ ns[t] /\ pc[t] = "wait" /\ call[t].type_arg # NULL
      /\ Kind(t) \in {"ensure", "write"}
  BY <1>1, WaitFacts DEF RequestInv
<1>3. call[t].value \in Values \cup {Absent}
  BY <1>2, CallFacts
<1>4. /\ Answer(t, "ok", <<>>) /\ effect' = [effect EXCEPT ![t] = e] /\ late' = late
      /\ prop' \in [Objects -> Values \cup {Absent}]
  BY <1>3 DEF SetProperty, HasEffect, PCInv, TypeOK
<1>5. /\ pc'[t] = pc[t] /\ call'[t] = call[t] /\ ns'[t] = ns[t]
      /\ request'[t] = request[t]
      /\ reply'[t] = [status |-> "ok", props |-> <<>>]
      /\ effect'[t] = e /\ Kind(t)' = Kind(t)
  BY <1>4, AnswerKeeps
<1>6. RequestInv(t)'
  BY <1>1, <1>2, <1>5 DEF RequestInv
<1>7. e \in [kind : {"none", "read", "found", "written", "ran", "gone", "lost"},
             got : Listings]
  BY NothingIsListed
<1> QED
  BY <1>2, <1>4, <1>6, <1>7, NothingIsListed, AnswerStep DEF PCInv, TypeOK

LEMMA RunMethodInv ==
    ASSUME PCInv, NEW t \in Threads, RunMethod(t)
    PROVE  PCInv'
<1> DEFINE e == [kind |-> "ran", got |-> <<>>]
<1>1. At(t, "wait") /\ request[t] = "run" /\ reply[t].status = "none"
  BY DEF RunMethod, Waiting
<1>2. /\ ns[t] /\ pc[t] = "wait" /\ call[t].type_arg # NULL /\ Kind(t) = "run"
  BY <1>1, WaitFacts DEF RequestInv
<1>3. /\ Answer(t, "ok", <<>>) /\ effect' = [effect EXCEPT ![t] = e]
      /\ late' = late /\ prop' = prop
  BY DEF RunMethod, HasEffect
<1>4. /\ pc'[t] = pc[t] /\ call'[t] = call[t] /\ ns'[t] = ns[t]
      /\ request'[t] = request[t]
      /\ reply'[t] = [status |-> "ok", props |-> <<>>]
      /\ effect'[t] = e /\ Kind(t)' = Kind(t)
  BY <1>3, AnswerKeeps
<1>5. RequestInv(t)'
  BY <1>1, <1>2, <1>4 DEF RequestInv
<1>6. e \in [kind : {"none", "read", "found", "written", "ran", "gone", "lost"},
             got : Listings]
  BY NothingIsListed
<1> QED
  BY <1>2, <1>3, <1>5, <1>6, NothingIsListed, AnswerStep DEF PCInv, TypeOK

LEMMA UnknownObjectInv ==
    ASSUME PCInv, NEW t \in Threads, UnknownObject(t)
    PROVE  PCInv'
<1> DEFINE e == [kind |-> "gone", got |-> <<>>]
<1>1. At(t, "wait") /\ request[t] \in {"set", "run"} /\ reply[t].status = "none"
  BY DEF UnknownObject, Waiting
<1>2. /\ ns[t] /\ pc[t] = "wait" /\ call[t].type_arg # NULL
      /\ request[t] = "set" => Kind(t) \in {"ensure", "write"}
      /\ request[t] = "run" => Kind(t) = "run"
  BY <1>1, WaitFacts DEF RequestInv
<1>3. /\ Answer(t, "unknown_object", <<>>) /\ effect' = [effect EXCEPT ![t] = e]
      /\ late' = late /\ prop' = prop
  BY DEF UnknownObject, HasEffect
<1>4. /\ pc'[t] = pc[t] /\ call'[t] = call[t] /\ ns'[t] = ns[t]
      /\ request'[t] = request[t]
      /\ reply'[t] = [status |-> "unknown_object", props |-> <<>>]
      /\ effect'[t] = e /\ Kind(t)' = Kind(t)
  BY <1>3, AnswerKeeps
<1>5. RequestInv(t)'
  BY <1>1, <1>2, <1>4 DEF RequestInv
<1>6. e \in [kind : {"none", "read", "found", "written", "ran", "gone", "lost"},
             got : Listings]
  BY NothingIsListed
<1> QED
  BY <1>2, <1>3, <1>5, <1>6, NothingIsListed, AnswerStep DEF PCInv, TypeOK

LEMMA RefuseInv ==
    ASSUME PCInv, NEW t \in Threads, Refuse(t)
    PROVE  PCInv'
<1>1. At(t, "wait") /\ reply[t].status = "none"
  BY DEF Refuse, Waiting
<1>2. /\ pc[t] = "wait" /\ RequestInv(t) /\ effect[t] = NoEffect
      /\ effect[t] \in [kind : {"none", "read", "found", "written", "ran", "gone", "lost"},
                        got : Listings]
  BY <1>1, WaitFacts
<1>3. /\ Answer(t, "failed", <<>>) /\ effect' = [effect EXCEPT ![t] = effect[t]]
      /\ late' = late /\ prop' = prop
  BY DEF Refuse, PCInv, TypeOK
<1>4. /\ pc'[t] = pc[t] /\ call'[t] = call[t] /\ ns'[t] = ns[t]
      /\ request'[t] = request[t]
      /\ reply'[t] = [status |-> "failed", props |-> <<>>]
      /\ effect'[t] = effect[t] /\ Kind(t)' = Kind(t)
  BY <1>3, AnswerKeeps
<1>5. RequestInv(t)'
  BY <1>2, <1>4 DEF RequestInv
<1> QED
  BY <1>2, <1>3, <1>5, NothingIsListed, AnswerStep DEF PCInv, TypeOK

LEMMA TimesOutInv ==
    ASSUME PCInv, NEW t \in Threads, TimesOut(t)
    PROVE  PCInv'
<1> DEFINE lost == [kind |-> "lost", got |-> <<>>]
<1>1. At(t, "wait")
  BY DEF TimesOut
<1>2. /\ pc[t] = "wait" /\ RequestInv(t) /\ call[t] \in Calls
      /\ effect[t] \in [kind : {"none", "read", "found", "written", "ran", "gone", "lost"},
                        got : Listings]
  BY <1>1, WaitFacts
<1>3. Waiting(t, "set") => /\ Target(call[t]) \in Technologies \cup Services
                           /\ call[t].value \in Values \cup {Absent}
  BY <1>2, CallFacts DEF Waiting, RequestInv
<1>4. late' \subseteq [on : Technologies \cup Services, value : Values \cup {Absent}]
  BY <1>3 DEF TimesOut, PCInv, TypeOK
<1>5. PICK e \in {lost, effect[t]} : effect' = [effect EXCEPT ![t] = e]
  BY DEF TimesOut, HasEffect, PCInv, TypeOK
<1>6. Answer(t, "timeout", <<>>) /\ prop' = prop
  BY DEF TimesOut
<1>7. /\ pc'[t] = pc[t] /\ call'[t] = call[t] /\ ns'[t] = ns[t]
      /\ request'[t] = request[t]
      /\ reply'[t] = [status |-> "timeout", props |-> <<>>]
      /\ effect'[t] = e /\ Kind(t)' = Kind(t)
  BY <1>5, <1>6, AnswerKeeps
<1>8. RequestInv(t)'
  BY <1>2, <1>7 DEF RequestInv
<1>9. e \in [kind : {"none", "read", "found", "written", "ran", "gone", "lost"},
             got : Listings]
  BY <1>2, NothingIsListed
<1> QED
  BY <1>2, <1>4, <1>5, <1>6, <1>8, <1>9, NothingIsListed, AnswerStep DEF PCInv, TypeOK

-------------------------------------------------------------------------------
(* ConnMan by itself changes no thread.                                     *)
LEMMA NoThreadStep ==
    ASSUME PCInv, TypeOK',
           UNCHANGED <<pc, call, ns, error, result, request, reply, effect>>
    PROVE  PCInv'
<1>1. ASSUME NEW t \in Threads
      PROVE  PCThreadInv(t)'
  BY <1>1, FrameInv DEF PCInv
<1> QED
  BY <1>1 DEF PCInv

LEMMA ConnmanAloneInv ==
    ASSUME PCInv, Publish \/ LateWrite \/ ConnmanChanges
    PROVE  PCInv'
<1>1. UNCHANGED <<pc, call, ns, error, result, request, reply, effect>>
  BY DEF Publish, LateWrite, ConnmanChanges, threadVars, busVars
<1>2. CASE Publish
  <2>1. TypeOK'
    BY <1>2 DEF PCInv, TypeOK, Publish, threadVars, busVars
  <2> QED
    BY <1>1, <2>1, NoThreadStep
<1>3. CASE LateWrite
  <2>1. PICK w \in late :
            /\ late' = late \ {w}
            /\ prop' = [prop EXCEPT ![w.on] = IF @ = Absent THEN Absent ELSE w.value]
    BY <1>3 DEF LateWrite
  <2>2. w.on \in Objects /\ w.value \in Values \cup {Absent}
    BY DEF PCInv, TypeOK, Objects
  <2>3. /\ prop' \in [Objects -> Values \cup {Absent}]
        /\ g_connman_state' = g_connman_state /\ begun' = begun
    BY <1>3, <2>1, <2>2 DEF PCInv, TypeOK, LateWrite
  <2>4. TypeOK'
    BY <1>1, <2>1, <2>3 DEF PCInv, TypeOK
  <2> QED
    BY <1>1, <2>4, NoThreadStep
<1>4. CASE ConnmanChanges
  <2>1. TypeOK'
    BY <1>1, <1>4, PCAssumption DEF PCInv, TypeOK, ConnmanChanges
  <2> QED
    BY <1>1, <2>1, NoThreadStep
<1> QED
  BY <1>2, <1>3, <1>4

LEMMA PCInitInv == Init => PCInv
<1> SUFFICES ASSUME Init
             PROVE  PCInv
  OBVIOUS
<1>1. TypeOK
  <2>1. /\ NoReply \in [status : {"none", "ok", "failed", "unknown_object", "timeout"},
                       props : Listings]
        /\ Unanswered \in [over : BOOLEAN, ok : BOOLEAN, got : Listings]
        /\ NoEffect \in [kind : {"none", "read", "found", "written", "ran", "gone",
                                  "lost"}, got : Listings]
    BY NothingIsListed DEF NoReply, Unanswered, NoEffect
  <2>2. prop \in [Objects -> Values \cup {Absent}] /\ begun \in 0..MaxCalls
    BY PCAssumption DEF Init
  <2> QED
    BY <2>1, <2>2 DEF Init, TypeOK
<1>2. ASSUME NEW t \in Threads
      PROVE  PCThreadInv(t)
  BY DEF Init, PCThreadInv, PlaceInv, RequestInv
<1> QED
  BY <1>1, <1>2 DEF PCInv

LEMMA PCNextInv == PCInv /\ [Next]_vars => PCInv'
<1> SUFFICES ASSUME PCInv, [Next]_vars
             PROVE  PCInv'
  OBVIOUS
<1>1. ASSUME NEW t \in Threads, Begin(t) \/ Library(t) \/ Connman(t) \/ TimesOut(t)
      PROVE  PCInv'
  <2>1. CASE Begin(t)
    BY <2>1, BeginInv
  <2>2. CASE Library(t)
    BY <2>2, CheckArgumentsInv, SetPropertyInternalInv, MissingArgumentInv, SendRequestInv,
       RequestEndsInv, NotFoundInv, FindInv, ReportInv
       DEF Library, ConnmanCall
  <2>3. CASE Connman(t)
    BY <2>3, ListPropertiesInv, SetPropertyInv, RunMethodInv, UnknownObjectInv, RefuseInv
       DEF Connman
  <2>4. CASE TimesOut(t)
    BY <2>4, TimesOutInv
  <2> QED
    BY <1>1, <2>1, <2>2, <2>3, <2>4
<1>2. CASE Publish \/ LateWrite \/ ConnmanChanges
  BY <1>2, ConnmanAloneInv
<1>3. CASE UNCHANGED vars
  <2>1. /\ UNCHANGED <<pc, call, ns, error, result, request, reply, effect>>
        /\ UNCHANGED <<g_connman_state, begun, prop, late>>
    BY <1>3 DEF vars, threadVars, busVars
  <2>2. TypeOK'
    BY <2>1 DEF PCInv, TypeOK
  <2> QED
    BY <2>1, <2>2, NoThreadStep
<1> QED
  BY <1>1, <1>2, <1>3 DEF Next

(* The invariant: what each place of the library knows of the call there    *)
(* and of what ConnMan has done for it.                                     *)
THEOREM PCInvariant == Spec => []PCInv
  BY PCInitInv, PCNextInv, PTL DEF Spec

(* Every variable keeps its type, and a thread waits exactly for a request  *)
(* it has sent.                                                             *)
THEOREM PropertyCallsTypes == Spec => []TypeOK
<1>1. PCInv => TypeOK
  BY DEF PCInv
<1> QED
  BY <1>1, PCInvariant, PTL

(* A call that ConnMan has carried out fails only if its reply came too     *)
(* late (connman_call and its callers).                                     *)
THEOREM FailuresAreReal == Spec => []FailureIsReal
<1>1. PCInv => FailureIsReal
  BY DEF PCInv, PCThreadInv, FailureIsReal
<1> QED
  BY <1>1, PCInvariant, PTL

(* The error that is printed names what was wrong (connman_call,            *)
(* connman_decode_call_error, find_property, set_property_internal).        *)
THEOREM ErrorsNameTheCause == Spec => []ErrorNamesCause
<1>1. PCInv => ErrorNamesCause
  BY DEF PCInv, PCThreadInv, ErrorNamesCause
<1> QED
  BY <1>1, PCInvariant, PTL

(* A synchronous call ends the process in no other way than the three that  *)
(* CrashIsExplained names.                                                  *)
THEOREM CrashesAreExplained == Spec => []CrashIsExplained
<1>1. PCInv => CrashIsExplained
  BY DEF PCInv, PCThreadInv, CrashIsExplained
<1> QED
  BY <1>1, PCInvariant, PTL

-------------------------------------------------------------------------------
(* The calls implement PropertyRegister.                                    *)

LEMMA SameSeen ==
    ASSUME NEW S
    PROVE  Register!Present(S) = Present(S) /\ Register!Seen(S) = Seen(S)
<1>1. Register!Present(S) = Present(S)
  BY DEF Register!Present, Register!Absent, Present, Absent
<1> QED
  BY <1>1 DEF Register!Seen, Seen

LEMMA SameOp == UNCHANGED call => UNCHANGED OpOf
  BY DEF OpOf, NoCall

LEMMA OpFacts ==
    ASSUME PCInv, NEW t \in Threads, call[t] \in ApiCalls[t]
    PROVE  /\ call[t] \in Calls
           /\ OpOf[t].kind = Kind(t) /\ OpOf[t].on = Subject(call[t])
           /\ OpOf[t].value = call[t].value
           /\ Kind(t) \in {"list", "read", "test", "ensure", "write", "run"}
<1>1. call[t] \in Calls
  BY PCAssumption
<1> QED
  BY <1>1, CallFacts DEF OpOf, OperationOf, Kind

LEMMA RegisterInitially == PCInv /\ Init => Register!RegisterInit
<1> SUFFICES ASSUME PCInv, Init
             PROVE  Register!RegisterInit
  OBVIOUS
<1>1. OpOf = [t \in Threads |-> Register!NoOperation]
  BY DEF Init, OpOf, Register!NoOperation, Register!Absent, Absent
<1> QED
  BY <1>1 DEF Init, PCInv, TypeOK, Register!RegisterInit, Register!None,
              Register!Unanswered, Unanswered, NoEffect, Register!Absent, Absent

(* The returns.                                                             *)
LEMMA ReturnTrue ==
    ASSUME PCInv, NEW t \in Threads, NEW kind \in {"read", "found", "written", "ran"},
           NEW got, Return(t, TRUE, got), pc[t] # "idle",
           effect[t] = [kind |-> kind, got |-> got]
    PROVE  Register!Succeed(t)
<1>1. result[t] = Unanswered
  BY DEF PCInv, PCThreadInv, PlaceInv
<1>2. UNCHANGED <<prop, OpOf, effect, late>>
  BY SameOp DEF Return, others
<1> QED
  BY <1>1, <1>2 DEF Register!Succeed, Return, Unanswered

LEMMA ReturnFalse ==
    ASSUME PCInv, NEW t \in Threads, Return(t, FALSE, <<>>), pc[t] # "idle"
    PROVE  Register!Fail(t)
<1>1. result[t] = Unanswered /\ call[t] \in ApiCalls[t]
  BY DEF PCInv, PCThreadInv, PlaceInv
<1>2. UNCHANGED <<prop, OpOf, effect, late>>
  BY SameOp DEF Return, others
<1>3. OpOf[t].kind = Kind(t) /\ Kind(t) # "none"
  BY <1>1, OpFacts
<1> QED
  BY <1>1, <1>2, <1>3 DEF Register!Fail, Return, Unanswered

LEMMA SameRegister ==
    ASSUME UNCHANGED <<prop, call, effect, result, late>>
    PROVE  UNCHANGED Register!registerVars
  BY SameOp DEF Register!registerVars

LEMMA GoingOn ==
    ASSUME NEW t, NEW place, NEW e, GoOn(t, place) \/ FailWith(t, place, e)
    PROVE  UNCHANGED Register!registerVars
  BY SameRegister DEF GoOn, FailWith, others

LEMMA LibraryImplements ==
    ASSUME PCInv, NEW t \in Threads, Library(t)
    PROVE  Register!Succeed(t) \/ Register!Fail(t) \/ UNCHANGED Register!registerVars
<1>1. CASE CheckArguments(t)
  BY <1>1, ReturnFalse, GoingOn DEF CheckArguments, At
<1>2. CASE SetPropertyInternal(t)
  BY <1>2, GoingOn DEF SetPropertyInternal
<1>3. CASE ConnmanCall(t)
  BY <1>3, SameRegister, GoingOn DEF ConnmanCall, MissingArgument, SendRequest, others
<1>4. CASE RequestEnds(t)
  <2>1. pc[t] = "wait" /\ RequestInv(t) /\ request[t] \in {"list", "set", "run"}
    BY <1>4 DEF RequestEnds, At, PCInv, TypeOK, PCThreadInv
  <2>2. CASE reply[t].status = "ok" /\ request[t] # "list" /\ Return(t, TRUE, <<>>)
    <3>1. \/ effect[t] = [kind |-> "written", got |-> <<>>]
          \/ effect[t] = [kind |-> "ran", got |-> <<>>]
      BY <2>1, <2>2 DEF RequestInv
    <3> QED
      BY <2>1, <2>2, <3>1, ReturnTrue
  <2>3. CASE /\ reply[t].status = "ok" /\ request[t] = "list" /\ Kind(t) = "list"
             /\ Return(t, TRUE, reply[t].props)
    <3>1. effect[t] = [kind |-> "read", got |-> reply[t].props]
      BY <2>1, <2>3 DEF RequestInv, ListAgrees
    <3> QED
      BY <2>1, <2>3, <3>1, ReturnTrue
  <2> QED
    BY <1>4, <2>2, <2>3, GoingOn DEF RequestEnds
<1>5. CASE NotFound(t)
  BY <1>5, GoingOn DEF NotFound
<1>6. CASE Find(t)
  <2> DEFINE o == Target(call[t])
             v == reply[t].props[o]
  <2>1. pc[t] = "find" /\ ListAgrees(t) /\ o \in DOMAIN reply[t].props
    BY <1>6 DEF Find, At, PCInv, PCThreadInv, RequestInv
  <2>2. CASE Kind(t) = "read" /\ Return(t, TRUE, [x \in {o} |-> v])
    <3>1. effect[t] = [kind |-> "read", got |-> [x \in {o} |-> v]]
      BY <2>1, <2>2 DEF ListAgrees
    <3> HIDE DEF o, v
    <3> QED
      BY <2>1, <2>2, <3>1, ReturnTrue
  <2>3. CASE Kind(t) \in {"test", "ensure"} /\ v = call[t].value /\ Return(t, TRUE, <<>>)
    <3>1. effect[t] = [kind |-> "found", got |-> <<>>]
      BY <2>1, <2>3 DEF ListAgrees
    <3> QED
      BY <2>1, <2>3, <3>1, ReturnTrue
  <2>4. CASE Return(t, FALSE, <<>>)
    BY <2>1, <2>4, ReturnFalse
  <2>5. CASE GoOn(t, "set_property")
    BY <2>5, GoingOn
  <2> QED
    BY <1>6, <2>2, <2>3, <2>4, <2>5 DEF Find, UseProperty
<1>7. CASE Report(t)
  BY <1>7, ReturnFalse, GoingOn DEF Report, At
<1> QED
  BY <1>1, <1>2, <1>3, <1>4, <1>5, <1>6, <1>7 DEF Library

(* The call, and the effects.                                               *)
LEMMA BeginImplements ==
    ASSUME PCInv, NEW t \in Threads, Begin(t)
    PROVE  \E p \in {OperationOf(c) : c \in UNION {ApiCalls[u] : u \in Threads}} :
               Register!Call(t, p)
<1>1. PICK c \in ApiCalls[t] : call' = [call EXCEPT ![t] = c]
  BY DEF Begin
<1>2. c # NoCall
  BY <1>1, CallFacts, PCAssumption
<1>3. OpOf' = [OpOf EXCEPT ![t] = OperationOf(c)]
  <2>1. \A u \in Threads : call'[u] = IF u = t THEN c ELSE call[u]
    BY <1>1 DEF PCInv, TypeOK
  <2> QED
    BY <1>2, <2>1 DEF OpOf, NoCall
<1>4. OpOf[t].kind = "none" \/ result[t].over
  <2>1. call[t] = NoCall \/ result[t].over
    BY DEF Begin, At, PCInv, PCThreadInv, PlaceInv
  <2> QED
    BY <2>1 DEF OpOf
<1>5. Register!Call(t, OperationOf(c))
  BY <1>3, <1>4
     DEF Begin, Register!Call, Register!None, NoEffect, Register!Unanswered, Unanswered
<1> QED
  BY <1>1, <1>5

LEMMA EffectStep ==
    ASSUME PCInv, NEW t \in Threads, At(t, "wait"), reply[t].status = "none",
           NEW status, NEW props, Answer(t, status, props), late' = late,
           Register!Outcome(t)
    PROVE  Register!Effect(t)
<1>1. /\ result[t] = Unanswered /\ effect[t] = NoEffect
  BY WaitFacts
<1>2. UNCHANGED <<OpOf, result, late>>
  BY SameOp DEF Answer, threadVars
<1> QED
  BY <1>1, <1>2 DEF Register!Effect, Unanswered, NoEffect

LEMMA ListPropertiesImplements ==
    ASSUME PCInv, NEW t \in Threads, ListProperties(t)
    PROVE  Register!Effect(t) \/ UNCHANGED Register!registerVars
<1> DEFINE o == Target(call[t])
           k == Kind(t)
<1>1. /\ At(t, "wait") /\ request[t] = "list" /\ reply[t].status = "none"
      /\ Answer(t, "ok", Seen(Listed(call[t]))) /\ late' = late /\ prop' = prop
  BY DEF ListProperties, Waiting
<1>2. /\ k \in {"list", "read", "test", "ensure"}
      /\ OpOf[t].kind = k /\ OpOf[t].value = call[t].value
      /\ OpOf[t].on = IF k = "list" THEN Listed(call[t]) ELSE {o}
  BY <1>1, WaitFacts, OpFacts DEF RequestInv, Subject, Kind
<1>3. Present({o}) # {} => Present({o}) = {o}
  BY DEF Present
<1>4. CASE k = "list" /\ HasEffect(t, "read", Seen(Listed(call[t])))
  <2>1. Register!Outcome(t)
    BY <1>1, <1>2, <1>4, SameSeen DEF HasEffect, Register!Outcome, Register!Has
  <2> QED
    BY <1>1, <2>1, EffectStep
<1>5. CASE k # "list" /\ Present({o}) = {} /\ HasEffect(t, "gone", <<>>)
  <2>1. Register!Outcome(t)
    BY <1>1, <1>2, <1>5, SameSeen DEF HasEffect, Register!Outcome, Register!Has
  <2> QED
    BY <1>1, <2>1, EffectStep
<1>6. CASE k = "read" /\ Present({o}) # {} /\ HasEffect(t, "read", Seen({o}))
  <2>1. Register!Outcome(t)
    BY <1>1, <1>2, <1>3, <1>6, SameSeen DEF HasEffect, Register!Outcome, Register!Has
  <2> QED
    BY <1>1, <2>1, EffectStep
<1>7. CASE /\ k \in {"test", "ensure"} /\ Present({o}) # {}
           /\ prop[o] = call[t].value /\ HasEffect(t, "found", <<>>)
  <2>1. Register!Outcome(t)
    BY <1>1, <1>2, <1>3, <1>7, SameSeen DEF HasEffect, Register!Outcome, Register!Has
  <2> QED
    BY <1>1, <2>1, EffectStep
<1>8. CASE UNCHANGED effect
  BY <1>1, <1>8, SameRegister DEF Answer, threadVars
<1> QED
  BY <1>4, <1>5, <1>6, <1>7, <1>8 DEF ListProperties

LEMMA RequestImplements ==
    ASSUME PCInv, NEW t \in Threads, SetProperty(t) \/ RunMethod(t) \/ UnknownObject(t)
    PROVE  Register!Effect(t)
<1> DEFINE o == Target(call[t])
<1>1. /\ At(t, "wait") /\ request[t] \in {"set", "run"} /\ reply[t].status = "none"
      /\ late' = late /\ \E status : Answer(t, status, <<>>)
  BY DEF SetProperty, RunMethod, UnknownObject, Waiting
<1>2. /\ call[t] \in Calls /\ call[t] \in ApiCalls[t] /\ call[t].type_arg # NULL
      /\ request[t] = "set" => Kind(t) \in {"ensure", "write"}
      /\ request[t] = "run" => Kind(t) = "run"
  BY <1>1, WaitFacts DEF RequestInv
<1>3. /\ OpOf[t].kind = Kind(t) /\ OpOf[t].value = call[t].value
      /\ OpOf[t].on = {o} /\ o \in Objects
  BY <1>1, <1>2, OpFacts, CallFacts DEF Subject, Kind, Objects
<1>4. Present({o}) = IF prop[o] = Absent THEN {} ELSE {o}
  BY <1>3 DEF Present
<1>5. CASE SetProperty(t)
  <2>1. /\ prop[o] # Absent /\ prop' = [prop EXCEPT ![o] = call[t].value]
        /\ HasEffect(t, "written", <<>>) /\ request[t] = "set"
    BY <1>5 DEF SetProperty, Waiting
  <2>2. prop' = [x \in Objects |-> IF x \in {o} THEN call[t].value ELSE prop[x]]
    BY <2>1 DEF PCInv, TypeOK
  <2>3. Register!Outcome(t)
    BY <1>2, <1>3, <1>4, <2>1, <2>2, SameSeen DEF HasEffect, Register!Outcome, Register!Has
  <2> QED
    BY <1>1, <2>3, EffectStep
<1>6. CASE RunMethod(t)
  <2>1. Register!Outcome(t)
    BY <1>2, <1>3, <1>4, <1>6, SameSeen
       DEF RunMethod, Waiting, HasEffect, Register!Outcome, Register!Has
  <2> QED
    BY <1>1, <2>1, EffectStep
<1>7. CASE UnknownObject(t)
  <2>1. Register!Outcome(t)
    BY <1>1, <1>2, <1>3, <1>4, <1>7, SameSeen
       DEF UnknownObject, HasEffect, Register!Outcome, Register!Has
  <2> QED
    BY <1>1, <2>1, EffectStep
<1> QED
  BY <1>5, <1>6, <1>7

LEMMA RefuseImplements ==
    ASSUME NEW t \in Threads, Refuse(t)
    PROVE  UNCHANGED Register!registerVars
  BY SameRegister DEF Refuse, Answer, threadVars

LEMMA TimesOutImplements ==
    ASSUME PCInv, NEW t \in Threads, TimesOut(t)
    PROVE  Register!Abandon(t) \/ UNCHANGED Register!registerVars
<1> DEFINE o == Target(call[t])
<1>1. At(t, "wait") /\ Answer(t, "timeout", <<>>) /\ prop' = prop
  BY DEF TimesOut
<1>2. CASE Waiting(t, "set")
  <2>1. /\ late' = late \cup {[on |-> o, value |-> call[t].value]}
        /\ HasEffect(t, "lost", <<>>)
    BY <1>2 DEF TimesOut
  <2>2. /\ Kind(t) \in {"ensure", "write"} /\ call[t] \in ApiCalls[t]
        /\ result[t] = Unanswered /\ effect[t] = NoEffect
    BY <1>1, <1>2, WaitFacts DEF Waiting, RequestInv
  <2>3. /\ OpOf[t].kind = Kind(t) /\ OpOf[t].value = call[t].value /\ OpOf[t].on = {o}
    BY <2>2, OpFacts DEF Subject, Kind
  <2>4. Register!Writes(OpOf[t]) = {[on |-> o, value |-> call[t].value]}
    BY <2>3 DEF Register!Writes
  <2>5. UNCHANGED <<prop, OpOf, result>>
    BY <1>1, SameOp DEF Answer, threadVars
  <2> QED
    BY <2>1, <2>2, <2>3, <2>4, <2>5
       DEF Register!Abandon, Register!Has, HasEffect, Unanswered, NoEffect
<1>3. CASE ~Waiting(t, "set")
  <2>1. late' = late /\ effect' = effect
    BY <1>3 DEF TimesOut
  <2> QED
    BY <1>1, <2>1, SameRegister DEF Answer, threadVars
<1> QED
  BY <1>2, <1>3

LEMMA ConnmanAloneImplements ==
    ASSUME PCInv, Publish \/ LateWrite \/ ConnmanChanges
    PROVE  \/ \E w \in late : Register!LateWrite(w)
           \/ \E o \in Drifting : Register!Drift(o)
           \/ UNCHANGED Register!registerVars
<1>1. UNCHANGED <<call, result, effect>> /\ UNCHANGED OpOf
  BY SameOp DEF Publish, LateWrite, ConnmanChanges, threadVars, busVars
<1>2. CASE Publish
  BY <1>1, <1>2, SameRegister DEF Publish, busVars
<1>3. CASE LateWrite
  <2>1. PICK w \in late :
            /\ late' = late \ {w}
            /\ prop' = [prop EXCEPT ![w.on] = IF @ = Absent THEN Absent ELSE w.value]
    BY <1>3 DEF LateWrite
  <2>2. w.on \in Objects /\ prop \in [Objects -> Values \cup {Absent}]
    BY DEF PCInv, TypeOK, Objects
  <2>3. \/ prop[w.on] # Absent /\ prop' = [prop EXCEPT ![w.on] = w.value]
        \/ UNCHANGED prop
    <3> DEFINE p == w.on
    <3>1. prop[p] = Absent => [prop EXCEPT ![p] = Absent] = prop
      BY <2>2
    <3> HIDE DEF p
    <3> QED
      BY <2>1, <3>1 DEF p
  <2>4. Register!LateWrite(w)
    BY <1>1, <2>1, <2>3 DEF Register!LateWrite, Register!Absent, Absent
  <2> QED
    BY <2>4
<1>4. CASE ConnmanChanges
  BY <1>1, <1>4 DEF ConnmanChanges, Register!Drift, Register!Absent, Absent
<1> QED
  BY <1>2, <1>3, <1>4

LEMMA NextImplements ==
    PCInv /\ [Next]_vars => [Register!RegisterNext]_(Register!registerVars)
<1> SUFFICES ASSUME PCInv, [Next]_vars
             PROVE  [Register!RegisterNext]_(Register!registerVars)
  OBVIOUS
<1>1. ASSUME NEW t \in Threads, Begin(t) \/ Library(t) \/ Connman(t) \/ TimesOut(t)
      PROVE  [Register!RegisterNext]_(Register!registerVars)
  <2>1. CASE Begin(t)
    BY <2>1, BeginImplements DEF Register!RegisterNext
  <2>2. CASE Library(t)
    BY <2>2, LibraryImplements DEF Register!RegisterNext
  <2>3. CASE Connman(t)
    BY <2>3, ListPropertiesImplements, RequestImplements, RefuseImplements
       DEF Connman, Register!RegisterNext
  <2>4. CASE TimesOut(t)
    BY <2>4, TimesOutImplements DEF Register!RegisterNext
  <2> QED
    BY <1>1, <2>1, <2>2, <2>3, <2>4
<1>2. CASE Publish \/ LateWrite \/ ConnmanChanges
  BY <1>2, ConnmanAloneImplements DEF Register!RegisterNext
<1>3. CASE UNCHANGED vars
  BY <1>3, SameRegister DEF vars, threadVars, busVars
<1> QED
  BY <1>1, <1>2, <1>3 DEF Next

(* What a call returns is what ConnMan did for it at one moment of the      *)
(* call; only a call that fails leaves a write behind.                      *)
THEOREM CallsImplementRegister == Spec => ImplementsRegister
<1>1. Init => Register!RegisterInit
  BY PCInitInv, RegisterInitially
<1> QED
  BY <1>1, PCInvariant, NextImplements, PTL
     DEF Spec, ImplementsRegister, Register!RegisterSpec
===============================================================================
