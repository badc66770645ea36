-------------------------- MODULE InitHandshakeProofs --------------------------
(***************************************************************************)
(* Proofs about InitHandshake, for any number of calls of connman_init.    *)
(***************************************************************************)
EXTENDS InitHandshake, TLAPS

-------------------------------------------------------------------------------
(* The tables: where each step of the set-up leads, and what it leaves held. *)
LEMMA PlaceFacts ==
    /\ Connected = {"main_loop", "ns", "conn", "manager_sub", "technology_sub", "service_sub"}
    /\ Prepared = {"agent_path", "introspection", "bus_name"}
    /\ DOMAIN Acquisitions = Connected \cup Prepared
    /\ Labels = {"err_no_agent", "err_no_service_sub", "err_no_technology_sub",
                 "err_no_manager_sub", "err_no_conn", "err_no_ns"} \cup PreparedLabels
    /\ SetupPlaces = DOMAIN Acquisitions \cup Labels
                         \cup {"set_ns", "choose", "reread_ns", "err_no_loop"}
    /\ DOMAIN HeldAt = SetupPlaces \cup {"none", "exited"}
    /\ DOMAIN OnFailure = DOMAIN Acquisitions
    /\ DOMAIN FallsTo = Labels
    /\ DOMAIN PreparedAt = AgentSetup \ {"agent_path"}
<1>1. /\ Connected = {"main_loop", "ns", "conn", "manager_sub", "technology_sub", "service_sub"}
      /\ Prepared = {"agent_path", "introspection", "bus_name"}
      /\ PreparedLabels = {"out_no_introspection_data", "out_no_bus_name"}
  BY DEF Connected, Prepared, PreparedLabels
<1>2. /\ DOMAIN Acquisitions = Connected \cup Prepared
      /\ DOMAIN OnFailure = DOMAIN Acquisitions
  BY <1>1 DEF Acquisitions, OnFailure
<1>3. /\ Labels = {"err_no_agent", "err_no_service_sub", "err_no_technology_sub",
                   "err_no_manager_sub", "err_no_conn", "err_no_ns"} \cup PreparedLabels
      /\ DOMAIN FallsTo = Labels
  BY <1>1 DEF Labels, Releases, FallsTo
<1>4. SetupPlaces = DOMAIN Acquisitions \cup Labels
                        \cup {"set_ns", "choose", "reread_ns", "err_no_loop"}
  BY DEF SetupPlaces
<1>5. DOMAIN HeldAt = SetupPlaces \cup {"none", "exited"}
  BY <1>1, <1>2, <1>3, <1>4 DEF HeldAt
<1>6. DOMAIN PreparedAt = AgentSetup \ {"agent_path"}
  BY <1>1 DEF PreparedAt, AgentSetup
<1> QED BY <1>1, <1>2, <1>3, <1>4, <1>5, <1>6

LEMMA PlacesAre ==
    /\ SetupPlaces \cup ReportPlaces \cup RunPlaces \subseteq Places
    /\ ReportPlaces = {"lock_id", "set_done", "set_rc", "signal_cond", "unlock_id"}
    /\ RunPlaces = {"publish", "run_loop", "loop", "register_object", "call_connman"}
    /\ {"set_ns", "choose", "reread_ns", "agent_path", "err_no_loop", "main_loop"}
           \subseteq SetupPlaces
    /\ {"none", "exited", "hung", "crashed"} \subseteq Places
BY PlaceFacts DEF Places, ReportPlaces, RunPlaces, AgentPlaces

LEMMA AcquireFacts ==
    ASSUME NEW r \in DOMAIN Acquisitions \ Prepared
    PROVE  /\ r \in SetupPlaces /\ r \in Resources /\ r \in Connected
           /\ Acquisitions[r] \in Connected \cup {"set_ns"}
           /\ FailsTo(r) \in (Labels \ PreparedLabels) \cup {"err_no_loop"}
           /\ HeldAt[FailsTo(r)] = HeldAt[r]
           /\ HeldAt[Acquisitions[r]] = HeldAt[r] \cup {r}
<1>1. r \in {"main_loop", "ns", "conn", "manager_sub", "technology_sub", "service_sub"}
  BY PlaceFacts
<1>2. r \in SetupPlaces /\ r \in Resources /\ r \in Connected
  BY <1>1, PlaceFacts DEF Resources
<1>3. Acquisitions[r] \in Connected \cup {"set_ns"}
  BY <1>1, PlaceFacts DEF Acquisitions
<1>4. FailsTo(r) \in (Labels \ PreparedLabels) \cup {"err_no_loop"}
  <2>1. FailsTo(r) \in {"err_no_loop", "err_no_ns", "err_no_conn", "err_no_manager_sub",
                        "err_no_technology_sub", "err_no_service_sub"}
    BY <1>1 DEF FailsTo, OnFailure
  <2> QED BY <2>1, PlaceFacts DEF PreparedLabels
<1>0. Connected = {"main_loop", "ns", "conn", "manager_sub", "technology_sub", "service_sub"}
  BY PlaceFacts
<1>5. HeldAt[FailsTo(r)] = HeldAt[r]
  BY <1>0, <1>1 DEF FailsTo, OnFailure, HeldAt
<1>6. HeldAt[Acquisitions[r]] = HeldAt[r] \cup {r}
  BY <1>0, <1>1 DEF Acquisitions, HeldAt
<1> QED BY <1>2, <1>3, <1>4, <1>5, <1>6

(* What an attempt's state holds for the agent when its thread is there.    *)
AgentHeldAt(place) == IF place \in DOMAIN PreparedAt THEN PreparedAt[place] ELSE {}

LEMMA PrepareFacts ==
    ASSUME NEW r \in Prepared
    PROVE  /\ r \in SetupPlaces /\ r \in Resources /\ r \in AgentSetup /\ r \notin Connected
           /\ Acquisitions[r] \in Prepared \cup {"publish"}
           /\ Acquisitions[r] = "publish" <=> r = "bus_name"
           /\ FailsTo(r) \in PreparedLabels \cup {"err_no_agent"}
           /\ HeldAt[r] = Connected /\ HeldAt[FailsTo(r)] = Connected
           /\ r # "bus_name" => HeldAt[Acquisitions[r]] = Connected
           /\ AgentHeldAt(FailsTo(r)) = AgentHeldAt(r)
           /\ r # "bus_name" => AgentHeldAt(Acquisitions[r]) = AgentHeldAt(r) \cup {r}
           /\ r = "bus_name" => AgentHeldAt(r) \cup {r} = Prepared
<1>1. r \in {"agent_path", "introspection", "bus_name"}
  BY PlaceFacts
<1>2. r \in SetupPlaces /\ r \in Resources /\ r \in AgentSetup /\ r \notin Connected
  BY <1>1, PlaceFacts DEF Resources, AgentSetup
<1>3. /\ Acquisitions[r] \in Prepared \cup {"publish"}
      /\ Acquisitions[r] = "publish" <=> r = "bus_name"
  BY <1>1, PlaceFacts DEF Acquisitions
<1>4. FailsTo(r) \in PreparedLabels \cup {"err_no_agent"}
  BY <1>1 DEF FailsTo, OnFailure, PreparedLabels
<1>5. /\ HeldAt[r] = Connected /\ HeldAt[FailsTo(r)] = Connected
      /\ r # "bus_name" => HeldAt[Acquisitions[r]] = Connected
  BY <1>1 DEF HeldAt, FailsTo, OnFailure, Acquisitions
<1>6. AgentHeldAt(FailsTo(r)) = AgentHeldAt(r)
  BY <1>1 DEF AgentHeldAt, FailsTo, OnFailure, PreparedAt
<1>7. r # "bus_name" => AgentHeldAt(Acquisitions[r]) = AgentHeldAt(r) \cup {r}
  BY <1>1 DEF AgentHeldAt, Acquisitions, PreparedAt
<1>8. r = "bus_name" => AgentHeldAt(r) \cup {r} = Prepared
  BY <1>1, PlaceFacts DEF AgentHeldAt, PreparedAt
<1> QED BY <1>2, <1>3, <1>4, <1>5, <1>6, <1>7, <1>8

LEMMA UnprepareFacts ==
    ASSUME NEW label \in PreparedLabels
    PROVE  /\ label \in SetupPlaces /\ label \in AgentSetup /\ label \in Labels
           /\ label \notin DOMAIN Acquisitions
           /\ FallsTo[label] \in {"out_no_introspection_data", "err_no_agent"}
           /\ Releases[label] \in Prepared
           /\ HeldAt[label] = Connected /\ HeldAt[FallsTo[label]] = Connected
           /\ Releases[label] \in AgentHeldAt(label)
           /\ AgentHeldAt(FallsTo[label]) = AgentHeldAt(label) \ {Releases[label]}
<1>1. label \in {"out_no_introspection_data", "out_no_bus_name"}
  BY DEF PreparedLabels
<1>2. label \in SetupPlaces /\ label \in AgentSetup /\ label \in Labels
  BY <1>1, PlaceFacts DEF AgentSetup
<1>3. FallsTo[label] \in {"out_no_introspection_data", "err_no_agent"}
  BY <1>1 DEF FallsTo
<1>4. Releases[label] \in Prepared
  BY <1>1, PlaceFacts DEF Releases
<1>5. HeldAt[label] = Connected /\ HeldAt[FallsTo[label]] = Connected
  BY <1>1 DEF HeldAt, FallsTo
<1>6. /\ Releases[label] \in AgentHeldAt(label)
      /\ AgentHeldAt(FallsTo[label]) = AgentHeldAt(label) \ {Releases[label]}
  BY <1>1 DEF Releases, AgentHeldAt, FallsTo, PreparedAt
<1>7. label \notin DOMAIN Acquisitions
  BY <1>1, PlaceFacts
<1> QED BY <1>2, <1>3, <1>4, <1>5, <1>6, <1>7

LEMMA UnwindFacts ==
    ASSUME NEW label \in Labels \ PreparedLabels
    PROVE  /\ label \in SetupPlaces /\ label \notin AgentSetup
           /\ label \notin DOMAIN Acquisitions
           /\ FallsTo[label] \in (Labels \ PreparedLabels) \cup {"err_no_loop"}
           /\ Releases[label] \in Connected
           /\ Releases[label] \in HeldAt[label]
           /\ HeldAt[FallsTo[label]] = HeldAt[label] \ {Releases[label]}
           /\ Releases[label] = "conn" => FallsTo[label] \in AfterClose
           /\ label \in AfterClose => FallsTo[label] \in AfterClose
<1>1. label \in {"err_no_agent", "err_no_service_sub", "err_no_technology_sub",
                 "err_no_manager_sub", "err_no_conn", "err_no_ns"}
  BY PlaceFacts
<1>2. label \in SetupPlaces /\ label \notin AgentSetup /\ label \notin DOMAIN Acquisitions
  BY <1>1, PlaceFacts DEF AgentSetup, PreparedLabels
<1>3. FallsTo[label] \in (Labels \ PreparedLabels) \cup {"err_no_loop"}
  BY <1>1, PlaceFacts DEF FallsTo, PreparedLabels
<1>4. Releases[label] \in Connected
  BY <1>1, PlaceFacts DEF Releases
<1>5. /\ Releases[label] \in HeldAt[label]
      /\ HeldAt[FallsTo[label]] = HeldAt[label] \ {Releases[label]}
  BY <1>1, PlaceFacts DEF Releases, FallsTo, HeldAt
<1>6. /\ Releases[label] = "conn" => FallsTo[label] \in AfterClose
      /\ label \in AfterClose => FallsTo[label] \in AfterClose
  BY <1>1 DEF Releases, FallsTo, AfterClose
<1> QED BY <1>2, <1>3, <1>4, <1>5, <1>6

LEMMA NowhereElse ==
    /\ DOMAIN HeldAt \cap (RunPlaces \cup ReportPlaces \cup {"hung", "crashed"}) = {}
    /\ SetupPlaces \cap (RunPlaces \cup ReportPlaces \cup {"hung", "crashed"}) = {}
    /\ RunPlaces \cap (ReportPlaces \cup {"hung", "crashed"}) = {}
    /\ AgentPlaces \subseteq RunPlaces /\ SetupPlaces \subseteq DOMAIN HeldAt
    /\ AgentSetup \subseteq SetupPlaces
    /\ AfterClose \cap (DOMAIN Acquisitions \cup AgentSetup \cup RunPlaces
                           \cup {"none", "set_ns", "choose", "reread_ns"}) = {}
BY PlaceFacts DEF RunPlaces, ReportPlaces, AgentPlaces, AgentSetup, PreparedLabels, AfterClose

-------------------------------------------------------------------------------
(* Where a thread goes after a step that used an init_data or a state.      *)
LEMMA UseIdTypes ==
    ASSUME TypeOK, NEW a \in Attempts, NEW b \in Attempts, NEW place \in Places,
           UseId(a, b, place)
    PROVE  hpc' \in [Attempts -> Places] /\ stale' \in BOOLEAN
<1>1. stale' \in BOOLEAN
  BY DEF UseId
<1>2. hpc' \in [Attempts -> Places]
  BY PlacesAre DEF TypeOK, UseId, Goto
<1> QED BY <1>1, <1>2

LEMMA UseStateTypes ==
    ASSUME TypeOK, NEW a \in Attempts, NEW n, NEW things, NEW place \in Places,
           UseState(a, n, things, place)
    PROVE  hpc' \in [Attempts -> Places]
BY PlacesAre DEF TypeOK, UseState, Goto

LEMMA SignalTypes ==
    ASSUME TypeOK, NEW a \in Attempts, NEW b \in Attempts, NEW verdict \in BOOLEAN,
           NEW next \in {"none", "exited", "publish", "loop"},
           Signal(a, b, verdict, next)
    PROVE  /\ id' \in [Attempts -> Attempts]
           /\ outcome' \in [Attempts -> BOOLEAN]
           /\ resume' \in [Attempts -> {"none", "exited", "publish", "loop"}]
<1>1. id' \in [Attempts -> Attempts]
  BY DEF TypeOK, Signal
<1>2. outcome' \in [Attempts -> BOOLEAN]
  BY DEF TypeOK, Signal
<1>3. resume' \in [Attempts -> {"none", "exited", "publish", "loop"}]
  BY DEF TypeOK, Signal
<1> QED BY <1>1, <1>2, <1>3

(* The state a thread uses for the agent is that of some attempt.           *)
LEMMA AgentStateExists ==
    ASSUME TypeOK, HoldInv, NEW a \in Attempts, hpc[a] \in AgentSetup \cup AgentPlaces
    PROVE  agent_ns[a] \in Attempts
BY DEF TypeOK, HoldInv, Holds, Attempts

LEMMA TypesKept ==
    ASSUME TypeOK, HoldInv, ThreadsInv, Next
    PROVE  TypeOK'
<1>0. Attempts \subseteq 0..MaxAttempts /\ 0 \in 0..MaxAttempts
  BY IHAssumption DEF Attempts
<1> USE DEF TypeOK
<1>1. CASE CallInit
  <2>1. "main_loop" \in SetupPlaces /\ attempt' \in Attempts
    BY <1>1, PlaceFacts, IHAssumption DEF CallInit, Attempts
  <2>2. hpc' \in [Attempts -> Places]
    BY <1>1, <2>1, PlacesAre DEF CallInit
  <2> QED BY <1>0, <1>1, <2>1, <2>2 DEF CallInit, reportVars, libVars
<1>2. CASE ConnmanInit \/ WakeSpuriously
  <2> USE DEF Caller, callVars, reportVars, libVars
  <2>1. CASE LockId
    BY <2>1 DEF LockId, AfterLock
  <2>2. CASE TestDone
    BY <2>2 DEF TestDone
  <2>3. CASE WaitTimesOut \/ WakeSpuriously
    BY <2>3 DEF WaitTimesOut, WakeSpuriously
  <2>4. CASE UnlockId
    BY <2>4 DEF UnlockId
  <2>5. CASE CheckDone
    BY <2>5 DEF CheckDone, Verdict
  <2>6. CASE ReadRc
    BY <2>6 DEF ReadRc, Verdict
  <2> QED BY <1>2, <2>1, <2>2, <2>3, <2>4, <2>5, <2>6 DEF ConnmanInit
<1>3. CASE TenSecondsPass
  <2>1. attempt \in Attempts
    BY <1>3, IHAssumption DEF TenSecondsPass, InCall, ThreadsInv, Attempts
  <2> QED BY <1>3, <2>1 DEF TenSecondsPass, callVars, idVars, reportVars, libVars
<1>4. ASSUME NEW a \in Attempts, Handler(a)
      PROVE  TypeOK'
  <2>0. id[a] \in Attempts
    OBVIOUS
  <2>1. ASSUME NEW r \in DOMAIN Acquisitions \ Prepared, Acquire(a, r) PROVE TypeOK'
    <3>1. Acquisitions[r] \in Places /\ FailsTo(r) \in Places /\ r \in Resources
      BY AcquireFacts, PlacesAre, PlaceFacts
    <3>2. /\ hpc' \in [Attempts -> Places] /\ held' \in [Attempts -> SUBSET Resources]
          /\ failed' \subseteq Attempts
      BY <2>1, <3>1 DEF Acquire, Goto
    <3> QED
      BY <2>1, <3>2 DEF Acquire, callVars, idVars, waitVars, reportVars
  <2>2. CASE SetNs(a)
    <3>1. "choose" \in Places
      BY PlacesAre
    <3>2. hpc' \in [Attempts -> Places] /\ stale' \in BOOLEAN
      BY <2>2, <3>1, UseIdTypes DEF SetNs
    <3>3. id_ns' \in 0..MaxAttempts
      BY <1>0, <2>2 DEF SetNs
    <3> QED
      BY <2>2, <3>2, <3>3 DEF SetNs, callVars, waitVars, reportVars, libVars
  <2>3. CASE ChooseAgent(a)
    <3>1. PICK agent \in BOOLEAN :
               IF agent
               THEN UseId(a, a, "reread_ns") /\ UNCHANGED <<id, outcome, resume>>
               ELSE UseId(a, a, "lock_id") /\ Signal(a, a, TRUE, AfterSignal)
      BY <2>3 DEF ChooseAgent
    <3>2. hpc' \in [Attempts -> Places] /\ stale' \in BOOLEAN
      <4>1. "reread_ns" \in Places /\ "lock_id" \in Places
        BY PlacesAre
      <4> QED BY <3>1, <4>1, UseIdTypes
    <3>3. /\ id' \in [Attempts -> Attempts] /\ outcome' \in [Attempts -> BOOLEAN]
          /\ resume' \in [Attempts -> {"none", "exited", "publish", "loop"}]
      <4>1. CASE agent
        BY <3>1, <4>1
      <4>2. CASE ~agent
        <5>1. Signal(a, a, TRUE, "publish")
          BY <3>1, <4>2 DEF AfterSignal
        <5> QED BY <5>1, SignalTypes
      <4> QED BY <4>1, <4>2
    <3> QED
      BY <2>3, <3>2, <3>3 DEF ChooseAgent, callVars, idVars, waitVars, libVars
  <2>4. CASE RereadNs(a)
    <3>1. \E place \in {"agent_path", "crashed"} : UseId(a, a, place)
      BY <2>4 DEF RereadNs
    <3>2. hpc' \in [Attempts -> Places] /\ stale' \in BOOLEAN
      BY <3>1, PlacesAre, UseIdTypes
    <3>3. agent_ns' \in [Attempts -> 0..MaxAttempts]
      BY <1>0, <2>4 DEF RereadNs
    <3> QED
      BY <2>4, <3>2, <3>3 DEF RereadNs, callVars, idVars, waitVars, libVars
  <2>5. ASSUME NEW r \in Prepared, Prepare(a, r) PROVE TypeOK'
    <3>1. Acquisitions[r] \in Places /\ FailsTo(r) \in Places /\ r \in Resources
      BY PrepareFacts, PlacesAre, PlaceFacts
    <3>2. hpc' \in [Attempts -> Places]
      BY <2>5, <3>1, UseStateTypes DEF Prepare
    <3>3. agent_ns[a] \in Attempts
      BY <2>5, PrepareFacts, AgentStateExists DEF Prepare, At
    <3>4. /\ held' \in [Attempts -> SUBSET Resources]
          /\ acquired' \in [Attempts -> {"none", "due", "done"}]
          /\ failed' \subseteq Attempts
      BY <2>5, <3>1, <3>3 DEF Prepare
    <3> QED
      BY <2>5, <3>2, <3>4 DEF Prepare, callVars, idVars, waitVars, reportVars
  <2>6. ASSUME NEW label \in PreparedLabels, Unprepare(a, label) PROVE TypeOK'
    <3>1. FallsTo[label] \in Places
      BY UnprepareFacts, PlacesAre, PlaceFacts DEF PreparedLabels
    <3>2. hpc' \in [Attempts -> Places]
      BY <2>6, <3>1, UseStateTypes DEF Unprepare
    <3>3. agent_ns[a] \in Attempts
      BY <2>6, UnprepareFacts, AgentStateExists DEF Unprepare, At
    <3>4. held' \in [Attempts -> SUBSET Resources]
      BY <2>6, <3>3 DEF Unprepare
    <3> QED
      BY <2>6, <3>2, <3>4 DEF Unprepare, callVars, idVars, waitVars, reportVars
  <2>7. ASSUME NEW label \in Labels \ PreparedLabels, Unwind(a, label) PROVE TypeOK'
    <3>1. FallsTo[label] \in Places
      BY UnwindFacts, PlacesAre, PlaceFacts
    <3>2. /\ hpc' \in [Attempts -> Places] /\ held' \in [Attempts -> SUBSET Resources]
          /\ closed_by' \subseteq Attempts
      BY <2>7, <3>1 DEF Unwind, Goto
    <3> QED BY <2>7, <3>2 DEF Unwind, callVars, idVars, waitVars, reportVars
  <2>8. CASE Fail(a)
    BY <2>8, PlacesAre DEF Fail, Goto, Signal, callVars, idVars, waitVars, libVars
  <2>9. CASE SignalLock(a)
    <3>1. PICK place \in {"set_done", "hung"} : UseId(a, id[a], place)
      BY <2>9 DEF SignalLock
    <3>2. place \in Places
      BY PlacesAre
    <3>3. hpc' \in [Attempts -> Places] /\ stale' \in BOOLEAN
      BY <2>0, <3>1, <3>2, UseIdTypes
    <3> QED
      BY <2>9, <3>3 DEF SignalLock, callVars, waitVars, reportVars, libVars
  <2>10. CASE SignalSetDone(a)
    BY <2>10, PlacesAre DEF SignalSetDone, UseId, Live, Hits, InCall, Goto,
                callVars, waitVars, reportVars, libVars
  <2>11. CASE SignalSetRc(a)
    BY <2>11, PlacesAre DEF SignalSetRc, UseId, Live, Goto,
                callVars, waitVars, reportVars, libVars
  <2>12. CASE SignalCond(a)
    <3>1. caller' = caller \/ (caller = "wait" /\ caller' = "woken")
      BY <2>12 DEF SignalCond, Signalled
    <3>2. "unlock_id" \in Places
      BY PlacesAre
    <3>3. hpc' \in [Attempts -> Places] /\ stale' \in BOOLEAN
      BY <2>0, <2>12, <3>2, UseIdTypes DEF SignalCond
    <3> QED
      BY <2>12, <3>1, <3>3 DEF SignalCond, callVars, idVars, reportVars, libVars
  <2>13. CASE SignalUnlock(a)
    <3>1. hpc' \in [Attempts -> Places] /\ stale' \in BOOLEAN
      <4>1. resume[a] \in Places /\ "crashed" \in Places
        BY PlacesAre
      <4> QED BY <2>0, <2>13, <4>1, UseIdTypes DEF SignalUnlock
    <3>2. /\ id' \in [Attempts -> Attempts] /\ outcome' \in [Attempts -> BOOLEAN]
          /\ resume' \in [Attempts -> {"none", "exited", "publish", "loop"}]
      BY <2>13, SignalTypes DEF SignalUnlock
    <3>3. mutex' \in {"none", "caller", "handler"}
      BY <2>13 DEF SignalUnlock
    <3> QED
      BY <2>13, <3>1, <3>2, <3>3 DEF SignalUnlock, callVars, waitVars, libVars
  <2>14. CASE Publish(a)
    BY <1>0, <2>14, PlacesAre DEF Publish, Goto, callVars, idVars, waitVars, reportVars
  <2>15. CASE RunLoop(a)
    BY <1>0, <2>15, PlacesAre DEF RunLoop, Goto, callVars, idVars, waitVars, reportVars
  <2>16. ASSUME NEW b \in Attempts, BusAcquired(a, b) PROVE TypeOK'
    <3>1. hpc' \in [Attempts -> Places] /\ stale' \in BOOLEAN
      BY <2>16, PlacesAre DEF BusAcquired, UseId, Live, Goto
    <3>2. /\ id' \in [Attempts -> Attempts]
          /\ agent_ns' \in [Attempts -> 0..MaxAttempts]
          /\ acquired' \in [Attempts -> {"none", "due", "done"}]
      BY <1>0, <2>16 DEF BusAcquired
    <3> QED
      BY <2>16, <3>1, <3>2 DEF BusAcquired, callVars, idVars, waitVars
  <2>17. CASE ExportAgent(a)
    <3>1. hpc' \in [Attempts -> Places]
      BY <2>17, PlacesAre, UseStateTypes DEF ExportAgent
    <3>2. agent_ns[a] \in Attempts
      BY <2>17, AgentStateExists DEF ExportAgent, At, AgentPlaces
    <3>3. /\ held' \in [Attempts -> SUBSET Resources] /\ failed' \subseteq Attempts
          /\ id' \in [Attempts -> Attempts] /\ outcome' \in [Attempts -> BOOLEAN]
          /\ resume' \in [Attempts -> {"none", "exited", "publish", "loop"}]
          /\ agent_ns' \in [Attempts -> 0..MaxAttempts]
      <4>1. CASE UNCHANGED <<reportVars, failed>>
        <5>1. held[agent_ns[a]] \cup {"agent_object"} \in SUBSET Resources
          BY <3>2 DEF Resources
        <5>2. \/ held' = [held EXCEPT ![agent_ns[a]] = @ \cup {"agent_object"}]
              \/ UNCHANGED held
          BY <2>17 DEF ExportAgent
        <5> QED BY <4>1, <5>1, <5>2 DEF reportVars
      <4>2. CASE /\ Signal(a, id[a], FALSE, "loop")
                 /\ agent_ns' = [agent_ns EXCEPT ![a] = 0]
                 /\ failed' = failed \cup {id[a]}
                 /\ UNCHANGED held
        BY <1>0, <2>0, <4>2, SignalTypes
      <4> QED BY <2>17, <4>1, <4>2 DEF ExportAgent
    <3> QED
      BY <2>17, <3>1, <3>3 DEF ExportAgent, callVars, idVars, waitVars
  <2>18. CASE RegisterAgent(a)
    <3>1. hpc' \in [Attempts -> Places]
      BY <2>18, PlacesAre, UseStateTypes DEF RegisterAgent
    <3>2. agent_ns[a] \in Attempts
      BY <2>18, AgentStateExists DEF RegisterAgent, At, AgentPlaces
    <3>3. PICK accepted \in BOOLEAN :
               /\ held' = [held EXCEPT ![agent_ns[a]] = AfterReply(accepted, @)]
               /\ failed' = IF accepted THEN failed ELSE failed \cup {id[a]}
               /\ Signal(a, id[a], accepted, "loop")
      BY <2>18 DEF RegisterAgent
    <3>4. AfterReply(accepted, held[agent_ns[a]]) \in SUBSET Resources
      BY <3>2 DEF AfterReply, Resources
    <3>5. held' \in [Attempts -> SUBSET Resources] /\ failed' \subseteq Attempts
      BY <3>3, <3>4
    <3>6. /\ id' \in [Attempts -> Attempts] /\ outcome' \in [Attempts -> BOOLEAN]
          /\ resume' \in [Attempts -> {"none", "exited", "publish", "loop"}]
          /\ agent_ns' \in [Attempts -> 0..MaxAttempts]
      BY <1>0, <2>18, <3>3 DEF RegisterAgent, Signal
    <3> QED
      BY <2>18, <3>1, <3>5, <3>6 DEF RegisterAgent, callVars, idVars, waitVars
  <2> QED
    BY <1>4, <2>1, <2>2, <2>3, <2>4, <2>5, <2>6, <2>7, <2>8, <2>9, <2>10, <2>11, <2>12,
       <2>13, <2>14, <2>15, <2>16, <2>17, <2>18 DEF Handler, SignalInitDone, OnBusAcquired
<1> QED
  BY <1>1, <1>2, <1>3, <1>4 DEF Next

-------------------------------------------------------------------------------
(* What the threads hold.                                                   *)

LEMMA AfterUse ==
    ASSUME TypeOK, NEW a \in Attempts, NEW b, NEW place
    PROVE  /\ UseId(a, b, place) => hpc'[a] = place \/ (~Hits(b) /\ hpc'[a] = "crashed")
           /\ UseId(a, b, place) => (stale' <=> stale \/ ~Live(b))
           /\ \A n, things : UseState(a, n, things, place) =>
                 hpc'[a] = place \/ (~(things \subseteq held[n]) /\ hpc'[a] = "crashed")
           /\ Goto(a, place) => hpc'[a] = place
           /\ \A c, verdict, next : Signal(a, c, verdict, next) =>
                 id'[a] = c /\ outcome'[a] = verdict /\ resume'[a] = next
BY DEF TypeOK, UseId, UseState, Goto, Signal

(* A step of a handler thread moves that thread only.                       *)
LEMMA StepOfThread ==
    ASSUME TypeOK, NEW a \in Attempts, Handler(a)
    PROVE  /\ \A c \in Attempts \ {a} :
                 /\ hpc'[c] = hpc[c] /\ id'[c] = id[c] /\ agent_ns'[c] = agent_ns[c]
                 /\ outcome'[c] = outcome[c] /\ resume'[c] = resume[c]
                 /\ acquired'[c] = "none" <=> acquired[c] = "none"
           /\ g_connman_state' = g_connman_state \/ g_connman_state' = a
           /\ closed_by \subseteq closed_by' /\ closed_by' \subseteq closed_by \cup {a}
           /\ failed \subseteq failed'
           /\ callVars' = callVars
<1> USE DEF TypeOK
<1>0. id[a] \in Attempts
  OBVIOUS
<1>1. ASSUME NEW b \in Attempts, NEW place, UseId(a, b, place)
      PROVE  hpc' = [hpc EXCEPT ![a] = hpc'[a]]
  BY <1>1 DEF UseId, Goto
<1>2. ASSUME NEW n, NEW things, NEW place, UseState(a, n, things, place)
      PROVE  hpc' = [hpc EXCEPT ![a] = hpc'[a]]
  BY <1>2 DEF UseState, Goto
<1>3. hpc' = [hpc EXCEPT ![a] = hpc'[a]]
  <2>1. CASE \/ \E r \in DOMAIN Acquisitions \ Prepared : Acquire(a, r)
             \/ \E label \in Labels \ PreparedLabels : Unwind(a, label)
             \/ Fail(a) \/ Publish(a) \/ RunLoop(a)
    BY <2>1 DEF Acquire, Unwind, Fail, Publish, RunLoop, Goto
  <2>2. CASE SetNs(a) \/ ChooseAgent(a)
    BY <1>1, <2>2 DEF SetNs, ChooseAgent
  <2>3. CASE RereadNs(a)
    <3>1. \E place : UseId(a, a, place)
      BY <2>3 DEF RereadNs
    <3> QED BY <1>1, <3>1
  <2>4. CASE \/ \E r \in Prepared : Prepare(a, r)
             \/ \E label \in PreparedLabels : Unprepare(a, label)
             \/ ExportAgent(a) \/ RegisterAgent(a)
    <3>1. \E n, things, place : UseState(a, n, things, place)
      BY <2>4 DEF Prepare, Unprepare, ExportAgent, RegisterAgent
    <3> QED BY <1>2, <3>1
  <2>5. CASE SignalInitDone(a)
    <3>1. \E place : UseId(a, id[a], place)
      BY <2>5 DEF SignalInitDone, SignalLock, SignalSetDone, SignalSetRc, SignalCond, SignalUnlock
    <3> QED BY <1>0, <1>1, <3>1
  <2>6. CASE \E b \in Attempts : BusAcquired(a, b)
    <3>1. \E b \in Attempts : \E place : UseId(a, b, place)
      BY <2>6 DEF BusAcquired
    <3> QED BY <1>1, <3>1
  <2> QED BY <2>1, <2>2, <2>3, <2>4, <2>5, <2>6 DEF Handler, OnBusAcquired
<1>4. /\ id' = [id EXCEPT ![a] = id'[a]] /\ agent_ns' = [agent_ns EXCEPT ![a] = agent_ns'[a]]
      /\ outcome' = [outcome EXCEPT ![a] = outcome'[a]]
      /\ resume' = [resume EXCEPT ![a] = resume'[a]]
  <2>1. CASE ChooseAgent(a)
    BY <2>1 DEF ChooseAgent, Signal
  <2>2. CASE Fail(a) \/ SignalUnlock(a)
    BY <2>2 DEF Fail, SignalUnlock, Signal
  <2>3. CASE RereadNs(a)
    BY <2>3 DEF RereadNs
  <2>4. CASE \E b \in Attempts : BusAcquired(a, b)
    BY <2>4 DEF BusAcquired
  <2>5. CASE ExportAgent(a)
    BY <2>5 DEF ExportAgent, Signal, reportVars
  <2>6. CASE RegisterAgent(a)
    BY <2>6 DEF RegisterAgent, Signal
  <2>7. CASE \/ \E r \in DOMAIN Acquisitions \ Prepared : Acquire(a, r)
             \/ \E r \in Prepared : Prepare(a, r)
             \/ \E label \in PreparedLabels : Unprepare(a, label)
             \/ \E label \in Labels \ PreparedLabels : Unwind(a, label)
             \/ SetNs(a) \/ SignalLock(a) \/ SignalSetDone(a) \/ SignalSetRc(a) \/ SignalCond(a)
             \/ Publish(a) \/ RunLoop(a)
    <3>1. UNCHANGED reportVars
      BY <2>7 DEF Acquire, Prepare, Unprepare, Unwind, SetNs, SignalLock, SignalSetDone,
                  SignalSetRc, SignalCond, Publish, RunLoop
    <3> QED BY <3>1 DEF reportVars
  <2> QED
    BY <2>1, <2>2, <2>3, <2>4, <2>5, <2>6, <2>7 DEF Handler, SignalInitDone, OnBusAcquired
<1>5. \A c \in Attempts \ {a} : acquired'[c] = "none" <=> acquired[c] = "none"
  <2>1. CASE \E r \in Prepared : Prepare(a, r)
    BY <2>1 DEF Prepare
  <2>2. CASE \E b \in Attempts : BusAcquired(a, b)
    BY <2>2 DEF BusAcquired
  <2>3. CASE ~(\E r \in Prepared : Prepare(a, r)) /\ ~(\E b \in Attempts : BusAcquired(a, b))
    <3>1. acquired' = acquired
      BY <2>3 DEF Handler, SignalInitDone, OnBusAcquired, Acquire, Unprepare, Unwind, SetNs,
                  ChooseAgent, RereadNs, Fail, SignalLock, SignalSetDone, SignalSetRc,
                  SignalCond, SignalUnlock, Publish, RunLoop, ExportAgent, RegisterAgent, libVars
    <3> QED BY <3>1
  <2> QED BY <2>1, <2>2, <2>3
<1>6. /\ g_connman_state' = g_connman_state \/ g_connman_state' = a
      /\ closed_by \subseteq closed_by' /\ closed_by' \subseteq closed_by \cup {a}
      /\ failed \subseteq failed'
      /\ callVars' = callVars
  BY DEF Handler, SignalInitDone, OnBusAcquired, Acquire, Prepare, Unprepare, Unwind, SetNs,
         ChooseAgent, RereadNs, Fail, SignalLock, SignalSetDone, SignalSetRc, SignalCond,
         SignalUnlock, Publish, RunLoop, BusAcquired, ExportAgent, RegisterAgent, libVars
<1> QED BY <1>3, <1>4, <1>5, <1>6

(* Only its own thread changes what an attempt holds of its own, and only   *)
(* by the steps of the set-up and of its labels.                            *)
LEMMA OwnKept ==
    ASSUME TypeOK, HoldInv, NEW a \in Attempts, Handler(a), NEW c \in Attempts,
           \/ c # a
           \/ /\ ~ \E r \in DOMAIN Acquisitions \ Prepared : Acquire(a, r)
              /\ ~ \E label \in Labels \ PreparedLabels : Unwind(a, label)
    PROVE  Own(c)' = Own(c)
<1> USE DEF TypeOK, Own
<1>1. CASE \E r \in DOMAIN Acquisitions \ Prepared : Acquire(a, r)
  BY <1>1 DEF Acquire
<1>2. CASE \E label \in Labels \ PreparedLabels : Unwind(a, label)
  BY <1>2 DEF Unwind
<1>3. ASSUME NEW n \in Attempts, NEW things, things \cap Connected = held[n] \cap Connected,
             held' = [held EXCEPT ![n] = things]
      PROVE  Own(c)' = Own(c)
  BY <1>3
<1>4. ASSUME NEW r \in Prepared, Prepare(a, r) PROVE Own(c)' = Own(c)
  <2>1. agent_ns[a] \in Attempts
    BY <1>4, PrepareFacts, AgentStateExists DEF Prepare, At
  <2>2. (held[agent_ns[a]] \cup {r}) \cap Connected = held[agent_ns[a]] \cap Connected
    BY PrepareFacts
  <2>3. held' = held \/ held' = [held EXCEPT ![agent_ns[a]] = held[agent_ns[a]] \cup {r}]
    BY <1>4 DEF Prepare
  <2> QED BY <1>3, <2>1, <2>2, <2>3
<1>5. ASSUME NEW label \in PreparedLabels, Unprepare(a, label) PROVE Own(c)' = Own(c)
  <2>1. agent_ns[a] \in Attempts
    BY <1>5, UnprepareFacts, AgentStateExists DEF Unprepare, At
  <2>2. Releases[label] \notin Connected
    BY UnprepareFacts, PlaceFacts
  <2>3. (held[agent_ns[a]] \ {Releases[label]}) \cap Connected = held[agent_ns[a]] \cap Connected
    BY <2>2
  <2>4. held' = [held EXCEPT ![agent_ns[a]] = held[agent_ns[a]] \ {Releases[label]}]
    BY <1>5 DEF Unprepare
  <2> QED BY <1>3, <2>1, <2>3, <2>4
<1>6. CASE ExportAgent(a)
  <2>1. agent_ns[a] \in Attempts
    BY <1>6, AgentStateExists DEF ExportAgent, At, AgentPlaces
  <2>2. (held[agent_ns[a]] \cup {"agent_object"}) \cap Connected = held[agent_ns[a]] \cap Connected
    BY PlaceFacts
  <2>3. \/ held' = held
        \/ held' = [held EXCEPT ![agent_ns[a]] = held[agent_ns[a]] \cup {"agent_object"}]
    BY <1>6 DEF ExportAgent
  <2> QED BY <1>3, <2>1, <2>2, <2>3
<1>7. CASE RegisterAgent(a)
  <2>1. agent_ns[a] \in Attempts
    BY <1>7, AgentStateExists DEF RegisterAgent, At, AgentPlaces
  <2>2. PICK accepted \in BOOLEAN :
             held' = [held EXCEPT ![agent_ns[a]] = AfterReply(accepted, held[agent_ns[a]])]
    BY <1>7 DEF RegisterAgent
  <2>3. AfterReply(accepted, held[agent_ns[a]]) \cap Connected = held[agent_ns[a]] \cap Connected
    BY PlaceFacts DEF AfterReply
  <2> QED BY <1>3, <2>1, <2>2, <2>3
<1>8. CASE \/ SetNs(a) \/ ChooseAgent(a) \/ RereadNs(a) \/ Fail(a) \/ SignalInitDone(a)
           \/ Publish(a) \/ RunLoop(a) \/ \E b \in Attempts : BusAcquired(a, b)
  <2>1. held' = held
    BY <1>8 DEF SetNs, ChooseAgent, RereadNs, Fail, SignalInitDone, SignalLock, SignalSetDone,
                SignalSetRc, SignalCond, SignalUnlock, Publish, RunLoop, BusAcquired, libVars
  <2> QED BY <2>1
<1> QED
  BY <1>1, <1>2, <1>4, <1>5, <1>6, <1>7, <1>8 DEF Handler, OnBusAcquired

(* A thread that stays on its course, is lost, or goes on in the main loop. *)
LEMMA HoldsKept ==
    ASSUME NEW c \in Attempts, Holds(c),
           \/ Course(c)' = Course(c)
           \/ Course(c)' \in {"hung", "crashed"}
           \/ Course(c) \in RunPlaces /\ Course(c)' \in RunPlaces /\ g_connman_state' # 0,
           (hpc[c])' \in ReportPlaces => (resume[c])' # "none",
           (hpc[c])' \in AgentSetup \cup AgentPlaces => (agent_ns[c])' # 0,
           Own(c)' = Own(c),
           (acquired[c])' = "none" <=> acquired[c] = "none",
           g_connman_state # 0 => g_connman_state' # 0
    PROVE  Holds(c)'
<1>1. CASE Course(c)' = Course(c)
  BY <1>1 DEF Holds
<1>2. CASE Course(c)' \in {"hung", "crashed"}
  BY <1>2, NowhereElse DEF Holds
<1>3. CASE Course(c) \in RunPlaces /\ Course(c)' \in RunPlaces /\ g_connman_state' # 0
  BY <1>3, NowhereElse DEF Holds
<1> QED BY <1>1, <1>2, <1>3

(* At the places of the set-up.                                             *)
LEMMA AtSetup ==
    ASSUME NEW c \in Attempts, Holds(c), hpc[c] \in SetupPlaces
    PROVE  Own(c) = HeldAt[hpc[c]] /\ acquired[c] = "none" /\ Course(c) = hpc[c]
BY NowhereElse DEF Holds, Course

LEMMA SetupHolds ==
    ASSUME NEW c \in Attempts, (hpc[c])' \in SetupPlaces,
           Own(c)' = HeldAt[(hpc[c])'], (acquired[c])' = "none",
           (hpc[c])' \in AgentSetup => (agent_ns[c])' # 0
    PROVE  Holds(c)'
<1>1. Course(c)' = (hpc[c])'
  BY NowhereElse DEF Course
<1> QED BY <1>1, NowhereElse DEF Holds

LEMMA LostHolds ==
    ASSUME NEW c \in Attempts, (hpc[c])' \in {"hung", "crashed"}
    PROVE  Holds(c)'
<1>1. /\ (hpc[c])' \notin ReportPlaces \cup AgentPlaces \cup AgentSetup
      /\ (hpc[c])' \notin RunPlaces /\ (hpc[c])' \notin DOMAIN HeldAt
  BY NowhereElse DEF ReportPlaces
<1>2. Course(c)' = (hpc[c])'
  BY <1>1 DEF Course
<1> QED BY <1>1, <1>2 DEF Holds

LEMMA HoldKept ==
    ASSUME TypeOK, HoldInv, ThreadsInv, Next
    PROVE  HoldInv'
<1> SUFFICES ASSUME NEW c \in Attempts PROVE Holds(c)'
  BY DEF HoldInv
<1>0. Holds(c)
  BY DEF HoldInv
<1>1. ASSUME UNCHANGED <<hpc, resume, agent_ns, held, acquired, g_connman_state>>
      PROVE  Holds(c)'
  BY <1>0, <1>1 DEF Holds, Course, Own
<1>2. CASE CallInit
  <2>1. UNCHANGED <<resume, agent_ns, held, acquired, g_connman_state>>
    BY <1>2 DEF CallInit, reportVars, libVars
  <2>2. CASE c # attempt'
    <3>1. hpc'[c] = hpc[c]
      BY <1>2, <2>2 DEF CallInit, TypeOK
    <3> QED BY <1>0, <2>1, <3>1 DEF Holds, Course, Own
  <2>3. CASE c = attempt'
    <3>1. hpc'[c] = "main_loop" /\ hpc[c] = "none"
      BY <1>2, <2>3, IHAssumption DEF CallInit, TypeOK, ThreadsInv, Attempts
    <3>2. HeldAt["none"] = HeldAt["main_loop"]
      BY DEF HeldAt
    <3>3. "main_loop" \in SetupPlaces /\ "main_loop" \notin AgentSetup /\ "none" \in DOMAIN HeldAt
      BY PlaceFacts DEF AgentSetup, PreparedLabels
    <3>4. Own(c) = HeldAt["none"] /\ acquired[c] = "none"
      BY <1>0, <3>1, <3>3 DEF Holds, Course, ReportPlaces
    <3> QED
      BY <2>1, <3>1, <3>2, <3>3, <3>4, SetupHolds DEF Own
  <2> QED BY <2>2, <2>3
<1>3. CASE ConnmanInit \/ WakeSpuriously \/ TenSecondsPass
  BY <1>1, <1>3 DEF ConnmanInit, WakeSpuriously, LockId, TestDone, WaitTimesOut, UnlockId,
              CheckDone, ReadRc, Caller, TenSecondsPass, reportVars, libVars
<1>4. ASSUME NEW a \in Attempts, Handler(a)
      PROVE  Holds(c)'
  <2> USE DEF At
  <2>0. g_connman_state # 0 => g_connman_state' # 0
    BY <1>4, StepOfThread, IHAssumption DEF Attempts
  <2>1. CASE c # a
    <3>1. /\ hpc'[c] = hpc[c] /\ resume'[c] = resume[c] /\ agent_ns'[c] = agent_ns[c]
          /\ acquired'[c] = "none" <=> acquired[c] = "none"
      BY <1>4, <2>1, StepOfThread
    <3>2. Course(c)' = Course(c)
      BY <3>1 DEF Course
    <3>3. Own(c)' = Own(c)
      BY <1>4, <2>1, OwnKept
    <3> QED
      BY <1>0, <2>0, <3>1, <3>2, <3>3, HoldsKept DEF Holds
  <2> SUFFICES ASSUME c = a PROVE Holds(a)'
    BY <2>1
  <2>2. Holds(a) /\ (hpc[a] \in SetupPlaces =>
                        Own(a) = HeldAt[hpc[a]] /\ acquired[a] = "none" /\ Course(a) = hpc[a])
    BY <1>0, AtSetup
  <2>3. ASSUME NEW r \in DOMAIN Acquisitions \ Prepared, Acquire(a, r) PROVE Holds(a)'
    <3>1. hpc[a] = r /\ r \in SetupPlaces /\ r \in Connected /\ acquired' = acquired
      BY <2>3, AcquireFacts DEF Acquire
    <3>2. CASE Goto(a, Acquisitions[r]) /\ held' = [held EXCEPT ![a] = @ \cup {r}]
      <4>1. hpc'[a] = Acquisitions[r] /\ held'[a] = held[a] \cup {r}
        BY <3>2 DEF Goto, TypeOK
      <4>2. Own(a)' = HeldAt[r] \cup {r}
        BY <2>2, <3>1, <4>1 DEF Own
      <4>3. hpc'[a] \in SetupPlaces /\ hpc'[a] \notin AgentSetup
        BY <4>1, AcquireFacts, PlaceFacts DEF AgentSetup, PreparedLabels
      <4> QED
        BY <2>2, <3>1, <4>1, <4>2, <4>3, AcquireFacts, SetupHolds
    <3>3. CASE Goto(a, FailsTo(r)) /\ UNCHANGED held
      <4>1. hpc'[a] = FailsTo(r) /\ Own(a)' = HeldAt[r]
        BY <2>2, <3>1, <3>3, AfterUse DEF Own
      <4>2. hpc'[a] \in SetupPlaces /\ hpc'[a] \notin AgentSetup
        BY <4>1, AcquireFacts, PlaceFacts DEF AgentSetup, PreparedLabels
      <4> QED
        BY <2>2, <3>1, <4>1, <4>2, AcquireFacts, SetupHolds
    <3> QED BY <2>3, <3>2, <3>3 DEF Acquire
  <2>4. ASSUME NEW label \in Labels \ PreparedLabels, Unwind(a, label) PROVE Holds(a)'
    <3>1. hpc[a] = label /\ label \in SetupPlaces /\ acquired' = acquired
      BY <2>4, UnwindFacts DEF Unwind
    <3>2. hpc'[a] = FallsTo[label] /\ held'[a] = held[a] \ {Releases[label]}
      BY <2>4, AfterUse DEF Unwind, TypeOK
    <3>3. Own(a)' = HeldAt[label] \ {Releases[label]}
      BY <2>2, <3>1, <3>2 DEF Own
    <3>4. hpc'[a] \in SetupPlaces /\ hpc'[a] \notin AgentSetup
      BY <3>2, UnwindFacts, PlaceFacts DEF AgentSetup, PreparedLabels
    <3> QED
      BY <2>2, <3>1, <3>2, <3>3, <3>4, UnwindFacts, SetupHolds
  <2>5. SUFFICES ASSUME Own(a)' = Own(a) PROVE Holds(a)'
    BY <1>4, <2>3, <2>4, OwnKept
  <2>6. CASE SetNs(a)
    <3>1. /\ hpc[a] = "set_ns" /\ hpc'[a] \in {"choose", "crashed"}
          /\ UNCHANGED <<acquired, resume, g_connman_state>>
      BY <2>6, AfterUse DEF SetNs, libVars, reportVars
    <3>2. CASE hpc'[a] = "choose"
      <4>1. /\ {"set_ns", "choose"} \subseteq SetupPlaces /\ "choose" \notin AgentSetup
            /\ HeldAt["set_ns"] = Connected /\ HeldAt["choose"] = Connected
        BY PlaceFacts DEF AgentSetup, PreparedLabels, HeldAt
      <4> QED BY <2>2, <2>5, <3>1, <3>2, <4>1, SetupHolds
    <3>3. CASE hpc'[a] = "crashed"
      BY <3>3, LostHolds
    <3> QED BY <3>1, <3>2, <3>3
  <2>7. CASE ChooseAgent(a)
    <3>1. /\ hpc[a] = "choose" /\ UNCHANGED <<acquired, g_connman_state>>
          /\ \/ hpc'[a] \in {"reread_ns", "crashed"}
             \/ hpc'[a] = "lock_id" /\ resume'[a] = "publish"
      BY <2>7, AfterUse DEF ChooseAgent, AfterSignal, libVars
    <3>2. /\ {"reread_ns", "choose"} \subseteq SetupPlaces /\ "reread_ns" \notin AgentSetup
          /\ HeldAt["reread_ns"] = Connected /\ HeldAt["choose"] = Connected
      BY PlaceFacts DEF AgentSetup, PreparedLabels, HeldAt
    <3>3. CASE hpc'[a] = "reread_ns"
      BY <2>2, <2>5, <3>1, <3>2, <3>3, SetupHolds
    <3>4. CASE hpc'[a] = "crashed"
      BY <3>4, LostHolds
    <3>5. CASE hpc'[a] = "lock_id" /\ resume'[a] = "publish"
      <4>1. /\ Course(a)' = "publish" /\ "publish" \in RunPlaces
            /\ "lock_id" \notin AgentSetup \cup AgentPlaces
        BY <3>5, PlaceFacts
        DEF Course, ReportPlaces, RunPlaces, AgentSetup, PreparedLabels, AgentPlaces
      <4> QED BY <2>2, <2>5, <3>1, <3>2, <3>5, <4>1, NowhereElse DEF Holds
    <3> QED BY <3>1, <3>3, <3>4, <3>5
  <2>8. CASE RereadNs(a)
    <3>1. /\ hpc[a] = "reread_ns" /\ UNCHANGED <<acquired, g_connman_state, resume>>
          /\ \/ hpc'[a] = "agent_path" /\ agent_ns'[a] # 0
             \/ hpc'[a] = "crashed"
      BY <2>8, AfterUse DEF RereadNs, libVars, TypeOK
    <3>2. CASE hpc'[a] = "agent_path" /\ agent_ns'[a] # 0
      <4>1. /\ {"reread_ns", "agent_path"} \subseteq SetupPlaces
            /\ HeldAt["reread_ns"] = Connected /\ HeldAt["agent_path"] = Connected
        BY PlaceFacts DEF HeldAt
      <4> QED BY <2>2, <2>5, <3>1, <3>2, <4>1, SetupHolds
    <3>3. CASE hpc'[a] = "crashed"
      BY <3>3, LostHolds
    <3> QED BY <3>1, <3>2, <3>3
  <2>9. ASSUME NEW r \in Prepared, Prepare(a, r) PROVE Holds(a)'
    <3>1. /\ hpc[a] = r /\ r \in SetupPlaces /\ r \in AgentSetup
          /\ UNCHANGED <<agent_ns, g_connman_state, resume>>
      BY <2>9, PrepareFacts DEF Prepare, reportVars
    <3>2. Own(a) = Connected /\ acquired[a] = "none" /\ agent_ns[a] # 0
      BY <2>2, <3>1, PrepareFacts DEF Holds
    <3>3. \/ hpc'[a] = Acquisitions[r] /\ (r # "bus_name" => acquired' = acquired)
          \/ hpc'[a] = FailsTo(r) /\ acquired' = acquired
          \/ hpc'[a] = "crashed" /\ (acquired' = acquired \/ r = "bus_name")
      BY <2>9, AfterUse DEF Prepare
    <3>4. CASE hpc'[a] = "publish"
      <4>1. Course(a)' = "publish" /\ "publish" \in RunPlaces
        BY <3>4 DEF Course, ReportPlaces, RunPlaces
      <4> QED BY <2>5, <3>1, <3>2, <3>4, <4>1, NowhereElse DEF Holds
    <3>5. CASE /\ hpc'[a] \in {Acquisitions[r], FailsTo(r)} /\ hpc'[a] # "publish"
               /\ acquired' = acquired
      <4>1. hpc'[a] \in SetupPlaces /\ HeldAt[hpc'[a]] = Connected
        BY <3>5, PrepareFacts, PlaceFacts
      <4> QED BY <2>5, <3>1, <3>2, <3>5, <4>1, SetupHolds
    <3>6. CASE hpc'[a] = "crashed"
      BY <3>6, LostHolds
    <3> QED BY <3>3, <3>4, <3>5, <3>6, PrepareFacts, PlaceFacts
  <2>10. ASSUME NEW label \in PreparedLabels, Unprepare(a, label) PROVE Holds(a)'
    <3>1. /\ hpc[a] = label /\ label \in SetupPlaces /\ label \in AgentSetup
          /\ UNCHANGED <<acquired, agent_ns, g_connman_state, resume>>
      BY <2>10, UnprepareFacts DEF Unprepare, reportVars
    <3>2. Own(a) = Connected /\ acquired[a] = "none" /\ agent_ns[a] # 0
      BY <2>2, <3>1, UnprepareFacts DEF Holds
    <3>3. hpc'[a] \in {FallsTo[label], "crashed"}
      BY <2>10, AfterUse DEF Unprepare
    <3>4. CASE hpc'[a] = FallsTo[label]
      BY <2>5, <3>1, <3>2, <3>4, UnprepareFacts, PlaceFacts, SetupHolds DEF PreparedLabels
    <3>5. CASE hpc'[a] = "crashed"
      BY <3>5, LostHolds
    <3> QED BY <3>3, <3>4, <3>5
  <2>11. CASE Fail(a)
    <3>1. /\ hpc[a] = "err_no_loop" /\ hpc'[a] = "lock_id" /\ resume'[a] = "exited"
          /\ UNCHANGED <<acquired, g_connman_state>>
      BY <2>11, AfterUse DEF Fail, libVars
    <3>2. Own(a) = {} /\ acquired[a] = "none"
      BY <2>2, <3>1, PlaceFacts DEF HeldAt
    <3>3. /\ HeldAt["exited"] = {} /\ "exited" \in DOMAIN HeldAt
          /\ Course(a)' = "exited" /\ "exited" \notin RunPlaces
          /\ "lock_id" \notin AgentSetup \cup AgentPlaces
      BY <3>1, PlaceFacts
      DEF HeldAt, Course, ReportPlaces, RunPlaces, AgentPlaces, AgentSetup, PreparedLabels
    <3> QED
      BY <2>5, <3>1, <3>2, <3>3 DEF Holds
  <2>12. CASE SignalLock(a) \/ SignalSetDone(a) \/ SignalSetRc(a) \/ SignalCond(a)
    <3>1. /\ UNCHANGED <<acquired, resume, g_connman_state>>
          /\ hpc[a] \in ReportPlaces /\ hpc'[a] \in ReportPlaces \cup {"hung", "crashed"}
      BY <2>12, AfterUse DEF SignalLock, SignalSetDone, SignalSetRc, SignalCond, libVars,
               reportVars, ReportPlaces
    <3>2. Course(a)' = Course(a) \/ Course(a)' \in {"hung", "crashed"}
      BY <3>1, NowhereElse DEF Course
    <3> QED
      BY <2>2, <2>5, <3>1, <3>2, NowhereElse, HoldsKept DEF Holds
  <2>13. CASE SignalUnlock(a)
    <3>1. /\ hpc[a] = "unlock_id" /\ hpc'[a] \in {resume[a], "crashed"}
          /\ UNCHANGED <<acquired, g_connman_state>>
      BY <2>13, AfterUse DEF SignalUnlock, libVars
    <3>2. resume[a] \in {"exited", "publish", "loop"}
      BY <2>2, <3>1 DEF Holds, ReportPlaces, TypeOK
    <3>3. /\ Course(a)' = Course(a) \/ Course(a)' \in {"hung", "crashed"}
          /\ hpc'[a] \notin ReportPlaces \cup AgentSetup \cup AgentPlaces
      BY <3>1, <3>2, PlaceFacts
      DEF Course, ReportPlaces, AgentSetup, PreparedLabels, AgentPlaces
    <3> QED
      BY <2>2, <2>5, <3>1, <3>3, HoldsKept
  <2>14. CASE Publish(a)
    <3>1. /\ hpc[a] = "publish" /\ hpc'[a] = "run_loop" /\ acquired' = acquired
          /\ g_connman_state' = a
      BY <2>14, AfterUse DEF Publish
    <3>2. g_connman_state' # 0
      BY <3>1, IHAssumption DEF Attempts
    <3>3. /\ Course(a) \in RunPlaces /\ Course(a)' \in RunPlaces
          /\ hpc'[a] \notin ReportPlaces \cup AgentSetup \cup AgentPlaces
      BY <3>1, PlaceFacts
      DEF Course, ReportPlaces, RunPlaces, AgentSetup, PreparedLabels, AgentPlaces
    <3> QED
      BY <2>2, <2>5, <3>1, <3>2, <3>3, HoldsKept
  <2>15. CASE RunLoop(a)
    <3>1. hpc[a] = "run_loop" /\ hpc'[a] = "loop" /\ UNCHANGED <<acquired, g_connman_state>>
      BY <2>15, AfterUse DEF RunLoop
    <3>2. /\ Course(a) \in RunPlaces \ {"publish"} /\ Course(a)' \in RunPlaces
          /\ hpc'[a] \notin ReportPlaces \cup AgentSetup \cup AgentPlaces
      BY <3>1, PlaceFacts
      DEF Course, ReportPlaces, RunPlaces, AgentSetup, PreparedLabels, AgentPlaces
    <3>3. g_connman_state # 0
      BY <2>2, <3>2 DEF Holds
    <3> QED
      BY <2>2, <2>5, <3>1, <3>2, <3>3, HoldsKept
  <2>16. ASSUME NEW b \in Attempts, BusAcquired(a, b) PROVE Holds(a)'
    <3>1. /\ UNCHANGED g_connman_state
          /\ acquired'[a] = "none" <=> acquired[a] = "none"
      BY <2>16 DEF BusAcquired, TypeOK
    <3>2. /\ hpc[a] = "loop" /\ hpc'[a] \in {"register_object", "crashed"}
          /\ hpc'[a] = "register_object" => agent_ns'[a] # 0
      BY <2>16, AfterUse DEF BusAcquired, TypeOK
    <3>3. /\ Course(a) \in RunPlaces \ {"publish"} /\ Course(a)' = hpc'[a]
          /\ "register_object" \in RunPlaces
          /\ hpc'[a] \notin ReportPlaces \cup AgentSetup
      BY <3>2, PlaceFacts
      DEF Course, ReportPlaces, RunPlaces, AgentSetup, PreparedLabels, AgentPlaces
    <3>4. g_connman_state # 0 /\ "crashed" \notin AgentPlaces
      BY <2>2, <3>3, NowhereElse DEF Holds
    <3> QED
      BY <2>2, <2>5, <3>1, <3>2, <3>3, <3>4, HoldsKept
  <2>17. CASE ExportAgent(a) \/ RegisterAgent(a)
    <3>1. /\ hpc[a] \in AgentPlaces /\ UNCHANGED <<acquired, g_connman_state>>
          /\ \/ hpc'[a] = "call_connman" /\ agent_ns'[a] = agent_ns[a]
             \/ hpc'[a] = "lock_id" /\ resume'[a] = "loop"
             \/ hpc'[a] = "crashed"
      BY <2>17, AfterUse DEF ExportAgent, RegisterAgent, reportVars, AgentPlaces
    <3>2. /\ Course(a) \in RunPlaces \ {"publish"}
          /\ Course(a)' \in RunPlaces \cup {"crashed"}
          /\ hpc'[a] \notin AgentSetup
          /\ hpc'[a] \in AgentPlaces => hpc'[a] = "call_connman"
          /\ hpc'[a] \in ReportPlaces => hpc'[a] = "lock_id"
      BY <3>1, PlaceFacts
      DEF Course, ReportPlaces, RunPlaces, AgentSetup, PreparedLabels, AgentPlaces
    <3>3. g_connman_state # 0 /\ agent_ns[a] # 0
      BY <2>2, <3>1, <3>2 DEF Holds
    <3>4. hpc'[a] \in AgentPlaces => agent_ns'[a] # 0
      BY <3>1, <3>2, <3>3
    <3>5. hpc'[a] \in ReportPlaces => resume'[a] # "none"
      BY <3>1, <3>2
    <3> QED
      BY <2>2, <2>5, <3>1, <3>2, <3>3, <3>4, <3>5, HoldsKept
  <2> QED
    BY <1>4, <2>3, <2>4, <2>6, <2>7, <2>8, <2>9, <2>10, <2>11, <2>12, <2>13, <2>14, <2>15,
       <2>16, <2>17 DEF Handler, SignalInitDone, OnBusAcquired
<1> QED
  BY <1>2, <1>3, <1>4 DEF Next

-------------------------------------------------------------------------------
(* The threads and the caller.                                              *)

(* Where a step takes a handler thread: through the set-up; into a report;  *)
(* through it and on; to the main loop; from there to a notification; and   *)
(* through the registration of the agent.                                   *)
SetsUp(a) ==
    /\ hpc[a] \in SetupPlaces /\ id'[a] = id[a]
    /\ hpc'[a] \in SetupPlaces \cup {"publish", "crashed"}
    /\ \/ acquired' = acquired
       \/ acquired' = [acquired EXCEPT ![a] = "due"] /\ hpc'[a] \notin SetupPlaces

BeginsReport(a) ==
    /\ hpc[a] \in SetupPlaces /\ id'[a] = a /\ acquired' = acquired
    /\ hpc'[a] \in {"lock_id", "crashed"}

ReportsOn(a) ==
    /\ hpc[a] \in ReportPlaces /\ acquired' = acquired
    /\ \/ hpc'[a] \in ReportPlaces \cup {"hung", "crashed"} /\ id'[a] = id[a]
       \/ /\ hpc[a] = "unlock_id" /\ hpc'[a] \in {"exited", "publish", "loop", "crashed"}
          /\ id'[a] = a

GoesToLoop(a) ==
    /\ hpc[a] \in {"publish", "run_loop"} /\ hpc'[a] \in {"run_loop", "loop"}
    /\ id'[a] = id[a] /\ acquired' = acquired

IsNotified(a, b) ==
    /\ hpc[a] = "loop" /\ hpc'[a] \in {"register_object", "crashed"} /\ id'[a] = b
    /\ acquired[b] = "due" /\ acquired' = [acquired EXCEPT ![b] = "done"]

Registers(a) ==
    /\ hpc[a] \in AgentPlaces /\ hpc'[a] \in {"call_connman", "lock_id", "crashed"}
    /\ id'[a] = id[a] /\ acquired' = acquired

LEMMA Moves ==
    ASSUME TypeOK, HoldInv, NEW a \in Attempts, Handler(a)
    PROVE  \/ SetsUp(a) \/ BeginsReport(a) \/ ReportsOn(a) \/ GoesToLoop(a) \/ Registers(a)
           \/ \E b \in Attempts : IsNotified(a, b)
<1> USE DEF At
<1>1. ASSUME NEW r \in DOMAIN Acquisitions \ Prepared, Acquire(a, r) PROVE SetsUp(a)
  <2>1. hpc'[a] \in {Acquisitions[r], FailsTo(r)}
    BY <1>1, AfterUse DEF Acquire
  <2>2. hpc'[a] \in SetupPlaces
    BY <2>1, AcquireFacts, PlaceFacts
  <2> QED BY <1>1, <2>2, AcquireFacts DEF SetsUp, Acquire, reportVars
<1>2. ASSUME NEW label \in Labels \ PreparedLabels, Unwind(a, label) PROVE SetsUp(a)
  <2>1. hpc'[a] \in SetupPlaces
    BY <1>2, AfterUse, UnwindFacts, PlaceFacts DEF Unwind
  <2> QED BY <1>2, <2>1, UnwindFacts DEF SetsUp, Unwind, reportVars
<1>3. CASE SetNs(a)
  <2>1. hpc'[a] \in {"choose", "crashed"}
    BY <1>3, AfterUse DEF SetNs
  <2> QED BY <1>3, <2>1, PlaceFacts DEF SetsUp, SetNs, reportVars, libVars
<1>4. CASE ChooseAgent(a)
  <2>1. \/ hpc'[a] \in {"reread_ns", "crashed"} /\ id' = id
        \/ hpc'[a] \in {"lock_id", "crashed"} /\ id'[a] = a
    BY <1>4, AfterUse DEF ChooseAgent
  <2> QED BY <1>4, <2>1, PlaceFacts DEF SetsUp, BeginsReport, ChooseAgent, libVars
<1>5. CASE RereadNs(a)
  <2>1. hpc'[a] \in {"agent_path", "crashed"}
    BY <1>5, AfterUse DEF RereadNs
  <2> QED BY <1>5, <2>1, PlaceFacts DEF SetsUp, RereadNs, libVars
<1>6. ASSUME NEW r \in Prepared, Prepare(a, r) PROVE SetsUp(a)
  <2>1. \/ /\ hpc'[a] \in {Acquisitions[r], "crashed"}
           /\ acquired' = IF r = "bus_name" THEN [acquired EXCEPT ![a] = "due"] ELSE acquired
        \/ hpc'[a] \in {FailsTo(r), "crashed"} /\ acquired' = acquired
    BY <1>6, AfterUse DEF Prepare
  <2>2. /\ hpc'[a] \in SetupPlaces \cup {"publish", "crashed"}
        /\ acquired' # acquired => hpc'[a] \in {"publish", "crashed"}
    BY <2>1, PrepareFacts, PlaceFacts
  <2>3. {"publish", "crashed"} \cap SetupPlaces = {}
    BY NowhereElse DEF RunPlaces
  <2> QED BY <1>6, <2>1, <2>2, <2>3, PrepareFacts DEF SetsUp, Prepare, reportVars
<1>7. ASSUME NEW label \in PreparedLabels, Unprepare(a, label) PROVE SetsUp(a)
  <2>1. hpc'[a] \in {FallsTo[label], "crashed"}
    BY <1>7, AfterUse DEF Unprepare
  <2>2. FallsTo[label] \in SetupPlaces
    BY UnprepareFacts, PlaceFacts DEF PreparedLabels
  <2> QED BY <1>7, <2>1, <2>2, UnprepareFacts DEF SetsUp, Unprepare, reportVars
<1>8. CASE Fail(a)
  <2>1. hpc'[a] = "lock_id" /\ id'[a] = a
    BY <1>8, AfterUse DEF Fail
  <2> QED BY <1>8, <2>1, PlaceFacts DEF BeginsReport, Fail, libVars
<1>9. CASE SignalLock(a) \/ SignalSetDone(a) \/ SignalSetRc(a) \/ SignalCond(a)
  <2>1. hpc[a] \in ReportPlaces /\ hpc'[a] \in ReportPlaces \cup {"hung", "crashed"}
    BY <1>9, AfterUse DEF SignalLock, SignalSetDone, SignalSetRc, SignalCond, ReportPlaces
  <2>2. UNCHANGED <<reportVars, acquired>>
    BY <1>9 DEF SignalLock, SignalSetDone, SignalSetRc, SignalCond, libVars
  <2> QED BY <2>1, <2>2 DEF ReportsOn, reportVars
<1>10. CASE SignalUnlock(a)
  <2>1. hpc[a] = "unlock_id" /\ hpc'[a] \in {resume[a], "crashed"} /\ id'[a] = a
    BY <1>10, AfterUse DEF SignalUnlock
  <2>2. resume[a] \in {"exited", "publish", "loop"}
    BY <2>1 DEF HoldInv, Holds, ReportPlaces, TypeOK
  <2> QED BY <1>10, <2>1, <2>2 DEF ReportsOn, ReportPlaces, SignalUnlock, libVars
<1>11. CASE Publish(a) \/ RunLoop(a)
  <2>1. hpc[a] \in {"publish", "run_loop"} /\ hpc'[a] \in {"run_loop", "loop"}
    BY <1>11, AfterUse DEF Publish, RunLoop
  <2> QED BY <1>11, <2>1 DEF GoesToLoop, Publish, RunLoop, reportVars
<1>12. ASSUME NEW b \in Attempts, BusAcquired(a, b) PROVE IsNotified(a, b)
  <2>1. hpc'[a] \in {"register_object", "crashed"}
    BY <1>12, AfterUse DEF BusAcquired
  <2> QED BY <1>12, <2>1 DEF IsNotified, BusAcquired, TypeOK
<1>13. CASE ExportAgent(a) \/ RegisterAgent(a)
  <2>1. hpc'[a] \in {"call_connman", "lock_id", "crashed"} /\ id'[a] = id[a]
    BY <1>13, AfterUse DEF ExportAgent, RegisterAgent, reportVars
  <2> QED BY <1>13, <2>1 DEF Registers, ExportAgent, RegisterAgent, AgentPlaces
<1> QED
  BY <1>1, <1>2, <1>3, <1>4, <1>5, <1>6, <1>7, <1>8, <1>9, <1>10, <1>11, <1>12, <1>13
  DEF Handler, SignalInitDone, OnBusAcquired

(* What a handler thread does to the call: it may wake it up, and report.   *)
LEMMA CallAfterHandler ==
    ASSUME TypeOK, NEW a \in Attempts, Handler(a)
    PROVE  /\ caller' = caller \/ (caller = "wait" /\ caller' = "woken")
           /\ expired' = expired /\ result' = result /\ attempt' = attempt
           /\ init_done => init_done'
           /\ rc' # rc => InCall
<1> USE DEF waitVars, callVars, idVars, Hits
<1>1. CASE SignalSetRc(a)
  BY <1>1 DEF SignalSetRc
<1>2. CASE SignalCond(a)
  BY <1>2 DEF SignalCond, Signalled
<1>3. CASE SignalLock(a) \/ SignalSetDone(a) \/ SetNs(a) \/ SignalUnlock(a)
  <2>1. UNCHANGED waitVars /\ UNCHANGED callVars /\ rc' = rc
    BY <1>3 DEF SignalLock, SignalSetDone, SetNs, SignalUnlock
  <2>2. init_done => init_done'
    BY <1>3 DEF SignalLock, SignalSetDone, SetNs, SignalUnlock
  <2> QED BY <2>1, <2>2
<1>4. CASE \/ \E r \in DOMAIN Acquisitions \ Prepared : Acquire(a, r)
           \/ \E r \in Prepared : Prepare(a, r)
           \/ \E label \in PreparedLabels : Unprepare(a, label)
           \/ \E label \in Labels \ PreparedLabels : Unwind(a, label)
           \/ ChooseAgent(a) \/ RereadNs(a) \/ Fail(a) \/ Publish(a) \/ RunLoop(a)
           \/ OnBusAcquired(a)
  <2>1. UNCHANGED waitVars /\ UNCHANGED callVars /\ UNCHANGED idVars
    BY <1>4 DEF Acquire, Prepare, Unprepare, Unwind, ChooseAgent, RereadNs, Fail, Publish,
                RunLoop, OnBusAcquired, BusAcquired, ExportAgent, RegisterAgent
  <2> QED BY <2>1
<1> QED BY <1>1, <1>2, <1>3, <1>4 DEF Handler, SignalInitDone

LEMMA CallerKept ==
    ASSUME TypeOK, ThreadsInv, CallerInv, Next
    PROVE  CallerInv'
<1> USE DEF CallerInv
<1>1. CASE CallInit
  BY <1>1 DEF CallInit
<1>2. CASE ConnmanInit \/ WakeSpuriously
  <2> USE DEF Caller, callVars
  <2>1. CASE LockId
    BY <2>1 DEF LockId, AfterLock, TypeOK
  <2>2. CASE TestDone
    BY <2>2 DEF TestDone, TypeOK
  <2>3. CASE WaitTimesOut \/ WakeSpuriously
    BY <2>3 DEF WaitTimesOut, WakeSpuriously, TypeOK
  <2>4. CASE UnlockId
    BY <2>4 DEF UnlockId, TypeOK
  <2>5. CASE CheckDone
    BY <2>5 DEF CheckDone, Verdict, TypeOK
  <2>6. CASE ReadRc
    BY <2>6 DEF ReadRc, Verdict, TypeOK
  <2> QED BY <1>2, <2>1, <2>2, <2>3, <2>4, <2>5, <2>6 DEF ConnmanInit
<1>3. CASE TenSecondsPass
  BY <1>3 DEF TenSecondsPass, callVars, idVars
<1>4. ASSUME NEW a \in Attempts, Handler(a) PROVE CallerInv'
  <2>1. rc' # rc => result = "none"
    BY <1>4, CallAfterHandler DEF InCall, TypeOK
  <2> QED BY <1>4, <2>1, CallAfterHandler
<1> QED BY <1>1, <1>2, <1>3, <1>4 DEF Next

LEMMA NumbersAre ==
    ASSUME TypeOK
    PROVE  /\ attempt \in Nat /\ attempt <= MaxAttempts
           /\ \A c \in Attempts : c \in Nat /\ c # 0 /\ id[c] \in Attempts /\ id[c] \in Nat
           /\ attempt # 0 => attempt \in Attempts
<1>1. attempt \in Nat /\ attempt <= MaxAttempts /\ (attempt # 0 => attempt \in Attempts)
  BY IHAssumption DEF TypeOK, Attempts
<1>2. \A c \in Attempts : c \in Nat /\ c # 0
  BY IHAssumption DEF Attempts
<1>3. \A c \in Attempts : id[c] \in Attempts
  BY DEF TypeOK
<1> QED BY <1>1, <1>2, <1>3

LEMMA ThreadsKept ==
    ASSUME TypeOK, HoldInv, ThreadsInv, Next
    PROVE  ThreadsInv'
<1>1. CASE CallInit
  <2>1. /\ attempt \in Nat /\ attempt' = attempt + 1 /\ caller' = "lock"
        /\ id' = id /\ acquired' = acquired
        /\ \A c \in Attempts : hpc'[c] = IF c = attempt' THEN "main_loop" ELSE hpc[c]
    BY <1>1, IHAssumption DEF CallInit, TypeOK, reportVars, libVars
  <2>2. /\ attempt' # 0 /\ caller' # "start"
    BY <2>1
  <2>3. ASSUME NEW c \in Attempts, c > attempt'
        PROVE  hpc'[c] = "none" /\ id'[c] = c /\ acquired'[c] = "none"
    <3>1. c \in Nat /\ c > attempt /\ c # attempt'
      BY <2>1, <2>3, IHAssumption DEF Attempts
    <3> QED BY <2>1, <3>1 DEF ThreadsInv
  <2>4. ASSUME NEW c \in Attempts, c <= attempt'
        PROVE  hpc'[c] # "none" /\ id'[c] <= attempt'
    <3>1. c \in Nat /\ id[c] \in Nat /\ (c = attempt' \/ c <= attempt)
      BY <2>1, <2>4, NumbersAre
    <3>2. CASE c = attempt'
      BY <2>1, <3>1, <3>2 DEF ThreadsInv
    <3>3. CASE c <= attempt
      BY <2>1, <3>1, <3>3 DEF ThreadsInv
    <3> QED BY <3>1, <3>2, <3>3
  <2> QED BY <2>2, <2>3, <2>4 DEF ThreadsInv
<1>2. CASE ConnmanInit \/ WakeSpuriously \/ TenSecondsPass
  <2>1. UNCHANGED <<attempt, hpc, id, acquired>>
    BY <1>2 DEF ConnmanInit, WakeSpuriously, LockId, TestDone, WaitTimesOut, UnlockId, CheckDone,
                ReadRc, Caller, TenSecondsPass, callVars, reportVars, libVars
  <2>2. caller # "start" /\ caller' # "start"
    <3>1. ASSUME NEW place \in DOMAIN AfterLock, Caller(place, AfterLock[place])
          PROVE  caller # "start" /\ caller' # "start"
      BY <3>1 DEF Caller, AfterLock
    <3> QED
     BY <1>2, <3>1 DEF ConnmanInit, WakeSpuriously, LockId, TestDone, WaitTimesOut, UnlockId, CheckDone,
                ReadRc, Caller, TenSecondsPass, InCall
  <2> QED BY <2>1, <2>2 DEF ThreadsInv
<1>3. ASSUME NEW a \in Attempts, Handler(a) PROVE ThreadsInv'
  <2>1. attempt' = attempt /\ (caller' = "start" <=> caller = "start")
    BY <1>3, CallAfterHandler
  <2>2. /\ a \in Nat /\ attempt \in Nat /\ id[a] \in Nat
        /\ \A c \in Attempts : c \in Nat /\ (acquired[c] = "none" \/ c <= attempt)
    BY NumbersAre DEF ThreadsInv
  <2>3. "none" \notin SetupPlaces \cup ReportPlaces \cup RunPlaces \cup AgentPlaces
    BY PlaceFacts DEF ReportPlaces, RunPlaces, AgentPlaces, PreparedLabels
  <2>4. /\ hpc[a] # "none" /\ hpc'[a] # "none"
        /\ id'[a] \in {a, id[a]} \/ \E d \in Attempts : id'[a] = d /\ acquired[d] = "due"
        /\ \A c \in Attempts \ {a} : acquired'[c] = "none" <=> acquired[c] = "none"
    <3>1. /\ hpc[a] # "none" /\ hpc'[a] # "none"
          /\ id'[a] \in {a, id[a]} \/ \E d \in Attempts : id'[a] = d /\ acquired[d] = "due"
      BY <1>3, <2>3, Moves
      DEF SetsUp, BeginsReport, ReportsOn, GoesToLoop, Registers, IsNotified
    <3> QED BY <1>3, <3>1, StepOfThread
  <2>5. a <= attempt /\ id'[a] <= attempt
    <3>1. a <= attempt /\ id[a] <= attempt
      BY <2>2, <2>4 DEF ThreadsInv
    <3>2. CASE id'[a] \in {a, id[a]}
      BY <3>1, <3>2
    <3>3. ASSUME NEW d \in Attempts, id'[a] = d, acquired[d] = "due"
          PROVE  id'[a] <= attempt
      BY <2>2, <3>3
    <3> QED BY <2>4, <3>1, <3>2, <3>3
  <2>6. ASSUME NEW c \in Attempts, c # a
        PROVE  hpc'[c] = hpc[c] /\ id'[c] = id[c]
    BY <1>3, <2>6, StepOfThread
  <2>7. ASSUME NEW c \in Attempts, c > attempt PROVE acquired'[c] = "none"
    <3>1. c \in Nat /\ c # a /\ acquired[c] = "none"
      BY <2>2, <2>5, <2>7
    <3> QED BY <2>4, <3>1
  <2>8. ASSUME NEW c \in Attempts, c > attempt
        PROVE  hpc'[c] = "none" /\ id'[c] = c /\ acquired'[c] = "none"
    <3>1. c # a
      BY <2>2, <2>5, <2>8
    <3> QED BY <2>6, <2>7, <2>8, <3>1 DEF ThreadsInv
  <2>9. ASSUME NEW c \in Attempts, c <= attempt PROVE hpc'[c] # "none" /\ id'[c] <= attempt
    BY <2>4, <2>5, <2>6, <2>9 DEF ThreadsInv
  <2> QED
    BY <2>1, <2>8, <2>9 DEF ThreadsInv
<1> QED BY <1>1, <1>2, <1>3 DEF Next

-------------------------------------------------------------------------------
(* The report on an attempt is one thread's task at a time: it is handed on *)
(* from the set-up to the notification, or to the thread that reports.      *)

LEMMA OthersUse ==
    ASSUME TypeOK, NEW a \in Attempts, Handler(a), NEW c \in Attempts \ {a}, NEW b
    PROVE  Using(c, b)' <=> Using(c, b)
BY StepOfThread DEF Using

LEMMA TaskHandedOn ==
    ASSUME TypeOK, HoldInv, NEW a \in Attempts, Handler(a), NEW b \in Attempts
    PROVE  /\ hpc'[b] \in SetupPlaces => hpc[b] \in SetupPlaces
           /\ acquired'[b] = "due" => acquired[b] = "due" \/ hpc[b] \in SetupPlaces
           /\ Using(a, b)' =>
                 \/ Using(a, b)
                 \/ /\ hpc[b] \in SetupPlaces \/ acquired[b] = "due"
                    /\ hpc'[b] \notin SetupPlaces /\ acquired'[b] # "due"
<1>0. /\ b # a => hpc'[b] = hpc[b]
      /\ hpc[b] \in SetupPlaces => acquired[b] = "none"
  BY StepOfThread, AtSetup DEF HoldInv
<1>1. CASE SetsUp(a)
  <2>1. ~Using(a, b)'
    BY <1>1, NowhereElse DEF SetsUp, Using, AgentPlaces, RunPlaces, ReportPlaces
  <2>2. acquired'[b] = acquired[b] \/ b = a
    BY <1>1 DEF SetsUp, TypeOK
  <2> QED BY <1>0, <1>1, <2>1, <2>2 DEF SetsUp
<1>2. CASE BeginsReport(a)
  <2>1. Using(a, b)' => b = a
    BY <1>2 DEF BeginsReport, Using
  <2>2. hpc'[a] \notin SetupPlaces
    BY <1>2, NowhereElse DEF BeginsReport, ReportPlaces
  <2> QED BY <1>0, <1>2, <2>1, <2>2 DEF BeginsReport
<1>3. CASE ReportsOn(a)
  <2>1. Using(a, b)' => Using(a, b)
    BY <1>3 DEF ReportsOn, Using, AgentPlaces, ReportPlaces
  <2>2. hpc'[a] \notin SetupPlaces
    BY <1>3, NowhereElse, PlaceFacts DEF ReportsOn, RunPlaces, PreparedLabels
  <2> QED BY <1>0, <1>3, <2>1, <2>2 DEF ReportsOn
<1>4. CASE GoesToLoop(a)
  <2>1. ~Using(a, b)'
    BY <1>4 DEF GoesToLoop, Using, AgentPlaces, ReportPlaces
  <2>2. hpc'[a] \notin SetupPlaces
    BY <1>4, NowhereElse DEF GoesToLoop, RunPlaces
  <2> QED BY <1>0, <1>4, <2>1, <2>2 DEF GoesToLoop
<1>5. ASSUME NEW d \in Attempts, IsNotified(a, d)
      PROVE  /\ hpc'[b] \in SetupPlaces => hpc[b] \in SetupPlaces
             /\ acquired'[b] = "due" => acquired[b] = "due"
             /\ Using(a, b)' => /\ acquired[b] = "due"
                                /\ hpc'[b] \notin SetupPlaces /\ acquired'[b] # "due"
  <2>1. hpc'[a] \notin SetupPlaces
    BY <1>5, NowhereElse DEF IsNotified, RunPlaces, AgentPlaces
  <2>2. acquired[d] = "due" /\ acquired'[d] = "done" /\ (b # d => acquired'[b] = acquired[b])
    BY <1>5 DEF IsNotified, TypeOK
  <2>3. Using(a, b)' => b = d
    BY <1>5 DEF IsNotified, Using
  <2> QED BY <1>0, <2>1, <2>2, <2>3
<1>6. CASE Registers(a)
  <2>1. Using(a, b)' => Using(a, b)
    BY <1>6 DEF Registers, Using
  <2>2. hpc'[a] \notin SetupPlaces
    BY <1>6, NowhereElse DEF Registers, RunPlaces, AgentPlaces, ReportPlaces
  <2> QED BY <1>0, <1>6, <2>1, <2>2 DEF Registers
<1> QED
  BY <1>1, <1>2, <1>3, <1>4, <1>5, <1>6, Moves

LEMMA HandlerKeepsOneReporter ==
    ASSUME TypeOK, HoldInv, OneReporter, NEW a \in Attempts, Handler(a)
    PROVE  OneReporter'
<1> SUFFICES ASSUME NEW b \in Attempts
             PROVE  /\ hpc'[b] \in SetupPlaces \/ acquired'[b] = "due" =>
                          \A c \in Attempts : ~Using(c, b)'
                    /\ \A c, d \in Attempts : Using(c, b)' /\ Using(d, b)' => c = d
  BY DEF OneReporter
<1>1. /\ hpc[b] \in SetupPlaces \/ acquired[b] = "due" =>
            \A c \in Attempts : ~Using(c, b)
      /\ \A c, d \in Attempts : Using(c, b) /\ Using(d, b) => c = d
  BY DEF OneReporter
<1>2. \A c \in Attempts \ {a} : Using(c, b)' <=> Using(c, b)
  BY OthersUse
<1>3. /\ hpc'[b] \in SetupPlaces => hpc[b] \in SetupPlaces
      /\ acquired'[b] = "due" => acquired[b] = "due" \/ hpc[b] \in SetupPlaces
      /\ Using(a, b)' =>
            \/ Using(a, b)
            \/ /\ hpc[b] \in SetupPlaces \/ acquired[b] = "due"
               /\ hpc'[b] \notin SetupPlaces /\ acquired'[b] # "due"
  BY TaskHandedOn
<1> QED BY <1>1, <1>2, <1>3

LEMMA HandlerAddsNoTask ==
    ASSUME TypeOK, HoldInv, NEW a \in Attempts, Handler(a), NEW b \in Attempts, Pending(b)'
    PROVE  Pending(b)
<1>1. CASE hpc'[b] \in SetupPlaces \/ acquired'[b] = "due"
  BY <1>1, TaskHandedOn DEF Pending
<1>2. ASSUME NEW c \in Attempts, Using(c, b)' PROVE Pending(b)
  BY <1>2, TaskHandedOn, OthersUse DEF Pending
<1> QED BY <1>1, <1>2 DEF Pending

-------------------------------------------------------------------------------
(* Failures are noted, and only a thread that failed closes the connection. *)

LEMMA FailKept ==
    ASSUME TypeOK, HoldInv, ThreadsInv, FailInv, Next
    PROVE  FailInv'
<1> SUFFICES ASSUME NEW c \in Attempts
             PROVE  /\ hpc'[c] \in Labels \cup {"err_no_loop"} => c \in failed'
                    /\ c \in closed_by' =>
                          /\ c \in failed'
                          /\ (Course(c) \in AfterClose)' \/ hpc'[c] \in {"hung", "crashed"}
  BY DEF FailInv
<1>0. /\ hpc[c] \in Labels \cup {"err_no_loop"} => c \in failed
      /\ c \in closed_by =>
            c \in failed /\ (Course(c) \in AfterClose \/ hpc[c] \in {"hung", "crashed"})
  BY DEF FailInv
<1>1. ASSUME hpc'[c] = hpc[c], UNCHANGED <<resume, closed_by, failed>>
      PROVE  /\ hpc'[c] \in Labels \cup {"err_no_loop"} => c \in failed'
             /\ c \in closed_by' =>
                   /\ c \in failed'
                   /\ (Course(c) \in AfterClose)' \/ hpc'[c] \in {"hung", "crashed"}
  BY <1>0, <1>1 DEF Course
<1>2. CASE CallInit
  <2>1. UNCHANGED <<resume, closed_by, failed>>
    BY <1>2 DEF CallInit, reportVars, libVars
  <2>2. CASE c # attempt'
    <3>1. hpc'[c] = hpc[c]
      BY <1>2, <2>2 DEF CallInit, TypeOK
    <3> QED BY <1>1, <2>1, <3>1
  <2>3. CASE c = attempt'
    <3>1. hpc'[c] = "main_loop" /\ hpc[c] = "none"
      BY <1>2, <2>3, IHAssumption DEF CallInit, TypeOK, ThreadsInv, Attempts
    <3>2. c \notin closed_by
      BY <1>0, <3>1, NowhereElse DEF Course, ReportPlaces
    <3>3. "main_loop" \notin Labels \cup {"err_no_loop"}
      BY PlaceFacts DEF PreparedLabels
    <3> QED BY <2>1, <3>1, <3>2, <3>3
  <2> QED BY <2>2, <2>3
<1>3. CASE ConnmanInit \/ WakeSpuriously \/ TenSecondsPass
  BY <1>1, <1>3 DEF ConnmanInit, WakeSpuriously, LockId, TestDone, WaitTimesOut, UnlockId,
              CheckDone, ReadRc, Caller, TenSecondsPass, reportVars, libVars
<1>4. ASSUME NEW a \in Attempts, Handler(a)
      PROVE  /\ hpc'[c] \in Labels \cup {"err_no_loop"} => c \in failed'
             /\ c \in closed_by' =>
                   /\ c \in failed'
                   /\ (Course(c) \in AfterClose)' \/ hpc'[c] \in {"hung", "crashed"}
  <2> USE DEF At
  <2>0. failed \subseteq failed' /\ closed_by' \subseteq closed_by \cup {a}
    BY <1>4, StepOfThread
  <2>1. CASE c # a
    <3>1. hpc'[c] = hpc[c] /\ resume'[c] = resume[c]
      BY <1>4, <2>1, StepOfThread
    <3> QED BY <1>0, <2>0, <2>1, <3>1 DEF Course
  <2> SUFFICES ASSUME c = a
               PROVE  /\ hpc'[a] \in Labels \cup {"err_no_loop"} => a \in failed'
                      /\ a \in closed_by' =>
                            /\ a \in failed'
                            /\ (Course(a) \in AfterClose)' \/ hpc'[a] \in {"hung", "crashed"}
    BY <2>1
  <2>2. hpc[a] \in DOMAIN Acquisitions \cup {"set_ns", "choose", "reread_ns"} \cup RunPlaces
            => a \notin closed_by
    <3>1. ASSUME hpc[a] \in DOMAIN Acquisitions \cup {"set_ns", "choose", "reread_ns"}
                                \cup RunPlaces
          PROVE  hpc[a] \notin ReportPlaces \cup {"hung", "crashed"}
      BY <3>1, NowhereElse, PlaceFacts
    <3> QED BY <1>0, <3>1, NowhereElse DEF Course
  <2>3. ASSUME NEW r \in DOMAIN Acquisitions \ Prepared, Acquire(a, r)
        PROVE  a \notin closed_by' /\ (hpc'[a] \in Labels \cup {"err_no_loop"} => a \in failed')
    <3>1. hpc[a] = r /\ closed_by' = closed_by
      BY <2>3 DEF Acquire
    <3>2. \/ hpc'[a] = Acquisitions[r]
          \/ failed' = failed \cup {a}
      BY <2>3, AfterUse DEF Acquire
    <3>3. Acquisitions[r] \notin Labels \cup {"err_no_loop"}
      BY AcquireFacts, PlaceFacts DEF PreparedLabels
    <3> QED BY <2>2, <3>1, <3>2, <3>3
  <2>4. ASSUME NEW r \in Prepared, Prepare(a, r)
        PROVE  a \notin closed_by' /\ (hpc'[a] \in Labels \cup {"err_no_loop"} => a \in failed')
    <3>1. hpc[a] = r /\ closed_by' = closed_by
      BY <2>4 DEF Prepare
    <3>2. \/ hpc'[a] \in {Acquisitions[r], "crashed"}
          \/ failed' = failed \cup {a}
      BY <2>4, AfterUse DEF Prepare
    <3>3. Acquisitions[r] \notin Labels \cup {"err_no_loop"}
      BY PrepareFacts, PlaceFacts DEF PreparedLabels
    <3>4. "crashed" \notin Labels \cup {"err_no_loop"}
      BY PlaceFacts DEF PreparedLabels
    <3> QED BY <2>2, <3>1, <3>2, <3>3, <3>4, PlaceFacts
  <2>5. ASSUME NEW label \in PreparedLabels, Unprepare(a, label)
        PROVE  a \in failed' /\ a \notin closed_by'
    <3>1. hpc[a] = label /\ closed_by' = closed_by /\ label \in AgentSetup /\ label \in Labels
      BY <2>5, UnprepareFacts DEF Unprepare
    <3>2. a \notin closed_by
      BY <1>0, <3>1, NowhereElse DEF Course
    <3> QED BY <1>0, <2>0, <3>1, <3>2
  <2>6. ASSUME NEW label \in Labels \ PreparedLabels, Unwind(a, label)
        PROVE  a \in failed' /\ (a \in closed_by' => (Course(a) \in AfterClose)')
    <3>1. /\ hpc[a] = label /\ hpc'[a] = FallsTo[label]
          /\ a \in closed_by' => Releases[label] = "conn" \/ a \in closed_by
      BY <2>6, AfterUse DEF Unwind
    <3>2. label \notin ReportPlaces \cup {"hung", "crashed"} /\ hpc'[a] \notin ReportPlaces
      BY <3>1, UnwindFacts, NowhereElse, PlaceFacts
    <3>3. a \in closed_by => label \in AfterClose
      BY <1>0, <3>1, <3>2 DEF Course
    <3> QED BY <1>0, <2>0, <3>1, <3>2, <3>3, UnwindFacts DEF Course
  <2>7. CASE SetNs(a) \/ ChooseAgent(a) \/ RereadNs(a) \/ Publish(a) \/ RunLoop(a)
             \/ OnBusAcquired(a)
    <3>1. closed_by' = closed_by
      BY <2>7 DEF SetNs, ChooseAgent, RereadNs, Publish, RunLoop, OnBusAcquired, BusAcquired,
                  ExportAgent, RegisterAgent, libVars
    <3>2. hpc[a] \in {"set_ns", "choose", "reread_ns"} \cup RunPlaces
      BY <2>7 DEF SetNs, ChooseAgent, RereadNs, Publish, RunLoop, OnBusAcquired, BusAcquired,
                  ExportAgent, RegisterAgent, RunPlaces, AgentPlaces
    <3>3. hpc'[a] \in {"choose", "reread_ns", "lock_id", "agent_path", "run_loop", "loop",
                       "register_object", "call_connman", "crashed"}
      BY <2>7, AfterUse DEF SetNs, ChooseAgent, RereadNs, Publish, RunLoop, OnBusAcquired,
                            BusAcquired, ExportAgent, RegisterAgent
    <3>4. hpc'[a] \notin Labels \cup {"err_no_loop"}
      BY <3>3, PlaceFacts DEF PreparedLabels
    <3> QED BY <2>2, <3>1, <3>2, <3>4
  <2>8. CASE Fail(a)
    <3>1. /\ hpc[a] = "err_no_loop" /\ hpc'[a] = "lock_id" /\ resume'[a] = "exited"
      BY <2>8, AfterUse DEF Fail
    <3>2. a \in failed' /\ (Course(a) \in AfterClose)'
      BY <1>0, <2>0, <3>1 DEF Course, ReportPlaces, AfterClose
    <3> QED BY <3>2
  <2>9. CASE SignalLock(a) \/ SignalSetDone(a) \/ SignalSetRc(a) \/ SignalCond(a)
    <3>1. /\ UNCHANGED <<resume, closed_by>>
          /\ hpc[a] \in ReportPlaces /\ hpc'[a] \in ReportPlaces \cup {"hung", "crashed"}
      BY <2>9, AfterUse DEF SignalLock, SignalSetDone, SignalSetRc, SignalCond, libVars,
               reportVars, ReportPlaces
    <3>2. hpc'[a] \notin Labels \cup {"err_no_loop"} /\ hpc[a] \notin {"hung", "crashed"}
      BY <3>1, PlaceFacts DEF PreparedLabels, ReportPlaces
    <3> QED BY <1>0, <2>0, <3>1, <3>2 DEF Course
  <2>10. CASE SignalUnlock(a)
    <3>1. /\ hpc[a] = "unlock_id" /\ hpc'[a] \in {resume[a], "crashed"} /\ closed_by' = closed_by
      BY <2>10, AfterUse DEF SignalUnlock, libVars
    <3>2. resume[a] \in {"exited", "publish", "loop"}
      BY <3>1 DEF HoldInv, Holds, ReportPlaces, TypeOK
    <3>3. hpc'[a] \notin Labels \cup {"err_no_loop"} /\ hpc'[a] \notin ReportPlaces
      BY <3>1, <3>2, PlaceFacts DEF PreparedLabels, ReportPlaces
    <3> QED BY <1>0, <2>0, <3>1, <3>2, <3>3 DEF Course, ReportPlaces
  <2> QED
    BY <1>4, <2>3, <2>4, <2>5, <2>6, <2>7, <2>8, <2>9, <2>10 DEF Handler, SignalInitDone
<1> QED
  BY <1>2, <1>3, <1>4 DEF Next


-------------------------------------------------------------------------------
(* As long as no dead init_data is used, no thread is lost: the init_data   *)
(* and the states it uses are there.                                        *)

LEMMA WasFresh ==
    ASSUME Next, ~stale'
    PROVE  ~stale /\ Alive
<1>1. stale' = stale => ~stale
  OBVIOUS
<1>3. CASE CallInit \/ ConnmanInit \/ WakeSpuriously \/ TenSecondsPass
  BY <1>1, <1>3 DEF CallInit, ConnmanInit, WakeSpuriously, TenSecondsPass, LockId, TestDone,
         WaitTimesOut, UnlockId, CheckDone, ReadRc, Caller
<1>4. ASSUME NEW a \in Attempts, Handler(a) PROVE ~stale /\ Alive
  <2>1. Alive
    BY <1>4 DEF Handler, SignalInitDone, OnBusAcquired, Acquire, Prepare, Unprepare, Unwind, SetNs,
         ChooseAgent, RereadNs, Fail, SignalLock, SignalSetDone, SignalSetRc, SignalCond,
         SignalUnlock, Publish, RunLoop, BusAcquired, ExportAgent, RegisterAgent, At
  <2>2. CASE SetNs(a) \/ ChooseAgent(a) \/ RereadNs(a) \/ \E b \in Attempts : BusAcquired(a, b)
    BY <2>1, <2>2 DEF SetNs, ChooseAgent, RereadNs, BusAcquired, UseId
  <2>3. CASE SignalInitDone(a)
    BY <2>1, <2>3 DEF SignalInitDone, SignalLock, SignalSetDone, SignalSetRc, SignalCond,
                SignalUnlock, UseId
  <2>4. CASE \/ \E r \in DOMAIN Acquisitions \ Prepared : Acquire(a, r)
             \/ \E r \in Prepared : Prepare(a, r)
             \/ \E label \in PreparedLabels : Unprepare(a, label)
             \/ \E label \in Labels \ PreparedLabels : Unwind(a, label)
             \/ Fail(a) \/ Publish(a) \/ RunLoop(a) \/ ExportAgent(a) \/ RegisterAgent(a)
    <3>1. stale' = stale
      BY <2>4 DEF Acquire, Prepare, Unprepare, Unwind, Fail, Publish, RunLoop, ExportAgent,
                  RegisterAgent
    <3> QED BY <1>1, <2>1, <3>1
  <2> QED BY <1>4, <2>1, <2>2, <2>3, <2>4 DEF Handler, OnBusAcquired
<1> QED BY <1>3, <1>4 DEF Next

LEMMA FreshUse ==
    ASSUME TypeOK, NEW a \in Attempts, NEW b, NEW place, UseId(a, b, place), ~stale'
    PROVE  Live(b) /\ Hits(b) /\ hpc'[a] = place
<1>1. Live(b) /\ Hits(b)
  BY DEF UseId, Live, Hits
<1> QED BY <1>1, AfterUse

LEMMA StateIsThere ==
    ASSUME TypeOK, NEW a \in Attempts, NEW n, NEW things, things \subseteq held[n],
           NEW place, UseState(a, n, things, place)
    PROVE  hpc'[a] = place
BY AfterUse

(* An attempt whose bus name was asked for holds all but the agent.         *)
LEMMA WithBusName ==
    ASSUME TypeOK, HoldInv, AgentInv, PreparedInv, Alive,
           NEW b \in Attempts, acquired[b] # "none"
    PROVE  Course(b) \in RunPlaces /\ Own(b) = Connected /\ held[b] \cap Prepared = Prepared
<1>1. Course(b) \notin DOMAIN HeldAt
  BY DEF HoldInv, Holds
<1>2. hpc[b] \in SetupPlaces \cup ReportPlaces \cup RunPlaces \cup {"none", "exited"}
  BY DEF TypeOK, Places, AgentInv, Alive
<1>3. resume[b] \in {"none", "exited", "publish", "loop"}
  BY DEF TypeOK
<1>4. Course(b) \in RunPlaces
  BY <1>1, <1>2, <1>3, PlaceFacts, PlacesAre DEF Course
<1>5. Own(b) = Connected
  BY <1>4 DEF HoldInv, Holds
<1>6. Course(b) \notin DOMAIN PreparedAt
  BY <1>4, PlaceFacts, NowhereElse
<1>7. held[b] \cap Prepared = Prepared
  BY <1>6 DEF PreparedInv, PreparedOf
<1> QED BY <1>4, <1>5, <1>7

LEMMA TheAgent ==
    ASSUME AgentInv, NEW a \in Attempts, hpc[a] \in AgentPlaces
    PROVE  /\ agent_ns[a] = id[a] /\ acquired[id[a]] = "done"
           /\ AgentOf(id[a]) = IF hpc[a] = "call_connman" THEN {"agent_object"} ELSE {}
BY DEF AgentInv

LEMMA AtAgentSetup ==
    ASSUME TypeOK, HoldInv, PreparedInv, NEW a \in Attempts, hpc[a] \in AgentSetup
    PROVE  /\ agent_ns[a] = a /\ acquired[a] = "none" /\ Course(a) = hpc[a]
           /\ held[a] \cap Prepared = AgentHeldAt(hpc[a])
<1>1. agent_ns[a] = a /\ held[a] \cap Prepared = PreparedOf(a)
  BY DEF PreparedInv
<1>2. acquired[a] = "none" /\ Course(a) = hpc[a]
  BY AtSetup, NowhereElse DEF HoldInv
<1> QED BY <1>1, <1>2 DEF PreparedOf, AgentHeldAt

LEMMA ThreadSurvives ==
    ASSUME TypeOK, HoldInv, OneReporter, MutexInv, PreparedInv, AgentInv,
           NEW a \in Attempts, Handler(a), ~stale', Alive
    PROVE  hpc'[a] \notin {"hung", "crashed"}
<1> USE DEF At
<1>0. ASSUME hpc'[a] \in SetupPlaces \cup RunPlaces \cup ReportPlaces
      PROVE  hpc'[a] \notin {"hung", "crashed"}
  BY <1>0, NowhereElse DEF ReportPlaces
<1>1. ASSUME NEW r \in DOMAIN Acquisitions \ Prepared, Acquire(a, r)
      PROVE  hpc'[a] \in SetupPlaces
  <2>1. hpc'[a] \in {Acquisitions[r], FailsTo(r)}
    BY <1>1, AfterUse DEF Acquire
  <2> QED BY <2>1, AcquireFacts, PlaceFacts
<1>2. ASSUME NEW label \in Labels \ PreparedLabels, Unwind(a, label)
      PROVE  hpc'[a] \in SetupPlaces
  BY <1>2, AfterUse, UnwindFacts, PlaceFacts DEF Unwind
<1>3. CASE SetNs(a) \/ ChooseAgent(a) \/ Fail(a)
  <2>1. hpc'[a] \in {"choose", "reread_ns", "lock_id"}
    BY <1>3, AfterUse, FreshUse DEF SetNs, ChooseAgent, Fail
  <2> QED BY <2>1
<1>4. CASE RereadNs(a)
  <2>1. Live(a) /\ Hits(a)
    BY <1>4, FreshUse DEF RereadNs
  <2>2. hpc[a] = "reread_ns" /\ a = attempt
    BY <1>4, <2>1 DEF RereadNs, Live
  <2>3. id_ns = a /\ a # 0
    BY <2>2, NumbersAre DEF AgentInv
  <2>4. UseId(a, a, "agent_path")
    BY <1>4, <2>1, <2>3 DEF RereadNs
  <2> QED BY <2>4, FreshUse
<1>5. ASSUME NEW r \in Prepared, Prepare(a, r) PROVE hpc'[a] \notin {"hung", "crashed"}
  <2>1. hpc[a] = r /\ r \in AgentSetup /\ r \in SetupPlaces
    BY <1>5, PrepareFacts DEF Prepare
  <2>2. agent_ns[a] = a /\ Own(a) = Connected
    BY <2>1, AtAgentSetup, AtSetup, PrepareFacts DEF HoldInv
  <2>3. {"ns"} \subseteq held[a]
    BY <2>2 DEF Own, Connected
  <2>4. hpc'[a] \in {Acquisitions[r], FailsTo(r)}
    <3>1. \/ UseState(a, a, {"ns"}, Acquisitions[r])
          \/ UseState(a, a, {"ns"}, FailsTo(r))
      BY <1>5, <2>2 DEF Prepare
    <3> QED BY <2>3, <3>1, StateIsThere
  <2>5. hpc'[a] \in SetupPlaces \cup RunPlaces
    BY <2>4, PrepareFacts, PlaceFacts, PlacesAre
  <2> QED BY <1>0, <2>5
<1>6. ASSUME NEW label \in PreparedLabels, Unprepare(a, label)
      PROVE  hpc'[a] \in SetupPlaces
  <2>1. hpc[a] = label /\ label \in AgentSetup /\ label \in SetupPlaces
    BY <1>6, UnprepareFacts DEF Unprepare
  <2>2. agent_ns[a] = a /\ Own(a) = Connected /\ held[a] \cap Prepared = AgentHeldAt(label)
    BY <2>1, AtAgentSetup, AtSetup, UnprepareFacts DEF HoldInv
  <2>3. {"ns", Releases[label]} \subseteq held[a]
    <3>1. "ns" \in held[a]
      BY <2>2 DEF Own, Connected
    <3>2. Releases[label] \in held[a]
      BY <2>2, UnprepareFacts
    <3> QED BY <3>1, <3>2
  <2>4. hpc'[a] = FallsTo[label]
    BY <1>6, <2>2, <2>3, AfterUse DEF Unprepare
  <2> QED BY <2>4, UnprepareFacts, PlaceFacts DEF PreparedLabels
<1>7. CASE SignalLock(a)
  <2>1. Hits(id[a])
    BY <1>7, FreshUse DEF SignalLock
  <2>2. UseId(a, id[a], "set_done")
    BY <1>7, <2>1 DEF SignalLock
  <2> QED BY <2>2, FreshUse
<1>8. CASE SignalSetDone(a) \/ SignalSetRc(a) \/ SignalCond(a)
  <2>1. hpc'[a] \in {"set_rc", "signal_cond", "unlock_id"}
    BY <1>8, FreshUse DEF SignalSetDone, SignalSetRc, SignalCond
  <2> QED BY <2>1
<1>9. CASE SignalUnlock(a)
  <2>1. hpc[a] = "unlock_id" /\ Live(id[a])
    BY <1>9, FreshUse DEF SignalUnlock
  <2>2. mutex = "handler"
    BY <2>1 DEF MutexInv, ReportPlaces
  <2>3. UseId(a, id[a], resume[a])
    BY <1>9, <2>2 DEF SignalUnlock
  <2>4. hpc'[a] = resume[a]
    BY <2>3, FreshUse
  <2> QED BY <2>4 DEF TypeOK
<1>10. CASE Publish(a) \/ RunLoop(a)
  <2>1. hpc'[a] \in {"run_loop", "loop"}
    BY <1>10, AfterUse DEF Publish, RunLoop
  <2> QED BY <2>1
<1>11. ASSUME NEW b \in Attempts, BusAcquired(a, b) PROVE hpc'[a] \notin {"hung", "crashed"}
  <2>1. Live(b) /\ Hits(b) /\ acquired[b] = "due"
    BY <1>11, FreshUse DEF BusAcquired
  <2>2. id_ns = b /\ b # 0
    BY <2>1, NumbersAre DEF AgentInv, Live
  <2>3. "introspection" \in held[b]
    BY <2>1, WithBusName DEF Prepared
  <2>4. UseId(a, b, "register_object")
    BY <1>11, <2>1, <2>2, <2>3 DEF BusAcquired
  <2> QED BY <2>4, FreshUse
<1>12. CASE ExportAgent(a) \/ RegisterAgent(a)
  <2>1. hpc[a] \in AgentPlaces /\ id[a] \in Attempts
    BY <1>12, NumbersAre DEF ExportAgent, RegisterAgent, AgentPlaces
  <2>2. agent_ns[a] = id[a] /\ acquired[id[a]] = "done"
    BY <2>1, TheAgent
  <2>3. Own(id[a]) = Connected
    BY <2>1, <2>2, WithBusName
  <2>4. {"ns"} \subseteq held[agent_ns[a]]
    BY <2>2, <2>3 DEF Own, Connected
  <2>5. hpc'[a] \in {"call_connman", "lock_id"}
    <3>1. \/ UseState(a, agent_ns[a], {"ns"}, "call_connman")
          \/ UseState(a, agent_ns[a], {"ns"}, "lock_id")
      BY <1>12 DEF ExportAgent, RegisterAgent
    <3> QED BY <2>4, <3>1, StateIsThere
  <2> QED BY <2>5
<1> QED
  BY <1>0, <1>1, <1>2, <1>3, <1>4, <1>5, <1>6, <1>7, <1>8, <1>9, <1>10, <1>11, <1>12
  DEF Handler, SignalInitDone, OnBusAcquired

(* signal_init_done, on the call's own init_data.                           *)
LEMMA FreshSignal ==
    ASSUME TypeOK, MutexInv, NEW a \in Attempts, ~stale'
    PROVE  /\ SignalLock(a) =>
                 /\ Live(id[a]) /\ hpc[a] = "lock_id" /\ hpc'[a] = "set_done"
                 /\ mutex = "none" /\ mutex' = "handler" /\ id'[a] = id[a]
                 /\ UNCHANGED <<caller, init_done, rc>>
           /\ SignalSetDone(a) =>
                 /\ Live(id[a]) /\ hpc[a] = "set_done" /\ hpc'[a] = "set_rc" /\ id'[a] = id[a]
                 /\ init_done' /\ UNCHANGED <<caller, mutex, rc>>
           /\ SignalSetRc(a) =>
                 /\ Live(id[a]) /\ hpc[a] = "set_rc" /\ hpc'[a] = "signal_cond" /\ id'[a] = id[a]
                 /\ rc' = outcome[a] /\ UNCHANGED <<caller, mutex, init_done>>
           /\ SignalCond(a) =>
                 /\ Live(id[a]) /\ hpc[a] = "signal_cond" /\ hpc'[a] = "unlock_id"
                 /\ id'[a] = id[a]
                 /\ caller' = Signalled(caller) /\ UNCHANGED <<mutex, init_done, rc>>
           /\ SignalUnlock(a) =>
                 /\ Live(id[a]) /\ hpc[a] = "unlock_id" /\ hpc'[a] = resume[a] /\ id'[a] = a
                 /\ mutex = "handler" /\ mutex' = "none" /\ UNCHANGED <<caller, init_done, rc>>
<1> USE DEF At
<1>1. ASSUME SignalLock(a)
      PROVE  /\ Live(id[a]) /\ hpc[a] = "lock_id" /\ hpc'[a] = "set_done"
             /\ mutex = "none" /\ mutex' = "handler" /\ id'[a] = id[a]
             /\ UNCHANGED <<caller, init_done, rc>>
  <2>1. Hits(id[a])
    BY <1>1, FreshUse DEF SignalLock
  <2>2. UseId(a, id[a], "set_done") /\ mutex = "none" /\ mutex' = "handler"
    BY <1>1, <2>1 DEF SignalLock
  <2> QED BY <1>1, <2>2, FreshUse DEF SignalLock, waitVars, reportVars
<1>2. ASSUME SignalSetDone(a)
      PROVE  /\ Live(id[a]) /\ hpc[a] = "set_done" /\ hpc'[a] = "set_rc" /\ id'[a] = id[a]
             /\ init_done' /\ UNCHANGED <<caller, mutex, rc>>
  <2>1. Hits(id[a]) /\ Live(id[a]) /\ hpc'[a] = "set_rc"
    BY <1>2, FreshUse DEF SignalSetDone
  <2> QED BY <1>2, <2>1 DEF SignalSetDone, waitVars, reportVars
<1>3. ASSUME SignalSetRc(a)
      PROVE  /\ Live(id[a]) /\ hpc[a] = "set_rc" /\ hpc'[a] = "signal_cond" /\ id'[a] = id[a]
             /\ rc' = outcome[a] /\ UNCHANGED <<caller, mutex, init_done>>
  <2>1. Hits(id[a]) /\ Live(id[a]) /\ hpc'[a] = "signal_cond"
    BY <1>3, FreshUse DEF SignalSetRc
  <2> QED BY <1>3, <2>1 DEF SignalSetRc, waitVars, reportVars
<1>4. ASSUME SignalCond(a)
      PROVE  /\ Live(id[a]) /\ hpc[a] = "signal_cond" /\ hpc'[a] = "unlock_id"
             /\ id'[a] = id[a]
             /\ caller' = Signalled(caller) /\ UNCHANGED <<mutex, init_done, rc>>
  <2>1. Hits(id[a]) /\ Live(id[a]) /\ hpc'[a] = "unlock_id"
    BY <1>4, FreshUse DEF SignalCond
  <2> QED BY <1>4, <2>1 DEF SignalCond, idVars, reportVars
<1>5. ASSUME SignalUnlock(a)
      PROVE  /\ Live(id[a]) /\ hpc[a] = "unlock_id" /\ hpc'[a] = resume[a] /\ id'[a] = a
             /\ mutex = "handler" /\ mutex' = "none" /\ UNCHANGED <<caller, init_done, rc>>
  <2>1. hpc[a] = "unlock_id" /\ Hits(id[a]) /\ Live(id[a])
    BY <1>5, FreshUse DEF SignalUnlock
  <2>2. mutex = "handler"
    BY <2>1 DEF MutexInv, ReportPlaces
  <2>3. UseId(a, id[a], resume[a])
    BY <1>5, <2>2 DEF SignalUnlock
  <2>4. hpc'[a] = resume[a] /\ id'[a] = a
    BY <1>5, <2>3, FreshUse, AfterUse DEF SignalUnlock
  <2> QED BY <1>5, <2>1, <2>2, <2>4 DEF SignalUnlock, waitVars
<1> QED BY <1>1, <1>2, <1>3, <1>4, <1>5

(* The steps of a handler thread that are not signal_init_done's.           *)
NoSignal(a) == Handler(a) /\ ~SignalInitDone(a)

LEMMA WithoutSignal ==
    ASSUME TypeOK, NEW a \in Attempts, NoSignal(a)
    PROVE  /\ UNCHANGED <<caller, mutex, init_done, rc>>
           /\ hpc[a] \notin ReportPlaces
           /\ hpc'[a] \notin ReportPlaces \ {"lock_id"}
<1> USE DEF At
<1>1. ASSUME NEW r \in DOMAIN Acquisitions \ Prepared, Acquire(a, r)
      PROVE  /\ UNCHANGED <<caller, mutex, init_done, rc>>
             /\ hpc[a] \in SetupPlaces /\ hpc'[a] \in SetupPlaces
  <2>1. hpc'[a] \in {Acquisitions[r], FailsTo(r)}
    BY <1>1, AfterUse DEF Acquire
  <2> QED BY <1>1, <2>1, AcquireFacts, PlaceFacts DEF Acquire, idVars, waitVars
<1>2. ASSUME NEW label \in Labels \ PreparedLabels, Unwind(a, label)
      PROVE  /\ UNCHANGED <<caller, mutex, init_done, rc>>
             /\ hpc[a] \in SetupPlaces /\ hpc'[a] \in SetupPlaces
  BY <1>2, AfterUse, UnwindFacts, PlaceFacts DEF Unwind, idVars, waitVars
<1>3. ASSUME NEW r \in Prepared, Prepare(a, r)
      PROVE  /\ UNCHANGED <<caller, mutex, init_done, rc>>
             /\ hpc[a] \in SetupPlaces /\ hpc'[a] \in SetupPlaces \cup {"publish", "crashed"}
  <2>1. hpc'[a] \in {Acquisitions[r], FailsTo(r), "crashed"}
    BY <1>3, AfterUse DEF Prepare
  <2>2. UNCHANGED <<caller, mutex, init_done, rc>> /\ hpc[a] \in SetupPlaces
    BY <1>3, PrepareFacts DEF Prepare, idVars, waitVars
  <2>3. {Acquisitions[r], FailsTo(r)} \subseteq SetupPlaces \cup {"publish"}
    BY PrepareFacts, PlaceFacts
  <2> QED BY <2>1, <2>2, <2>3
<1>4. ASSUME NEW label \in PreparedLabels, Unprepare(a, label)
      PROVE  /\ UNCHANGED <<caller, mutex, init_done, rc>>
             /\ hpc[a] \in SetupPlaces /\ hpc'[a] \in SetupPlaces \cup {"publish", "crashed"}
  <2>1. hpc'[a] \in {FallsTo[label], "crashed"}
    BY <1>4, AfterUse DEF Unprepare
  <2>2. UNCHANGED <<caller, mutex, init_done, rc>> /\ hpc[a] \in SetupPlaces
    BY <1>4, UnprepareFacts DEF Unprepare, idVars, waitVars
  <2>3. FallsTo[label] \in SetupPlaces
    BY UnprepareFacts, PlaceFacts DEF PreparedLabels
  <2> QED BY <2>1, <2>2, <2>3
<1>5. CASE \/ SetNs(a) \/ ChooseAgent(a) \/ RereadNs(a) \/ Fail(a) \/ Publish(a) \/ RunLoop(a)
           \/ OnBusAcquired(a)
  <2>0. UNCHANGED <<caller, mutex, init_done, rc>>
    BY <1>5 DEF SetNs, ChooseAgent, RereadNs, Fail, Publish, RunLoop, OnBusAcquired, ExportAgent,
                RegisterAgent, BusAcquired, idVars, waitVars
  <2>1. hpc[a] \in {"set_ns", "choose", "reread_ns", "err_no_loop", "publish", "run_loop", "loop",
                    "register_object", "call_connman"}
    BY <1>5 DEF SetNs, ChooseAgent, RereadNs, Fail, Publish, RunLoop, OnBusAcquired, ExportAgent,
                RegisterAgent, BusAcquired
  <2>2. hpc'[a] \in {"choose", "reread_ns", "agent_path", "lock_id", "run_loop", "loop", "crashed",
                     "register_object", "call_connman"}
    BY <1>5, AfterUse DEF SetNs, ChooseAgent, RereadNs, Fail, Publish, RunLoop, OnBusAcquired,
                ExportAgent, RegisterAgent, BusAcquired
  <2> QED BY <2>0, <2>1, <2>2 DEF ReportPlaces
<1>6. "publish" \notin ReportPlaces /\ "crashed" \notin ReportPlaces
      /\ SetupPlaces \cap ReportPlaces = {}
  BY NowhereElse DEF ReportPlaces
<1> QED BY <1>1, <1>2, <1>3, <1>4, <1>5, <1>6 DEF NoSignal, Handler

LEMMA HandlerKeepsMutex ==
    ASSUME TypeOK, HoldInv, OneReporter, MutexInv, NEW a \in Attempts, Handler(a), ~stale'
    PROVE  MutexInv'
<1>0. \A c \in Attempts \ {a} : hpc'[c] = hpc[c] /\ id'[c] = id[c]
  BY StepOfThread
<1>1. attempt' = attempt
  BY CallAfterHandler
<1>2. CASE NoSignal(a)
  BY <1>0, <1>1, <1>2, WithoutSignal DEF MutexInv, Live, InCall
<1>3. CASE SignalLock(a)
  BY <1>0, <1>1, <1>3, FreshSignal DEF MutexInv, Live, InCall
<1>4. CASE SignalSetDone(a) \/ SignalSetRc(a)
  BY <1>0, <1>1, <1>4, FreshSignal DEF MutexInv, Live, InCall, ReportPlaces
<1>5. CASE SignalCond(a)
  <2>1. /\ Live(id[a]) /\ hpc[a] = "signal_cond" /\ id'[a] = id[a]
        /\ caller' = Signalled(caller) /\ mutex' = mutex
    BY <1>5, FreshSignal
  <2>2. InCall' <=> InCall
    BY <2>1 DEF InCall, Signalled
  <2>3. caller' \in {"test", "unlock"} => mutex = "caller"
    BY <2>1 DEF MutexInv, Signalled
  <2>4. mutex = "handler"
    BY <2>1 DEF MutexInv, ReportPlaces
  <2> QED BY <1>0, <1>1, <2>1, <2>2, <2>3, <2>4 DEF MutexInv, Live
<1>6. CASE SignalUnlock(a)
  <2>1. /\ Live(id[a]) /\ hpc[a] = "unlock_id" /\ hpc'[a] = resume[a]
        /\ mutex = "handler" /\ caller' = caller
    BY <1>6, FreshSignal
  <2>2. resume[a] \notin ReportPlaces
    BY DEF ReportPlaces, TypeOK
  <2>3. caller' \notin {"test", "unlock"}
    BY <2>1 DEF MutexInv
  <2>4. ASSUME NEW c \in Attempts, hpc'[c] \in ReportPlaces, Live(id[c]) PROVE c = a
    <3>1. SUFFICES ASSUME c # a PROVE FALSE
      OBVIOUS
    <3>2. hpc[c] = hpc'[c]
      BY <1>0, <3>1
    <3>3. id[c] = id[a] /\ id[a] \in Attempts
      BY <2>1, <2>4, NumbersAre DEF Live
    <3>4. Using(c, id[a]) /\ Using(a, id[a])
      BY <2>1, <2>4, <3>2, <3>3 DEF Using, ReportPlaces
    <3> QED BY <3>1, <3>3, <3>4 DEF OneReporter
  <2>5. ASSUME NEW c \in Attempts, hpc'[c] \in ReportPlaces
        PROVE  ~(InCall' /\ attempt' = id'[c])
    <3>1. c # a /\ id'[c] = id[c]
      BY <1>0, <2>1, <2>2, <2>5
    <3> QED BY <1>1, <2>1, <2>4, <2>5, <3>1 DEF Live, InCall
  <2> QED BY <2>3, <2>5 DEF MutexInv, Live
<1> QED BY <1>2, <1>3, <1>4, <1>5, <1>6 DEF NoSignal, SignalInitDone

-------------------------------------------------------------------------------
(* The agents.                                                              *)

LEMMA AgentOfKept ==
    ASSUME TypeOK, NEW a \in Attempts, Handler(a), NEW b \in Attempts,
           ExportAgent(a) \/ RegisterAgent(a) => b # agent_ns[a]
    PROVE  AgentOf(b)' = AgentOf(b)
<1> USE DEF TypeOK, AgentOf
<1>1. ASSUME NEW r, r \notin {"agent_object", "agent"}, NEW n \in Attempts \cup {0},
             \/ held' = held \/ held' = [held EXCEPT ![n] = @ \cup {r}]
             \/ held' = [held EXCEPT ![n] = @ \ {r}]
      PROVE  AgentOf(b)' = AgentOf(b)
  BY <1>1
<1>2. agent_ns[a] \in Attempts \cup {0} /\ a \in Attempts \cup {0}
  BY IHAssumption DEF Attempts
<1>3. ASSUME NEW r \in DOMAIN Acquisitions \ Prepared, Acquire(a, r)
      PROVE  AgentOf(b)' = AgentOf(b)
  <2>1. r \notin {"agent_object", "agent"}
    BY AcquireFacts, PlaceFacts
  <2> QED BY <1>1, <1>2, <1>3, <2>1 DEF Acquire
<1>4. ASSUME NEW label \in Labels \ PreparedLabels, Unwind(a, label)
      PROVE  AgentOf(b)' = AgentOf(b)
  <2>1. Releases[label] \notin {"agent_object", "agent"}
    BY UnwindFacts, PlaceFacts
  <2> QED BY <1>1, <1>2, <1>4, <2>1 DEF Unwind
<1>5. ASSUME NEW r \in Prepared, Prepare(a, r) PROVE AgentOf(b)' = AgentOf(b)
  <2>1. r \notin {"agent_object", "agent"}
    BY PlaceFacts
  <2> QED BY <1>1, <1>2, <1>5, <2>1 DEF Prepare
<1>6. ASSUME NEW label \in PreparedLabels, Unprepare(a, label) PROVE AgentOf(b)' = AgentOf(b)
  <2>1. Releases[label] \notin {"agent_object", "agent"}
    BY UnprepareFacts, PlaceFacts
  <2> QED BY <1>1, <1>2, <1>6, <2>1 DEF Unprepare
<1>7. CASE ExportAgent(a)
  BY <1>7 DEF ExportAgent
<1>8. CASE RegisterAgent(a)
  BY <1>8 DEF RegisterAgent
<1>9. CASE \/ SetNs(a) \/ ChooseAgent(a) \/ RereadNs(a) \/ Fail(a) \/ SignalInitDone(a)
           \/ Publish(a) \/ RunLoop(a) \/ \E d \in Attempts : BusAcquired(a, d)
  <2>1. held' = held
    BY <1>9 DEF SetNs, ChooseAgent, RereadNs, Fail, SignalInitDone, SignalLock, SignalSetDone,
                SignalSetRc, SignalCond, SignalUnlock, Publish, RunLoop, BusAcquired, libVars
  <2> QED BY <2>1
<1> QED BY <1>3, <1>4, <1>5, <1>6, <1>7, <1>8, <1>9 DEF Handler, OnBusAcquired

LEMMA HandlerAcquired ==
    ASSUME TypeOK, HoldInv, NEW a \in Attempts, Handler(a), NEW b \in Attempts,
           hpc'[a] # "crashed"
    PROVE  \/ acquired'[b] = acquired[b]
           \/ BusAcquired(a, b) /\ acquired[b] = "due" /\ acquired'[b] = "done"
           \/ /\ Prepare(a, "bus_name") /\ b = a /\ hpc[b] = "bus_name"
              /\ acquired[b] = "none" /\ acquired'[b] = "due" /\ hpc'[b] = "publish"
<1>1. ASSUME NEW r \in Prepared, Prepare(a, r), acquired'[b] # acquired[b]
      PROVE  /\ Prepare(a, "bus_name") /\ b = a /\ hpc[b] = "bus_name"
             /\ acquired[b] = "none" /\ acquired'[b] = "due" /\ hpc'[b] = "publish"
  <2>1. /\ r = "bus_name" /\ acquired' = [acquired EXCEPT ![a] = "due"]
        /\ UseState(a, agent_ns[a], {"ns"}, Acquisitions[r])
    BY <1>1 DEF Prepare
  <2>2. b = a /\ acquired'[b] = "due"
    BY <1>1, <2>1 DEF TypeOK
  <2>3. hpc[a] = "bus_name" /\ "bus_name" \in SetupPlaces
    BY <1>1, <2>1, PlaceFacts DEF Prepare, At
  <2>4. acquired[a] = "none"
    BY <2>3, AtSetup DEF HoldInv
  <2>5. hpc'[a] = "publish"
    BY <2>1, AfterUse DEF Acquisitions
  <2> QED BY <1>1, <2>1, <2>2, <2>3, <2>4, <2>5
<1>2. ASSUME NEW d \in Attempts, BusAcquired(a, d)
      PROVE  \/ acquired'[b] = acquired[b]
             \/ d = b /\ acquired[b] = "due" /\ acquired'[b] = "done"
  BY <1>2 DEF BusAcquired, TypeOK
<1>3. CASE \/ \E r \in DOMAIN Acquisitions \ Prepared : Acquire(a, r)
           \/ SetNs(a) \/ ChooseAgent(a) \/ RereadNs(a)
           \/ \E label \in PreparedLabels : Unprepare(a, label)
           \/ \E label \in Labels \ PreparedLabels : Unwind(a, label)
           \/ Fail(a) \/ SignalInitDone(a) \/ Publish(a) \/ RunLoop(a)
           \/ ExportAgent(a) \/ RegisterAgent(a)
  BY <1>3 DEF Acquire, SetNs, ChooseAgent, RereadNs, Unprepare, Unwind, Fail, SignalInitDone,
              SignalLock, SignalSetDone, SignalSetRc, SignalCond, SignalUnlock, Publish, RunLoop,
              ExportAgent, RegisterAgent, libVars
<1> QED BY <1>1, <1>2, <1>3 DEF Handler, OnBusAcquired

(* The ways to the agent's set-up.                                          *)
LEMMA WaysTo ==
    ASSUME TypeOK, NEW a \in Attempts, Handler(a)
    PROVE  /\ hpc'[a] = "choose" => SetNs(a)
           /\ hpc'[a] = "reread_ns" => ChooseAgent(a)
           /\ hpc'[a] = "agent_path" => RereadNs(a)
           /\ hpc'[a] \in AgentSetup \ {"agent_path"} =>
                 \/ \E r \in Prepared : Prepare(a, r)
                 \/ \E label \in PreparedLabels : Unprepare(a, label)
<1>0. /\ AgentSetup = {"agent_path", "introspection", "bus_name",
                       "out_no_introspection_data", "out_no_bus_name"}
      /\ Prepared = {"agent_path", "introspection", "bus_name"}
  BY PlaceFacts DEF AgentSetup, PreparedLabels
<1>1. ASSUME NEW r \in DOMAIN Acquisitions \ Prepared, Acquire(a, r)
      PROVE  hpc'[a] \notin {"choose", "reread_ns"} \cup AgentSetup
  <2>1. hpc'[a] \in {Acquisitions[r], FailsTo(r)}
    BY <1>1, AfterUse DEF Acquire
  <2>2. Acquisitions[r] \in Connected \cup {"set_ns"}
    BY AcquireFacts
  <2>3. FailsTo(r) \in (Labels \ PreparedLabels) \cup {"err_no_loop"}
    BY AcquireFacts
  <2> QED BY <1>0, <2>1, <2>2, <2>3, PlaceFacts DEF PreparedLabels
<1>2. ASSUME NEW label \in Labels \ PreparedLabels, Unwind(a, label)
      PROVE  hpc'[a] \notin {"choose", "reread_ns"} \cup AgentSetup
  <2>1. hpc'[a] \in (Labels \ PreparedLabels) \cup {"err_no_loop"}
    BY <1>2, AfterUse, UnwindFacts DEF Unwind
  <2> QED BY <1>0, <2>1, PlaceFacts DEF PreparedLabels
<1>3. ASSUME NEW r \in Prepared, Prepare(a, r)
      PROVE  hpc'[a] \notin {"choose", "reread_ns", "agent_path"}
  <2>1. r \in {"agent_path", "introspection", "bus_name"}
    BY <1>0
  <2>2. hpc'[a] \in {Acquisitions[r], FailsTo(r), "crashed"}
    BY <1>3, AfterUse DEF Prepare
  <2> QED BY <2>1, <2>2 DEF Acquisitions, FailsTo, OnFailure
<1>4. ASSUME NEW label \in PreparedLabels, Unprepare(a, label)
      PROVE  hpc'[a] \notin {"choose", "reread_ns", "agent_path"}
  <2>1. hpc'[a] \in {FallsTo[label], "crashed"}
    BY <1>4, AfterUse DEF Unprepare
  <2> QED BY <2>1, UnprepareFacts
<1>5. CASE SignalUnlock(a)
  <2>1. hpc'[a] \in {resume[a], "crashed"}
    BY <1>5, AfterUse DEF SignalUnlock
  <2> QED BY <1>0, <2>1 DEF TypeOK
<1>6. CASE \/ SetNs(a) \/ ChooseAgent(a) \/ RereadNs(a)
  <2>1. /\ SetNs(a) => hpc'[a] \in {"choose", "crashed"}
        /\ ChooseAgent(a) => hpc'[a] \in {"reread_ns", "lock_id", "crashed"}
        /\ RereadNs(a) => hpc'[a] \in {"agent_path", "crashed"}
    BY AfterUse DEF SetNs, ChooseAgent, RereadNs
  <2> QED BY <1>0, <1>6, <2>1
<1>7. CASE \/ Fail(a) \/ SignalLock(a) \/ SignalSetDone(a) \/ SignalSetRc(a) \/ SignalCond(a)
           \/ Publish(a) \/ RunLoop(a) \/ OnBusAcquired(a)
  <2>1. hpc'[a] \in {"lock_id", "set_done", "hung", "set_rc", "signal_cond", "unlock_id",
                     "run_loop", "loop", "register_object", "call_connman", "crashed"}
    BY <1>7, AfterUse DEF Fail, SignalLock, SignalSetDone, SignalSetRc, SignalCond, Publish,
                RunLoop, OnBusAcquired, BusAcquired, ExportAgent, RegisterAgent
  <2> QED BY <1>0, <2>1
<1>8. CASE \/ \E r \in DOMAIN Acquisitions \ Prepared : Acquire(a, r)
           \/ \E label \in Labels \ PreparedLabels : Unwind(a, label)
  <2>1. hpc'[a] \notin {"choose", "reread_ns"} \cup AgentSetup
    BY <1>1, <1>2, <1>8
  <2> QED BY <1>0, <2>1
<1>9. CASE \/ \E r \in Prepared : Prepare(a, r)
           \/ \E label \in PreparedLabels : Unprepare(a, label)
  <2>1. hpc'[a] \notin {"choose", "reread_ns", "agent_path"}
    BY <1>3, <1>4, <1>9
  <2> QED BY <1>9, <2>1
<1> QED BY <1>5, <1>6, <1>7, <1>8, <1>9 DEF Handler, SignalInitDone

(* id->ns is written once, by the thread of the call.                       *)
LEMMA IdNsKept ==
    ASSUME TypeOK, NEW a \in Attempts, Handler(a), ~stale'
    PROVE  id_ns' = id_ns \/ (SetNs(a) /\ Live(a) /\ id_ns' = a)
<1>1. CASE SetNs(a)
  <2>1. Live(a) /\ Hits(a)
    BY <1>1, FreshUse DEF SetNs
  <2> QED BY <1>1, <2>1 DEF SetNs
<1>2. CASE ~SetNs(a)
  BY <1>2 DEF Handler, SignalInitDone, OnBusAcquired, Acquire, Prepare, Unprepare, Unwind,
         ChooseAgent, RereadNs, Fail, SignalLock, SignalSetDone, SignalSetRc, SignalCond,
         SignalUnlock, Publish, RunLoop, BusAcquired, ExportAgent, RegisterAgent, idVars
<1> QED BY <1>1, <1>2

(* Only the agent's own steps change what is prepared for it.               *)
LEMMA PreparedKept ==
    ASSUME TypeOK, HoldInv, NEW a \in Attempts, Handler(a), NEW b \in Attempts,
           \/ /\ ~ \E r \in Prepared : Prepare(a, r)
              /\ ~ \E label \in PreparedLabels : Unprepare(a, label)
           \/ agent_ns[a] # b
    PROVE  held'[b] \cap Prepared = held[b] \cap Prepared
<1> USE DEF TypeOK
<1>1. ASSUME NEW n \in Attempts, NEW things, things \cap Prepared = held[n] \cap Prepared,
             held' = [held EXCEPT ![n] = things]
      PROVE  held'[b] \cap Prepared = held[b] \cap Prepared
  BY <1>1
<1>2. ASSUME NEW r \in DOMAIN Acquisitions \ Prepared, Acquire(a, r)
      PROVE  held'[b] \cap Prepared = held[b] \cap Prepared
  <2>1. (held[a] \cup {r}) \cap Prepared = held[a] \cap Prepared
    OBVIOUS
  <2>2. held' = held \/ held' = [held EXCEPT ![a] = held[a] \cup {r}]
    BY <1>2 DEF Acquire
  <2> QED BY <1>1, <2>1, <2>2
<1>3. ASSUME NEW label \in Labels \ PreparedLabels, Unwind(a, label)
      PROVE  held'[b] \cap Prepared = held[b] \cap Prepared
  <2>1. Releases[label] \notin Prepared
    BY UnwindFacts, PlaceFacts
  <2>2. (held[a] \ {Releases[label]}) \cap Prepared = held[a] \cap Prepared
    BY <2>1
  <2>3. held' = [held EXCEPT ![a] = held[a] \ {Releases[label]}]
    BY <1>3 DEF Unwind
  <2> QED BY <1>1, <2>2, <2>3
<1>4. CASE \/ \E r \in Prepared : Prepare(a, r)
           \/ \E label \in PreparedLabels : Unprepare(a, label)
  BY <1>4 DEF Prepare, Unprepare
<1>5. CASE ExportAgent(a)
  <2>1. agent_ns[a] \in Attempts
    BY <1>5, AgentStateExists DEF ExportAgent, At, AgentPlaces
  <2>2. (held[agent_ns[a]] \cup {"agent_object"}) \cap Prepared = held[agent_ns[a]] \cap Prepared
    BY PlaceFacts
  <2>3. \/ held' = held
        \/ held' = [held EXCEPT ![agent_ns[a]] = held[agent_ns[a]] \cup {"agent_object"}]
    BY <1>5 DEF ExportAgent
  <2> QED BY <1>1, <2>1, <2>2, <2>3
<1>6. CASE RegisterAgent(a)
  <2>1. agent_ns[a] \in Attempts
    BY <1>6, AgentStateExists DEF RegisterAgent, At, AgentPlaces
  <2>2. PICK accepted \in BOOLEAN :
             held' = [held EXCEPT ![agent_ns[a]] = AfterReply(accepted, held[agent_ns[a]])]
    BY <1>6 DEF RegisterAgent
  <2>3. AfterReply(accepted, held[agent_ns[a]]) \cap Prepared = held[agent_ns[a]] \cap Prepared
    BY PlaceFacts DEF AfterReply
  <2> QED BY <1>1, <2>1, <2>2, <2>3
<1>7. CASE \/ SetNs(a) \/ ChooseAgent(a) \/ RereadNs(a) \/ Fail(a) \/ SignalInitDone(a)
           \/ Publish(a) \/ RunLoop(a) \/ \E d \in Attempts : BusAcquired(a, d)
  <2>1. held' = held
    BY <1>7 DEF SetNs, ChooseAgent, RereadNs, Fail, SignalInitDone, SignalLock, SignalSetDone,
                SignalSetRc, SignalCond, SignalUnlock, Publish, RunLoop, BusAcquired, libVars
  <2> QED BY <2>1
<1> QED
  BY <1>2, <1>3, <1>4, <1>5, <1>6, <1>7 DEF Handler, OnBusAcquired

LEMMA HandlerKeepsPrepared ==
    ASSUME TypeOK, HoldInv, PreparedInv, AgentInv, NEW a \in Attempts, Handler(a),
           TypeOK', ~stale', hpc'[a] # "crashed"
    PROVE  PreparedInv'
<1> USE DEF At
<1>0. /\ \A c \in Attempts \ {a} :
            /\ hpc'[c] = hpc[c] /\ resume'[c] = resume[c] /\ agent_ns'[c] = agent_ns[c]
            /\ acquired'[c] = "none" <=> acquired[c] = "none"
      /\ attempt' = attempt
  BY StepOfThread DEF callVars
<1>1. \A c \in Attempts : Course(c)' \in DOMAIN PreparedAt => hpc'[c] \in DOMAIN PreparedAt
  BY PlaceFacts DEF Course, TypeOK, AgentSetup, PreparedLabels
<1>2. ASSUME NEW b \in Attempts PROVE held'[b] \cap Prepared = PreparedOf(b)'
  <2>1. held[b] \cap Prepared = PreparedOf(b)
    BY DEF PreparedInv
  <2>2. ASSUME NEW r \in Prepared, Prepare(a, r), b = a
        PROVE  held'[b] \cap Prepared = PreparedOf(b)'
    <3>1. hpc[a] = r /\ r \in AgentSetup
      BY <2>2, PrepareFacts DEF Prepare
    <3>2. agent_ns[a] = a /\ acquired[a] = "none" /\ held[a] \cap Prepared = AgentHeldAt(r)
      BY <3>1, AtAgentSetup
    <3>3. \/ /\ hpc'[a] = Acquisitions[r] /\ held'[a] = held[a] \cup {r}
             /\ acquired'[a] = IF r = "bus_name" THEN "due" ELSE "none"
          \/ hpc'[a] = FailsTo(r) /\ held'[a] = held[a] /\ acquired'[a] = "none"
      <4>1. \/ /\ UseState(a, a, {"ns"}, Acquisitions[r]) /\ held' = [held EXCEPT ![a] = @ \cup {r}]
               /\ acquired' = IF r = "bus_name" THEN [acquired EXCEPT ![a] = "due"] ELSE acquired
            \/ UseState(a, a, {"ns"}, FailsTo(r)) /\ UNCHANGED <<held, acquired>>
        BY <2>2, <3>2 DEF Prepare
      <4>2. /\ UseState(a, a, {"ns"}, Acquisitions[r]) => hpc'[a] = Acquisitions[r]
            /\ UseState(a, a, {"ns"}, FailsTo(r)) => hpc'[a] = FailsTo(r)
        BY AfterUse
      <4> QED BY <3>2, <4>1, <4>2 DEF TypeOK
    <3>4. CASE hpc'[a] = FailsTo(r) /\ held'[a] = held[a] /\ acquired'[a] = "none"
      <4>1. FailsTo(r) \notin ReportPlaces
        BY PrepareFacts, PlaceFacts DEF PreparedLabels, ReportPlaces
      <4> QED BY <2>2, <3>2, <3>4, <4>1, PrepareFacts DEF PreparedOf, AgentHeldAt, Course
    <3>5. CASE /\ r # "bus_name" /\ hpc'[a] = Acquisitions[r] /\ held'[a] = held[a] \cup {r}
               /\ acquired'[a] = "none"
      <4>1. Acquisitions[r] \notin ReportPlaces
        BY <3>5, PrepareFacts, PlaceFacts DEF ReportPlaces
      <4>2. held'[a] \cap Prepared = AgentHeldAt(Acquisitions[r])
        BY <3>2, <3>5, PrepareFacts
      <4> QED BY <2>2, <3>5, <4>1, <4>2 DEF PreparedOf, AgentHeldAt, Course
    <3>6. CASE /\ r = "bus_name" /\ hpc'[a] = Acquisitions[r] /\ held'[a] = held[a] \cup {r}
               /\ acquired'[a] = "due"
      <4>1. hpc'[a] = "publish"
        BY <3>6, PrepareFacts
      <4>2. Course(a)' \notin DOMAIN PreparedAt
        BY <4>1, PlaceFacts DEF Course, ReportPlaces, AgentSetup, PreparedLabels
      <4>3. held'[a] \cap Prepared = Prepared
        BY <3>2, <3>6, PrepareFacts
      <4> QED BY <2>2, <3>6, <4>2, <4>3 DEF PreparedOf
    <3> QED BY <3>3, <3>4, <3>5, <3>6
  <2>3. ASSUME NEW label \in PreparedLabels, Unprepare(a, label), b = a
        PROVE  held'[b] \cap Prepared = PreparedOf(b)'
    <3>1. hpc[a] = label /\ label \in AgentSetup
      BY <2>3, UnprepareFacts DEF Unprepare
    <3>2. agent_ns[a] = a /\ acquired[a] = "none" /\ held[a] \cap Prepared = AgentHeldAt(label)
      BY <3>1, AtAgentSetup
    <3>3. /\ hpc'[a] = FallsTo[label] /\ held'[a] = held[a] \ {Releases[label]}
          /\ acquired'[a] = "none"
      <4>1. /\ held' = [held EXCEPT ![a] = @ \ {Releases[label]}] /\ acquired' = acquired
            /\ UseState(a, a, {"ns", Releases[label]}, FallsTo[label])
        BY <2>3, <3>2 DEF Unprepare
      <4>2. hpc'[a] = FallsTo[label]
        BY <4>1, AfterUse
      <4> QED BY <3>2, <4>1, <4>2 DEF TypeOK
    <3>4. FallsTo[label] \notin ReportPlaces
      BY UnprepareFacts DEF ReportPlaces
    <3>5. held'[a] \cap Prepared = AgentHeldAt(FallsTo[label])
      BY <3>2, <3>3, UnprepareFacts
    <3> QED BY <2>3, <3>3, <3>4, <3>5 DEF PreparedOf, AgentHeldAt, Course
  <2>4. CASE b # a
    <3>1. (\E r \in Prepared : Prepare(a, r)) \/ (\E label \in PreparedLabels : Unprepare(a, label))
              => agent_ns[a] = a
      <4>1. ASSUME NEW r \in Prepared, Prepare(a, r) PROVE agent_ns[a] = a
        BY <4>1, AtAgentSetup, PrepareFacts DEF Prepare
      <4>2. ASSUME NEW label \in PreparedLabels, Unprepare(a, label) PROVE agent_ns[a] = a
        BY <4>2, AtAgentSetup, UnprepareFacts DEF Unprepare
      <4> QED BY <4>1, <4>2
    <3>2. held'[b] \cap Prepared = held[b] \cap Prepared
      BY <2>4, <3>1, PreparedKept
    <3> QED BY <1>0, <2>1, <2>4, <3>2 DEF PreparedOf, Course
  <2>5. CASE /\ b = a
             /\ ~ \E r \in Prepared : Prepare(a, r)
             /\ ~ \E label \in PreparedLabels : Unprepare(a, label)
    <3>1. held'[a] \cap Prepared = held[a] \cap Prepared
      BY <2>5, PreparedKept
    <3>2. hpc'[a] \notin DOMAIN PreparedAt
      BY <2>5, WaysTo, PlaceFacts
    <3>3. acquired'[a] = "none" <=> acquired[a] = "none"
      BY <2>5, HandlerAcquired, PlaceFacts
    <3>4. Course(a) \in DOMAIN PreparedAt => hpc[a] \in DOMAIN PreparedAt
      BY PlaceFacts DEF Course, TypeOK, AgentSetup, PreparedLabels
    <3>5. hpc[a] \notin DOMAIN PreparedAt
      <4>1. ASSUME hpc[a] \in DOMAIN PreparedAt PROVE FALSE
        <5>1. hpc[a] \in {"introspection", "bus_name", "out_no_introspection_data",
                          "out_no_bus_name"}
          BY <4>1 DEF PreparedAt
        <5>2. ~ \E r \in DOMAIN Acquisitions \ Prepared : Acquire(a, r)
          BY <5>1, PlaceFacts DEF Acquire
        <5>3. ~ \E label \in Labels \ PreparedLabels : Unwind(a, label)
          BY <5>1, PlaceFacts DEF Unwind, PreparedLabels
        <5> QED
          BY <2>5, <5>1, <5>2, <5>3 DEF Handler, SignalInitDone, OnBusAcquired, SetNs, ChooseAgent,
             RereadNs, Fail, SignalLock, SignalSetDone, SignalSetRc, SignalCond, SignalUnlock,
             Publish, RunLoop, BusAcquired, ExportAgent, RegisterAgent
      <4> QED BY <4>1
    <3> QED BY <1>1, <2>1, <2>5, <3>1, <3>2, <3>3, <3>4, <3>5 DEF PreparedOf
  <2> QED BY <2>2, <2>3, <2>4, <2>5
<1>3. ASSUME NEW b \in Attempts, hpc'[b] \in AgentSetup PROVE agent_ns'[b] = b
  <2>1. CASE b # a
    BY <1>0, <1>3, <2>1 DEF PreparedInv
  <2>2. CASE b = a /\ hpc'[a] = "agent_path"
    <3>1. RereadNs(a)
      BY <2>2, WaysTo
    <3>2. Live(a) /\ Hits(a)
      BY <3>1, FreshUse DEF RereadNs
    <3>3. id_ns = a
      BY <3>1, <3>2 DEF RereadNs, AgentInv, Live
    <3> QED BY <2>2, <3>1, <3>2, <3>3 DEF RereadNs, TypeOK
  <2>3. CASE b = a /\ hpc'[a] # "agent_path"
    <3>1. \/ \E r \in Prepared : Prepare(a, r)
          \/ \E label \in PreparedLabels : Unprepare(a, label)
      BY <1>3, <2>3, WaysTo
    <3>2. hpc[a] \in AgentSetup /\ agent_ns' = agent_ns
      <4>1. ASSUME NEW r \in Prepared, Prepare(a, r)
            PROVE  hpc[a] \in AgentSetup /\ agent_ns' = agent_ns
        BY <4>1, PrepareFacts DEF Prepare, reportVars
      <4>2. ASSUME NEW label \in PreparedLabels, Unprepare(a, label)
            PROVE  hpc[a] \in AgentSetup /\ agent_ns' = agent_ns
        BY <4>2, UnprepareFacts DEF Unprepare, reportVars
      <4> QED BY <3>1, <4>1, <4>2
    <3> QED BY <2>3, <3>2 DEF PreparedInv
  <2> QED BY <2>1, <2>2, <2>3
<1>4. ASSUME NEW b \in Attempts, hpc'[b] = "choose", b = attempt' PROVE id_ns' = b
  <2>1. CASE SetNs(a)
    <3>1. Live(a) /\ Hits(a)
      BY <2>1, FreshUse DEF SetNs
    <3> QED BY <1>0, <1>4, <2>1, <3>1 DEF SetNs, Live
  <2>2. CASE ~SetNs(a)
    <3>1. b # a /\ id_ns' = id_ns
      BY <1>4, <2>2, WaysTo, IdNsKept
    <3> QED BY <1>0, <1>4, <3>1 DEF PreparedInv
  <2> QED BY <2>1, <2>2
<1> QED BY <1>2, <1>3, <1>4 DEF PreparedInv

LEMMA WaysToReport ==
    ASSUME TypeOK, NEW a \in Attempts, NoSignal(a)
    PROVE  /\ hpc'[a] \in ReportPlaces =>
                 ChooseAgent(a) \/ Fail(a) \/ ExportAgent(a) \/ RegisterAgent(a)
           /\ hpc'[a] \in AgentPlaces =>
                 ExportAgent(a) \/ \E b \in Attempts : BusAcquired(a, b)
           /\ hpc'[a] = "publish" =>
                 UseState(a, agent_ns[a], {"ns"}, "publish") /\ acquired'[a] = "due"
<1>0. /\ (SetupPlaces \cup {"publish", "crashed", "run_loop", "loop"}) \cap
             (ReportPlaces \cup AgentPlaces) = {}
      /\ ReportPlaces \cap AgentPlaces = {}
      /\ "publish" \notin SetupPlaces \cup ReportPlaces \cup AgentPlaces
  BY NowhereElse DEF ReportPlaces, RunPlaces, AgentPlaces
<1>1. CASE \/ \E r \in DOMAIN Acquisitions \ Prepared : Acquire(a, r)
           \/ \E label \in Labels \ PreparedLabels : Unwind(a, label)
           \/ \E label \in PreparedLabels : Unprepare(a, label)
  <2>1. ASSUME NEW r \in DOMAIN Acquisitions \ Prepared, Acquire(a, r)
        PROVE  hpc'[a] \in SetupPlaces
    <3>1. hpc'[a] \in {Acquisitions[r], FailsTo(r)}
      BY <2>1, AfterUse DEF Acquire
    <3> QED BY <3>1, AcquireFacts, PlaceFacts
  <2>2. ASSUME NEW label \in Labels \ PreparedLabels, Unwind(a, label)
        PROVE  hpc'[a] \in SetupPlaces
    BY <2>2, AfterUse, UnwindFacts, PlaceFacts DEF Unwind
  <2>3. ASSUME NEW label \in PreparedLabels, Unprepare(a, label)
        PROVE  hpc'[a] \in SetupPlaces \cup {"crashed"}
    <3>1. hpc'[a] \in {FallsTo[label], "crashed"}
      BY <2>3, AfterUse DEF Unprepare
    <3>2. FallsTo[label] \in SetupPlaces
      BY UnprepareFacts, PlaceFacts DEF PreparedLabels
    <3> QED BY <3>1, <3>2
  <2>4. hpc'[a] \in SetupPlaces \cup {"crashed"}
    BY <1>1, <2>1, <2>2, <2>3
  <2> QED BY <1>0, <2>4
<1>2. ASSUME NEW r \in Prepared, Prepare(a, r)
      PROVE  /\ hpc'[a] \notin ReportPlaces \cup AgentPlaces
             /\ hpc'[a] = "publish" =>
                   UseState(a, agent_ns[a], {"ns"}, "publish") /\ acquired'[a] = "due"
  <2>1. hpc'[a] \in {Acquisitions[r], FailsTo(r), "crashed"}
    BY <1>2, AfterUse DEF Prepare
  <2>2. /\ Acquisitions[r] \in SetupPlaces \cup {"publish"} /\ FailsTo(r) \in SetupPlaces
    BY PrepareFacts, PlaceFacts
  <2>3. ASSUME hpc'[a] = "publish"
        PROVE  UseState(a, agent_ns[a], {"ns"}, "publish") /\ acquired'[a] = "due"
    <3>1. ~UseState(a, agent_ns[a], {"ns"}, FailsTo(r))
      BY <1>0, <2>2, <2>3, AfterUse
    <3>2. hpc'[a] = Acquisitions[r]
      BY <1>0, <2>1, <2>2, <2>3
    <3>3. Acquisitions[r] = "publish" /\ r = "bus_name"
      BY <2>3, <3>2, PrepareFacts
    <3> QED BY <1>2, <3>1, <3>3 DEF Prepare, TypeOK
  <2> QED BY <1>0, <2>1, <2>2, <2>3
<1>3. CASE Publish(a) \/ RunLoop(a) \/ OnBusAcquired(a)
  <2>1. /\ Publish(a) => hpc'[a] = "run_loop"
        /\ RunLoop(a) => hpc'[a] = "loop"
        /\ \A b \in Attempts : BusAcquired(a, b) => hpc'[a] \in {"register_object", "crashed"}
        /\ ExportAgent(a) => hpc'[a] \in {"call_connman", "lock_id", "crashed"}
        /\ RegisterAgent(a) => hpc'[a] \in {"lock_id", "crashed"}
    BY AfterUse DEF Publish, RunLoop, BusAcquired, ExportAgent, RegisterAgent
  <2> QED BY <1>3, <2>1 DEF OnBusAcquired, ReportPlaces, AgentPlaces
<1>4. CASE ChooseAgent(a) \/ Fail(a)
  <2>1. hpc'[a] \in {"reread_ns", "lock_id", "crashed"}
    BY <1>4, AfterUse DEF ChooseAgent, Fail
  <2> QED BY <1>4, <2>1 DEF AgentPlaces
<1>5. CASE SetNs(a) \/ RereadNs(a)
  <2>1. hpc'[a] \in {"choose", "agent_path", "crashed"}
    BY <1>5, AfterUse DEF SetNs, RereadNs
  <2> QED BY <2>1 DEF AgentPlaces, ReportPlaces
<1> QED BY <1>1, <1>2, <1>3, <1>4, <1>5 DEF NoSignal, Handler

LEMMA IntoRun ==
    ASSUME TypeOK, HoldInv, NEW a \in Attempts, Handler(a), MutexInv, ~stale',
           Course(a)' \in RunPlaces, Course(a) \notin RunPlaces
    PROVE  ~register_agent \/ acquired'[a] # "none"
<1>1. CASE ChooseAgent(a)
  <2>1. Hits(a)
    BY <1>1, FreshUse DEF ChooseAgent
  <2>2. register_agent => hpc'[a] = "reread_ns"
    BY <1>1, <2>1, FreshUse DEF ChooseAgent
  <2> QED BY <2>2, PlaceFacts DEF Course, ReportPlaces, RunPlaces, AgentPlaces
<1>2. CASE SignalInitDone(a)
  <2>1. Course(a)' = Course(a)
    <3>1. CASE SignalUnlock(a)
      BY <3>1, FreshSignal DEF Course, ReportPlaces, TypeOK
    <3>2. CASE SignalLock(a) \/ SignalSetDone(a) \/ SignalSetRc(a) \/ SignalCond(a)
      <4>1. resume' = resume
        BY <3>2 DEF SignalLock, SignalSetDone, SignalSetRc, SignalCond, reportVars
      <4> QED BY <3>2, <4>1, FreshSignal DEF Course, ReportPlaces
    <3> QED BY <1>2, <3>1, <3>2 DEF SignalInitDone
  <2> QED BY <2>1
<1>3. CASE ~ChooseAgent(a) /\ NoSignal(a)
  <2>1. Course(a) = hpc[a]
    BY <1>3, WithoutSignal DEF Course
  <2>2. ~(Publish(a) \/ RunLoop(a) \/ OnBusAcquired(a))
    BY <2>1 DEF Publish, RunLoop, OnBusAcquired, ExportAgent, RegisterAgent, BusAcquired, At,
                RunPlaces, AgentPlaces
  <2>3. ~Fail(a)
    BY AfterUse DEF Fail, Course, ReportPlaces, RunPlaces, AgentPlaces
  <2>4. hpc'[a] \notin ReportPlaces \cup AgentPlaces
    BY <1>3, <2>2, <2>3, WaysToReport DEF OnBusAcquired
  <2>5. hpc'[a] \in {"publish", "run_loop", "loop"}
    BY <2>4 DEF Course, RunPlaces
  <2>6. SetsUp(a)
    <3>1. ~ReportsOn(a)
      BY <1>3, WithoutSignal DEF ReportsOn
    <3>2. ~BeginsReport(a)
      BY <2>5 DEF BeginsReport
    <3>3. ~(GoesToLoop(a) \/ Registers(a) \/ \E b \in Attempts : IsNotified(a, b))
      BY <2>1 DEF GoesToLoop, Registers, IsNotified, RunPlaces
    <3> QED BY <3>1, <3>2, <3>3, Moves
  <2>7. hpc'[a] = "publish"
    BY <2>5, <2>6, NowhereElse DEF SetsUp, RunPlaces
  <2> QED BY <1>3, <2>7, WaysToReport
<1> QED BY <1>1, <1>2, <1>3 DEF NoSignal

LEMMA HandlerKeepsAgents ==
    ASSUME TypeOK, HoldInv, OneReporter, MutexInv, PreparedInv, AgentInv,
           NEW a \in Attempts, Handler(a), ~stale', hpc'[a] \notin {"hung", "crashed"}
    PROVE  AgentInv'
<1> USE DEF At
<1>0. /\ \A c \in Attempts \ {a} : /\ hpc'[c] = hpc[c] /\ id'[c] = id[c]
                                   /\ agent_ns'[c] = agent_ns[c] /\ resume'[c] = resume[c]
      /\ attempt' = attempt /\ register_agent' = register_agent
  BY StepOfThread DEF callVars
<1>1. ASSUME NEW b \in Attempts PROVE hpc'[b] # "hung"
  BY <1>0 DEF AgentInv
<1>2. ASSUME NEW b \in Attempts, acquired'[b] # "done" PROVE AgentOf(b)' = {}
  <2>1. acquired[b] # "done"
    BY <1>2, HandlerAcquired
  <2>2. ExportAgent(a) \/ RegisterAgent(a) => b # agent_ns[a]
    <3>1. ExportAgent(a) \/ RegisterAgent(a) => hpc[a] \in AgentPlaces
      BY DEF ExportAgent, RegisterAgent, AgentPlaces
    <3> QED BY <2>1, <3>1, TheAgent
  <2> QED BY <2>1, <2>2, AgentOfKept DEF AgentInv
<1>3. ASSUME NEW b \in Attempts,
             acquired'[b] # "none" \/ hpc'[b] \in Prepared \cup {"reread_ns"}
      PROVE  register_agent /\ (b = attempt => id_ns' = b)
  <2>1. CASE acquired[b] # "none" \/ hpc[b] \in Prepared \cup {"reread_ns"}
    BY <2>1, IdNsKept DEF AgentInv, Live
  <2>2. CASE ~(acquired[b] # "none" \/ hpc[b] \in Prepared \cup {"reread_ns"})
    <3>1. acquired'[b] = "none"
      BY <2>2, HandlerAcquired, PlaceFacts
    <3>2. b = a
      BY <1>0, <1>3, <2>2, <3>1
    <3>3. ChooseAgent(a)
      <4>1. CASE hpc'[a] = "reread_ns"
        BY <4>1, WaysTo
      <4>2. CASE hpc'[a] = "agent_path"
        BY <2>2, <3>2, <4>2, WaysTo DEF RereadNs
      <4>3. CASE hpc'[a] \in Prepared \ {"agent_path"}
        <5>1. \/ \E r \in Prepared : Prepare(a, r)
              \/ \E label \in PreparedLabels : Unprepare(a, label)
          BY <4>3, WaysTo DEF AgentSetup
        <5>2. ASSUME NEW label \in PreparedLabels, Unprepare(a, label) PROVE FALSE
          <6>1. hpc'[a] = FallsTo[label]
            BY <5>2, AfterUse DEF Unprepare
          <6> QED BY <4>3, <6>1, UnprepareFacts, PlaceFacts
        <5> QED BY <2>2, <3>2, <5>1, <5>2 DEF Prepare
      <4> QED BY <1>3, <3>1, <3>2, <4>1, <4>2, <4>3
    <3>4. Live(a) /\ Hits(a) /\ hpc[a] = "choose"
      BY <3>3, FreshUse DEF ChooseAgent
    <3>5. register_agent
      <4>1. ~register_agent => hpc'[a] = "lock_id"
        BY <3>3, <3>4, FreshUse DEF ChooseAgent
      <4> QED BY <1>3, <3>1, <3>2, <4>1, PlaceFacts
    <3>6. id_ns' = id_ns
      BY <3>4, IdNsKept DEF SetNs
    <3> QED BY <3>2, <3>4, <3>5, <3>6 DEF PreparedInv, Live
  <2> QED BY <2>1, <2>2
<1>4. ASSUME NEW b \in Attempts, hpc'[b] \in PreparedLabels PROVE register_agent
  <2>1. CASE b # a
    BY <1>0, <1>4, <2>1 DEF AgentInv
  <2>2. CASE b = a
    <3>1. hpc'[a] \in AgentSetup \ {"agent_path"}
      BY <1>4, <2>2 DEF AgentSetup, PreparedLabels
    <3>2. \/ \E r \in Prepared : Prepare(a, r)
          \/ \E label \in PreparedLabels : Unprepare(a, label)
      BY <3>1, WaysTo
    <3>3. hpc[a] \in Prepared \cup PreparedLabels
      BY <3>2 DEF Prepare, Unprepare
    <3> QED BY <3>3 DEF AgentInv
  <2> QED BY <2>1, <2>2
<1>5. ASSUME NEW b \in Attempts, Course(b)' \in RunPlaces, register_agent
      PROVE  acquired'[b] # "none"
  <2>1. acquired[b] # "none" => acquired'[b] # "none"
    BY HandlerAcquired
  <2>2. CASE Course(b) \in RunPlaces
    BY <1>5, <2>1, <2>2 DEF AgentInv
  <2>3. CASE Course(b) \notin RunPlaces
    <3>1. b = a
      BY <1>0, <1>5, <2>3 DEF Course
    <3> QED BY <1>5, <2>3, <3>1, IntoRun
  <2> QED BY <2>2, <2>3
<1>6. ASSUME NEW b \in Attempts, hpc'[b] \in AgentPlaces
      PROVE  /\ agent_ns'[b] = id'[b] /\ acquired'[id'[b]] = "done"
             /\ held'[id'[b]] \cap {"agent_object", "agent"}
                    = IF hpc'[b] = "call_connman" THEN {"agent_object"} ELSE {}
  <2> DEFINE Agent(d) == held'[d] \cap {"agent_object", "agent"}
  <2>0. \A d \in Attempts : acquired[d] = "done" => acquired'[d] = "done"
    BY HandlerAcquired
  <2>1. CASE b # a
    <3>1. /\ hpc'[b] = hpc[b] /\ id'[b] = id[b] /\ agent_ns'[b] = agent_ns[b]
          /\ id[b] \in Attempts
      BY <1>0, <2>1, NumbersAre
    <3>2. ExportAgent(a) \/ RegisterAgent(a) => id[b] # agent_ns[a]
      <4>1. ASSUME ExportAgent(a) \/ RegisterAgent(a), id[b] = agent_ns[a] PROVE FALSE
        <5>1. hpc[a] \in AgentPlaces
          BY <4>1 DEF ExportAgent, RegisterAgent, AgentPlaces
        <5>2. Using(a, id[b]) /\ Using(b, id[b])
          BY <1>6, <3>1, <4>1, <5>1, TheAgent DEF Using
        <5> QED BY <2>1, <3>1, <5>2 DEF OneReporter
      <4> QED BY <4>1
    <3>3. ASSUME NEW d \in Attempts, d = id[b] PROVE Agent(d) = AgentOf(d)
      BY <3>2, <3>3, AgentOfKept DEF AgentOf
    <3>4. Agent(id[b]) = AgentOf(id[b])
      BY <3>1, <3>3
    <3> QED BY <1>6, <2>0, <3>1, <3>4, TheAgent
  <2>2. CASE b = a
    <3>0. NoSignal(a)
      <4>1. ASSUME SignalInitDone(a) PROVE FALSE
        <5>1. hpc'[a] \in {"set_done", "set_rc", "signal_cond", "unlock_id", resume[a]}
          BY <4>1, FreshSignal DEF SignalInitDone
        <5> QED BY <1>6, <2>2, <5>1 DEF TypeOK, AgentPlaces
      <4> QED BY <4>1 DEF NoSignal
    <3>1. (\E d \in Attempts : BusAcquired(a, d)) \/ ExportAgent(a)
      BY <1>6, <2>2, <3>0, WaysToReport
    <3>2. ASSUME NEW d \in Attempts, BusAcquired(a, d)
          PROVE  /\ agent_ns'[a] = id'[a] /\ acquired'[id'[a]] = "done"
                 /\ Agent(id'[a]) = {} /\ hpc'[a] = "register_object"
      <4>1. Live(d) /\ Hits(d) /\ id'[a] = d /\ agent_ns'[a] = id_ns
        <5>1. Live(d) /\ Hits(d)
          BY <3>2, FreshUse DEF BusAcquired
        <5> QED BY <3>2, <5>1 DEF BusAcquired, TypeOK
      <4>2. acquired[d] = "due" /\ acquired'[d] = "done" /\ held' = held
        BY <3>2 DEF BusAcquired, TypeOK
      <4>3. id_ns = d /\ AgentOf(d) = {}
        BY <4>1, <4>2 DEF AgentInv, Live
      <4>4. hpc'[a] = "register_object"
        BY <3>2, AfterUse DEF BusAcquired
      <4> QED BY <4>1, <4>2, <4>3, <4>4 DEF AgentOf
    <3>3. ASSUME ExportAgent(a)
          PROVE  /\ agent_ns'[a] = id'[a] /\ acquired'[id'[a]] = "done"
                 /\ Agent(id'[a]) = {"agent_object"} /\ hpc'[a] = "call_connman"
      <4>1. /\ agent_ns[a] = id[a] /\ acquired[id[a]] = "done" /\ AgentOf(id[a]) = {}
            /\ id[a] \in Attempts
        BY <3>3, TheAgent, NumbersAre DEF ExportAgent, AgentPlaces
      <4>2. hpc'[a] # "lock_id"
        BY <1>6, <2>2 DEF AgentPlaces
      <4>3. ~UseState(a, agent_ns[a], {"ns"}, "lock_id")
        BY <4>2, AfterUse
      <4>4. /\ held' = [held EXCEPT ![agent_ns[a]] = @ \cup {"agent_object"}]
            /\ UseState(a, agent_ns[a], {"ns"}, "call_connman") /\ UNCHANGED reportVars
        BY <3>3, <4>3 DEF ExportAgent
      <4>5. hpc'[a] = "call_connman"
        BY <4>2, <4>4, AfterUse
      <4>6. Agent(id[a]) = {"agent_object"}
        <5>1. held'[id[a]] = held[id[a]] \cup {"agent_object"}
          BY <4>1, <4>4 DEF TypeOK
        <5> QED BY <4>1, <5>1 DEF AgentOf
      <4> QED BY <2>0, <4>1, <4>4, <4>5, <4>6 DEF reportVars
    <3> QED BY <2>2, <3>1, <3>2, <3>3
  <2> QED BY <2>1, <2>2
<1> QED
  BY <1>0, <1>1, <1>2, <1>3, <1>4, <1>5, <1>6 DEF AgentInv, AgentOf

-------------------------------------------------------------------------------
(* The reports.                                                             *)

LEMMA HeldKept ==
    ASSUME TypeOK, HoldInv, PreparedInv, NEW a \in Attempts, Handler(a), NEW b \in Attempts,
           hpc[b] \notin SetupPlaces,
           hpc[a] \in AgentPlaces => b # agent_ns[a]
    PROVE  held'[b] = held[b]
<1> USE DEF TypeOK, At
<1>1. CASE \E r \in DOMAIN Acquisitions \ Prepared : Acquire(a, r)
  BY <1>1, AcquireFacts DEF Acquire
<1>2. CASE \E label \in Labels \ PreparedLabels : Unwind(a, label)
  BY <1>2, UnwindFacts DEF Unwind
<1>3. ASSUME NEW r \in Prepared, Prepare(a, r) PROVE held'[b] = held[b]
  <2>1. hpc[a] = r /\ r \in SetupPlaces /\ r \in AgentSetup
    BY <1>3, PrepareFacts DEF Prepare
  <2>2. agent_ns[a] = a /\ b # a
    BY <2>1 DEF PreparedInv
  <2> QED BY <1>3, <2>2 DEF Prepare
<1>4. ASSUME NEW label \in PreparedLabels, Unprepare(a, label) PROVE held'[b] = held[b]
  <2>1. hpc[a] = label /\ label \in SetupPlaces /\ label \in AgentSetup
    BY <1>4, UnprepareFacts DEF Unprepare
  <2>2. agent_ns[a] = a /\ b # a
    BY <2>1 DEF PreparedInv
  <2> QED BY <1>4, <2>2 DEF Unprepare
<1>5. CASE ExportAgent(a) \/ RegisterAgent(a)
  BY <1>5 DEF ExportAgent, RegisterAgent, AgentPlaces
<1>6. CASE \/ SetNs(a) \/ ChooseAgent(a) \/ RereadNs(a) \/ Fail(a) \/ SignalInitDone(a)
           \/ Publish(a) \/ RunLoop(a) \/ \E d \in Attempts : BusAcquired(a, d)
  <2>1. held' = held
    BY <1>6 DEF SetNs, ChooseAgent, RereadNs, Fail, SignalInitDone, SignalLock, SignalSetDone,
                SignalSetRc, SignalCond, SignalUnlock, Publish, RunLoop, BusAcquired, libVars
  <2> QED BY <2>1
<1> QED BY <1>1, <1>2, <1>3, <1>4, <1>5, <1>6 DEF Handler, OnBusAcquired

LEMMA ReportsKept ==
    ASSUME TypeOK, NEW a \in Attempts, Handler(a), NEW b \in Attempts, NEW verdict,
           Reports(b, verdict), held'[b] = held[b]
    PROVE  Reports(b, verdict)'
<1>1. /\ register_agent' = register_agent
      /\ g_connman_state # 0 => g_connman_state' # 0
      /\ failed \subseteq failed'
  BY StepOfThread, NumbersAre DEF callVars
<1> QED BY <1>1 DEF Reports, Left, Wanted

(* What the thread that reports works for is not touched by the others.     *)
LEMMA ReportedHeldKept ==
    ASSUME TypeOK, HoldInv, OneReporter, PreparedInv, AgentInv,
           NEW a \in Attempts, Handler(a), NEW c \in Attempts, hpc[c] \in ReportPlaces
    PROVE  held'[id[c]] = held[id[c]]
<1>1. id[c] \in Attempts /\ Using(c, id[c])
  BY NumbersAre DEF Using
<1>2. hpc[id[c]] \notin SetupPlaces
  BY <1>1 DEF OneReporter
<1>3. hpc[a] \in AgentPlaces => id[c] # agent_ns[a]
  <2>1. ASSUME hpc[a] \in AgentPlaces, id[c] = agent_ns[a] PROVE FALSE
    <3>1. Using(a, id[c])
      BY <2>1, TheAgent DEF Using
    <3>2. a = c
      BY <1>1, <3>1 DEF OneReporter
    <3> QED BY <2>1, <3>2 DEF AgentPlaces, ReportPlaces
  <2> QED BY <2>1
<1> QED BY <1>1, <1>2, <1>3, HeldKept

LEMMA WhatIsHeld ==
    ASSUME TypeOK, NEW b \in Attempts
    PROVE  held[b] = Own(b) \cup (held[b] \cap Prepared) \cup AgentOf(b)
<1>1. Resources = Connected \cup Prepared \cup {"agent_object", "agent"}
  BY PlaceFacts DEF Resources
<1> QED BY <1>1 DEF TypeOK, Own, AgentOf

LEMMA NothingPrepared ==
    ASSUME PreparedInv, AgentInv, NEW b \in Attempts,
           acquired[b] = "none", Course(b) \in {"err_no_loop", "exited"}
    PROVE  held[b] \cap Prepared = {} /\ AgentOf(b) = {}
<1>1. Course(b) \notin DOMAIN PreparedAt
  BY PlaceFacts DEF AgentSetup, PreparedLabels
<1> QED BY <1>1 DEF PreparedInv, PreparedOf, AgentInv

LEMMA ReportBegins ==
    ASSUME TypeOK, HoldInv, FailInv, PreparedInv, AgentInv, NEW a \in Attempts, NoSignal(a),
           Alive, ~stale', hpc'[a] \in ReportPlaces
    PROVE  Reports(id[a], outcome[a])'
<1> USE DEF At
<1>0. /\ register_agent' = register_agent /\ id[a] \in Attempts
      /\ g_connman_state # 0 => g_connman_state' # 0
  BY StepOfThread, NumbersAre DEF callVars, NoSignal
<1>1. CASE ChooseAgent(a)
  <2>1. Hits(a)
    BY <1>1, FreshUse DEF ChooseAgent
  <2>2. register_agent => hpc'[a] = "reread_ns"
    BY <1>1, <2>1, FreshUse DEF ChooseAgent
  <2>3. ~register_agent
    BY <2>2 DEF ReportPlaces
  <2>4. outcome'[a] = TRUE /\ id'[a] = a /\ held'[a] = held[a]
    <3>1. Signal(a, a, TRUE, AfterSignal) /\ UNCHANGED libVars
      <4>1. PICK agent \in {register_agent} :
                 IF agent
                 THEN UseId(a, a, "reread_ns") /\ UNCHANGED <<id, outcome, resume>>
                 ELSE UseId(a, a, "lock_id") /\ Signal(a, a, TRUE, AfterSignal)
        BY <1>1, <2>1 DEF ChooseAgent
      <4>2. ~agent
        BY <2>3, <4>1
      <4> QED BY <1>1, <4>1, <4>2 DEF ChooseAgent
    <3> QED BY <3>1, AfterUse DEF libVars
  <2>5. Own(a) = Connected
    <3>1. hpc[a] = "choose" /\ "choose" \in SetupPlaces /\ HeldAt["choose"] = Connected
      BY <1>1, PlaceFacts DEF ChooseAgent, HeldAt
    <3> QED BY <3>1, AtSetup DEF HoldInv
  <2> QED BY <1>0, <2>3, <2>4, <2>5 DEF Reports, Wanted, Own
<1>2. CASE Fail(a)
  <2>1. /\ outcome'[a] = FALSE /\ id'[a] = a /\ held'[a] = held[a] /\ hpc[a] = "err_no_loop"
        /\ failed' = failed
    BY <1>2, AfterUse DEF Fail, libVars
  <2>2. Own(a) = {} /\ acquired[a] = "none" /\ Course(a) = "err_no_loop"
    <3>1. "err_no_loop" \in SetupPlaces /\ HeldAt["err_no_loop"] = {}
      BY PlaceFacts DEF HeldAt
    <3> QED BY <2>1, <3>1, AtSetup DEF HoldInv
  <2>3. held[a] = {}
    BY <2>2, WhatIsHeld, NothingPrepared
  <2>4. a \in failed
    BY <2>1 DEF FailInv
  <2> QED BY <2>1, <2>3, <2>4 DEF Reports, Left
<1>3. ASSUME hpc[a] \in AgentPlaces
      PROVE  /\ agent_ns[a] = id[a] /\ register_agent
             /\ held[id[a]] = Connected \cup Prepared
                                  \cup IF hpc[a] = "call_connman" THEN {"agent_object"} ELSE {}
             /\ g_connman_state # 0
  <2>1. /\ agent_ns[a] = id[a] /\ acquired[id[a]] = "done"
        /\ AgentOf(id[a]) = IF hpc[a] = "call_connman" THEN {"agent_object"} ELSE {}
    BY <1>3, TheAgent
  <2>2. /\ Own(id[a]) = Connected /\ held[id[a]] \cap Prepared = Prepared /\ register_agent
        /\ held[id[a]] = Own(id[a]) \cup (held[id[a]] \cap Prepared) \cup AgentOf(id[a])
    BY <1>0, <2>1, WithBusName, WhatIsHeld DEF AgentInv
  <2>3. g_connman_state # 0
    BY <1>3, NowhereElse DEF HoldInv, Holds, Course, AgentPlaces
  <2> QED BY <2>1, <2>2, <2>3
<1>4. CASE ExportAgent(a)
  <2>1. hpc[a] = "register_object" /\ hpc[a] \in AgentPlaces
    BY <1>4 DEF ExportAgent, AgentPlaces
  <2>2. /\ agent_ns[a] = id[a] /\ register_agent /\ held[id[a]] = Connected \cup Prepared
        /\ g_connman_state # 0 /\ {"ns"} \subseteq held[id[a]]
    BY <1>3, <2>1, PlaceFacts
  <2>3. ~UseState(a, agent_ns[a], {"ns"}, "call_connman")
    BY <2>2, StateIsThere DEF ReportPlaces
  <2>4. /\ Signal(a, id[a], FALSE, "loop") /\ held' = held /\ failed' = failed \cup {id[a]}
    BY <1>4, <2>3 DEF ExportAgent
  <2>5. outcome'[a] = FALSE /\ id'[a] = id[a]
    BY <2>4, AfterUse
  <2> QED BY <1>0, <2>2, <2>4, <2>5 DEF Reports, Left
<1>5. CASE RegisterAgent(a)
  <2>1. hpc[a] = "call_connman" /\ hpc[a] \in AgentPlaces
    BY <1>5 DEF RegisterAgent, AgentPlaces
  <2>2. PICK accepted \in BOOLEAN :
             /\ held' = [held EXCEPT ![agent_ns[a]] = AfterReply(accepted, @)]
             /\ failed' = IF accepted THEN failed ELSE failed \cup {id[a]}
             /\ Signal(a, id[a], accepted, "loop")
    BY <1>5 DEF RegisterAgent
  <2>3. outcome'[a] = accepted /\ id'[a] = id[a]
    BY <2>2, AfterUse
  <2>4. held'[id[a]] = AfterReply(accepted, held[id[a]])
    BY <1>0, <1>3, <2>1, <2>2 DEF TypeOK
  <2>5. held[id[a]] = Connected \cup Prepared \cup {"agent_object"}
    BY <1>3, <2>1
  <2>6. CASE accepted
    BY <1>0, <1>3, <2>1, <2>3, <2>4, <2>5, <2>6 DEF AfterReply, Reports, Wanted, WithAgent
  <2>7. CASE ~accepted
    <3>1. "agent_object" \notin Connected \cup Prepared
      BY PlaceFacts
    <3>2. held'[id[a]] = Connected \cup Prepared
      BY <2>4, <2>5, <2>7, <3>1 DEF AfterReply
    <3> QED BY <1>0, <1>3, <2>1, <2>2, <2>3, <2>7, <3>2 DEF Reports, Left
  <2> QED BY <2>6, <2>7
<1> QED BY <1>1, <1>2, <1>4, <1>5, WaysToReport

LEMMA HandlerKeepsReports ==
    ASSUME TypeOK, HoldInv, FailInv, OneReporter, MutexInv, PreparedInv, AgentInv, ReportInv,
           NEW a \in Attempts, Handler(a), Alive, ~stale'
    PROVE  ReportInv'
<1> USE DEF At
<1>0. /\ \A c \in Attempts \ {a} : /\ hpc'[c] = hpc[c] /\ id'[c] = id[c]
                                   /\ outcome'[c] = outcome[c]
      /\ attempt' = attempt
      /\ InCall' => InCall
      /\ init_done => init_done'
  BY StepOfThread, CallAfterHandler DEF callVars, InCall
<1>1. ASSUME SignalInitDone(a), hpc'[a] \in ReportPlaces
      PROVE  /\ hpc[a] \in ReportPlaces \ {"unlock_id"} /\ Live(id[a]) /\ ~SignalUnlock(a)
             /\ id'[a] = id[a] /\ outcome'[a] = outcome[a]
  <2>1. ~SignalUnlock(a)
    <3>1. SignalUnlock(a) => hpc'[a] = resume[a]
      BY FreshSignal
    <3> QED BY <1>1, <3>1 DEF TypeOK, ReportPlaces
  <2>2. outcome' = outcome
    BY <1>1, <2>1 DEF SignalInitDone, SignalLock, SignalSetDone, SignalSetRc, SignalCond,
                      reportVars
  <2> QED BY <1>1, <2>1, <2>2, FreshSignal DEF SignalInitDone, ReportPlaces
<1>2. ASSUME NEW c \in Attempts, hpc'[c] \in ReportPlaces
      PROVE  Reports(id[c], outcome[c])'
  <2>1. CASE c # a \/ SignalInitDone(a)
    <3>1. id'[c] = id[c] /\ outcome'[c] = outcome[c] /\ hpc[c] \in ReportPlaces
      BY <1>0, <1>1, <1>2, <2>1
    <3>2. held'[id[c]] = held[id[c]] /\ id[c] \in Attempts /\ Reports(id[c], outcome[c])
      BY <3>1, ReportedHeldKept, NumbersAre DEF ReportInv
    <3>3. ASSUME NEW d \in Attempts, NEW v, d = id[c], v = outcome[c] PROVE Reports(d, v)'
      BY <3>2, <3>3, ReportsKept
    <3> QED BY <3>1, <3>2, <3>3
  <2>2. CASE c = a /\ NoSignal(a)
    BY <1>2, <2>2, ReportBegins
  <2> QED BY <2>1, <2>2 DEF NoSignal
<1>3. ASSUME NEW c \in Attempts, hpc'[c] \in ReportPlaces \ {"lock_id"}
      PROVE  /\ id'[c] = id[c] /\ (c # a => hpc'[c] = hpc[c])
             /\ c = a => SignalInitDone(a) /\ Live(id[a]) /\ ~SignalUnlock(a)
  BY <1>0, <1>1, <1>3, WithoutSignal DEF NoSignal
<1>4. ASSUME NEW c \in Attempts, hpc'[c] \in ReportPlaces \ {"lock_id", "set_done"},
             InCall', attempt' = id'[c]
      PROVE  init_done'
  <2>1. CASE c # a
    <3>1. hpc[c] \in ReportPlaces \ {"lock_id", "set_done"} /\ Live(id[c])
      BY <1>0, <1>3, <1>4, <2>1 DEF Live
    <3>2. init_done
      BY <3>1 DEF ReportInv
    <3> QED BY <1>0, <3>2
  <2>2. CASE c = a
    <3>1. SignalInitDone(a) /\ Live(id[a]) /\ ~SignalUnlock(a)
      BY <1>3, <1>4, <2>2
    <3>2. CASE SignalSetDone(a)
      BY <3>2, FreshSignal
    <3>3. ~SignalLock(a)
      BY <1>4, <2>2, FreshSignal
    <3>4. CASE SignalSetRc(a) \/ SignalCond(a)
      <4>1. hpc[a] \in {"set_rc", "signal_cond"}
        BY <3>4 DEF SignalSetRc, SignalCond
      <4>2. init_done
        BY <3>1, <4>1 DEF ReportInv, ReportPlaces
      <4> QED BY <1>0, <4>2
    <3> QED BY <3>1, <3>2, <3>3, <3>4 DEF SignalInitDone
  <2> QED BY <2>1, <2>2
<1>5. ASSUME SignalSetRc(a)
      PROVE  \A c \in Attempts \ {a} : ~(hpc[c] \in ReportPlaces /\ Live(id[c]))
  <2>1. ASSUME NEW c \in Attempts \ {a}, hpc[c] \in ReportPlaces, Live(id[c]) PROVE FALSE
    <3>1. Live(id[a]) /\ hpc[a] = "set_rc" /\ id[a] \in Attempts
      BY <1>5, FreshSignal, NumbersAre
    <3>2. Using(c, id[a]) /\ Using(a, id[a])
      BY <2>1, <3>1 DEF Using, Live, ReportPlaces
    <3> QED BY <3>1, <3>2 DEF OneReporter
  <2> QED BY <2>1
<1>6. ~SignalSetRc(a) => rc' = rc
  <2>1. CASE NoSignal(a)
    BY <2>1, WithoutSignal
  <2>2. CASE SignalLock(a) \/ SignalSetDone(a) \/ SignalCond(a) \/ SignalUnlock(a)
    BY <2>2, FreshSignal
  <2> QED BY <2>1, <2>2 DEF NoSignal, SignalInitDone
<1>7. ASSUME NEW c \in Attempts, hpc'[c] \in {"signal_cond", "unlock_id"},
             InCall', attempt' = id'[c]
      PROVE  rc' = outcome'[c]
  <2>0. hpc'[c] \in ReportPlaces \ {"lock_id"}
    BY <1>7 DEF ReportPlaces
  <2>1. CASE c # a
    <3>1. hpc[c] \in {"signal_cond", "unlock_id"} /\ Live(id[c]) /\ outcome'[c] = outcome[c]
      BY <1>0, <1>3, <1>7, <2>0, <2>1 DEF Live
    <3>2. rc = outcome[c] /\ ~SignalSetRc(a)
      BY <1>5, <2>1, <3>1 DEF ReportInv, ReportPlaces
    <3> QED BY <1>6, <3>1, <3>2
  <2>2. CASE c = a
    <3>1. SignalInitDone(a) /\ Live(id[a]) /\ ~SignalUnlock(a) /\ outcome'[a] = outcome[a]
      BY <1>1, <1>3, <2>0, <2>2
    <3>2. CASE SignalSetRc(a)
      BY <2>2, <3>1, <3>2, FreshSignal
    <3>3. ~SignalLock(a) /\ ~SignalSetDone(a)
      BY <1>7, <2>2, FreshSignal
    <3>4. CASE SignalCond(a)
      <4>1. hpc[a] = "signal_cond" /\ rc' = rc
        BY <3>4, FreshSignal
      <4> QED BY <2>2, <3>1, <4>1 DEF ReportInv
    <3> QED BY <3>1, <3>2, <3>3, <3>4 DEF SignalInitDone
  <2> QED BY <2>1, <2>2
<1>8. ASSUME attempt # 0, init_done'
      PROVE  /\ hpc'[attempt] \notin SetupPlaces /\ acquired'[attempt] # "due"
             /\ rc' \/ ~Pending(attempt)' => Reports(attempt, rc)'
             /\ \A c \in Attempts : Using(c, attempt)' =>
                   /\ hpc'[c] \in ReportPlaces \ {"lock_id", "set_done"}
                   /\ hpc'[c] = "set_rc" => ~rc'
  <2>1. SUFFICES ASSUME NEW b \in Attempts, b = attempt
        PROVE  /\ hpc'[b] \notin SetupPlaces /\ acquired'[b] # "due"
               /\ rc' \/ ~Pending(b)' => Reports(b, rc)'
               /\ \A c \in Attempts : Using(c, b)' =>
                     /\ hpc'[c] \in ReportPlaces \ {"lock_id", "set_done"}
                     /\ hpc'[c] = "set_rc" => ~rc'
    BY <1>0, <1>8, NumbersAre DEF Pending, Using, Reports, Left
  <2>2. /\ \A c \in Attempts \ {a} : Using(c, b)' <=> Using(c, b)
        /\ hpc'[b] \in SetupPlaces => hpc[b] \in SetupPlaces
        /\ acquired'[b] = "due" => acquired[b] = "due" \/ hpc[b] \in SetupPlaces
    BY OthersUse, TaskHandedOn
  <2>3. ASSUME Using(a, b)
        PROVE  /\ hpc[b] \notin SetupPlaces /\ acquired[b] # "due"
               /\ \A c \in Attempts \ {a} : ~Using(c, b)
    BY <2>3 DEF OneReporter
  <2>4. ASSUME init_done
        PROVE  /\ hpc[b] \notin SetupPlaces /\ acquired[b] # "due"
               /\ rc \/ ~Pending(b) => Reports(b, rc)
               /\ \A c \in Attempts : Using(c, b) =>
                     /\ hpc[c] \in ReportPlaces \ {"lock_id", "set_done"}
                     /\ hpc[c] = "set_rc" => ~rc
    BY <1>8, <2>1, <2>4 DEF ReportInv
  <2>5. CASE NoSignal(a)
    <3>1. init_done /\ rc' = rc /\ hpc[a] \notin ReportPlaces
      BY <1>8, <2>5, WithoutSignal
    <3>2. ~Using(a, b)
      BY <2>4, <3>1
    <3>3. ~Using(a, b)'
      BY <2>4, <3>1, <3>2, TaskHandedOn
    <3>4. \A c \in Attempts : Using(c, b)' =>
              /\ hpc'[c] \in ReportPlaces \ {"lock_id", "set_done"}
              /\ hpc'[c] = "set_rc" => ~rc'
      BY <1>0, <2>2, <2>4, <3>1, <3>3
    <3>5. ~Pending(b)' => ~Pending(b)
      BY <2>2, <2>4, <3>1, <3>2 DEF Pending
    <3>6. hpc[a] \in AgentPlaces => b # agent_ns[a]
      BY <3>2, TheAgent DEF Using
    <3>7. held'[b] = held[b]
      BY <2>4, <3>1, <3>6, HeldKept
    <3>8. ASSUME NEW v, v = rc, rc' \/ ~Pending(b)' PROVE Reports(b, v)'
      BY <2>4, <3>1, <3>5, <3>7, <3>8, ReportsKept
    <3>9. rc' \/ ~Pending(b)' => Reports(b, rc)'
      BY <3>1, <3>8
    <3> QED BY <2>2, <2>4, <3>1, <3>4, <3>9
  <2>6. ASSUME SignalInitDone(a)
        PROVE  /\ Using(a, b) /\ id[a] = b /\ held'[b] = held[b]
               /\ hpc[b] \notin SetupPlaces /\ acquired[b] # "due"
               /\ hpc'[b] \notin SetupPlaces /\ acquired'[b] # "due"
               /\ \A c \in Attempts \ {a} : ~Using(c, b)'
    <3>1. Live(id[a]) /\ hpc[a] \in ReportPlaces
      BY <2>6, FreshSignal DEF SignalInitDone, ReportPlaces
    <3>2. Using(a, b) /\ id[a] = b
      BY <2>1, <3>1 DEF Using, Live
    <3>3. held' = held
      BY <2>6 DEF SignalInitDone, SignalLock, SignalSetDone, SignalSetRc, SignalCond,
                  SignalUnlock, libVars
    <3> QED BY <2>2, <2>3, <3>2, <3>3
  <2>7. CASE SignalLock(a)
    <3>1. init_done /\ hpc[a] = "lock_id" /\ Using(a, b)
      BY <1>8, <2>6, <2>7, FreshSignal DEF SignalInitDone
    <3> QED BY <2>4, <3>1
  <2>8. CASE SignalSetDone(a)
    <3>1. hpc[a] = "set_done" /\ hpc'[a] = "set_rc" /\ rc' = rc /\ id'[a] = id[a] /\ Using(a, b)
      BY <2>6, <2>8, FreshSignal DEF SignalInitDone
    <3>2. ~rc'
      BY <2>4, <3>1 DEF ReportInv
    <3>3. Pending(b)'
      BY <2>6, <2>8, <3>1 DEF Pending, Using, ReportPlaces, SignalInitDone
    <3> QED BY <2>6, <2>8, <3>1, <3>2, <3>3 DEF SignalInitDone, ReportPlaces
  <2>9. CASE SignalSetRc(a)
    <3>1. /\ hpc[a] = "set_rc" /\ hpc'[a] = "signal_cond" /\ rc' = outcome[a] /\ id[a] = b
          /\ held'[b] = held[b]
      BY <2>6, <2>9, FreshSignal DEF SignalInitDone
    <3>2. Reports(b, outcome[a])
      BY <3>1 DEF ReportInv, ReportPlaces
    <3>3. ASSUME NEW v, v = outcome[a] PROVE Reports(b, v)'
      BY <3>1, <3>2, <3>3, ReportsKept
    <3>4. Reports(b, rc)'
      BY <3>1, <3>3
    <3> QED BY <2>6, <2>9, <3>1, <3>4 DEF SignalInitDone, ReportPlaces
  <2>10. CASE SignalCond(a)
    <3>1. /\ hpc[a] = "signal_cond" /\ hpc'[a] = "unlock_id" /\ rc' = rc /\ id[a] = b
          /\ id'[a] = id[a] /\ init_done /\ held'[b] = held[b]
      BY <1>8, <2>6, <2>10, FreshSignal DEF SignalInitDone
    <3>2. Pending(b)'
      BY <3>1 DEF Pending, Using, ReportPlaces
    <3>3. ASSUME NEW v, v = rc, rc PROVE Reports(b, v)'
      BY <2>4, <3>1, <3>3, ReportsKept
    <3> QED BY <2>6, <2>10, <3>1, <3>2, <3>3 DEF SignalInitDone, ReportPlaces
  <2>11. CASE SignalUnlock(a)
    <3>1. /\ Live(id[a]) /\ hpc[a] = "unlock_id" /\ hpc'[a] = resume[a] /\ rc' = rc /\ id[a] = b
          /\ held'[b] = held[b]
      BY <2>6, <2>11, FreshSignal DEF SignalInitDone
    <3>2. ~Using(a, b)'
      BY <3>1 DEF Using, ReportPlaces, AgentPlaces, TypeOK
    <3>3. rc = outcome[a] /\ Reports(b, outcome[a])
      BY <3>1 DEF ReportInv, ReportPlaces
    <3>4. ASSUME NEW v, v = rc PROVE Reports(b, v)'
      BY <3>1, <3>3, <3>4, ReportsKept
    <3> QED BY <2>6, <2>11, <3>1, <3>2, <3>4 DEF SignalInitDone
  <2> QED
    BY <2>5, <2>7, <2>8, <2>9, <2>10, <2>11 DEF NoSignal, SignalInitDone
<1>9. ~init_done' => ~rc'
  <2>1. CASE SignalSetRc(a)
    <3>1. hpc[a] = "set_rc" /\ Live(id[a])
      BY <2>1, FreshSignal
    <3>2. init_done
      BY <3>1 DEF ReportInv, ReportPlaces
    <3> QED BY <1>0, <3>2
  <2>2. CASE ~SignalSetRc(a)
    BY <1>0, <1>6, <2>2 DEF ReportInv
  <2> QED BY <2>1, <2>2
<1> QED
  BY <1>0, <1>2, <1>4, <1>7, <1>8, <1>9 DEF ReportInv, Live

-------------------------------------------------------------------------------
(* The caller's steps.                                                      *)

LEMMA CallInitKeepsFresh ==
    ASSUME TypeOK, ThreadsInv, FreshInv, CallInit, ~stale'
    PROVE  /\ Alive' /\ OneReporter' /\ NoneAfterAnswer' /\ MutexInv' /\ PreparedInv'
           /\ AgentInv' /\ ReportInv'
<1>0. /\ ~stale /\ Alive /\ OneReporter /\ NoneAfterAnswer /\ PreparedInv /\ AgentInv
      /\ ReportInv
  BY DEF CallInit, FreshInv
<1>1. /\ attempt \in Nat /\ attempt' = attempt + 1 /\ attempt' \in Attempts
      /\ caller' = "lock" /\ mutex' = "none" /\ ~init_done' /\ ~rc'
      /\ UNCHANGED <<register_agent, expired, id, agent_ns, outcome, resume, held, acquired,
                     g_connman_state, failed>>
      /\ \A c \in Attempts : hpc'[c] = IF c = attempt' THEN "main_loop" ELSE hpc[c]
  <2>1. attempt \in Nat /\ attempt' = attempt + 1 /\ attempt' \in Attempts
    BY NumbersAre, IHAssumption DEF CallInit, Attempts
  <2>2. \A c \in Attempts : hpc'[c] = IF c = attempt' THEN "main_loop" ELSE hpc[c]
    BY <2>1 DEF CallInit, TypeOK
  <2> QED BY <2>1, <2>2 DEF CallInit, reportVars, libVars
<1>2. /\ hpc[attempt'] = "none" /\ acquired[attempt'] = "none"
      /\ \A c \in Attempts : id[c] = attempt' => c = attempt'
  <2>1. ASSUME NEW c \in Attempts, id[c] = attempt' PROVE c = attempt'
    <3>1. c \in Nat /\ ~(id[c] <= attempt)
      BY <1>1, <2>1, NumbersAre
    <3> QED BY <2>1, <3>1, NumbersAre, <1>1 DEF ThreadsInv
  <2> QED BY <1>1, <2>1 DEF ThreadsInv
<1>3. \A b, c \in Attempts : Using(c, b)' => Using(c, b) /\ c # attempt' /\ b # attempt'
  <2>1. \A c \in Attempts : hpc'[c] \in AgentPlaces \cup ReportPlaces =>
            c # attempt' /\ hpc'[c] = hpc[c]
    BY <1>1 DEF AgentPlaces, ReportPlaces
  <2> QED BY <1>1, <1>2, <2>1 DEF Using
<1>4. \A b \in Attempts : b # attempt' => (hpc'[b] = hpc[b] /\ (Pending(b)' => Pending(b)))
  BY <1>1, <1>3 DEF Pending
<1>5. OneReporter'
  <2> SUFFICES ASSUME NEW b \in Attempts
               PROVE  /\ hpc'[b] \in SetupPlaces \/ acquired'[b] = "due" =>
                            \A c \in Attempts : ~Using(c, b)'
                      /\ \A c, d \in Attempts : Using(c, b)' /\ Using(d, b)' => c = d
    BY DEF OneReporter
  <2>2. CASE b = attempt'
    BY <1>3, <2>2
  <2>3. CASE b # attempt'
    BY <1>0, <1>1, <1>3, <1>4, <2>3 DEF OneReporter
  <2> QED BY <2>2, <2>3
<1>6. NoneAfterAnswer'
  <2>2. ASSUME NEW b \in Attempts, b < attempt' PROVE b \in expired \/ ~Pending(b)'
    <3>1. b \in Nat /\ b <= attempt /\ b # attempt'
      BY <1>1, <2>2, NumbersAre
    <3>2. b = attempt => caller = "returned"
      BY <3>1, NumbersAre DEF CallInit, ThreadsInv, TypeOK
    <3>3. b \in expired \/ ~Pending(b)
      BY <1>0, <1>1, <3>1, <3>2 DEF NoneAfterAnswer, Answered
    <3> QED BY <1>4, <3>1, <3>3
  <2> QED BY <1>1, <2>2 DEF NoneAfterAnswer, Answered
<1>7. ASSUME NEW c \in Attempts, hpc'[c] \in ReportPlaces PROVE attempt' # id'[c]
  BY <1>1, <1>2, <1>7 DEF ReportPlaces
<1>8. MutexInv'
  BY <1>1, <1>7 DEF MutexInv, Live
<1>9. \A b \in Attempts : Course(b)' = IF b = attempt' THEN "main_loop" ELSE Course(b)
  BY <1>1 DEF Course, ReportPlaces
<1>10. "main_loop" \notin RunPlaces \cup ReportPlaces \cup AgentPlaces \cup AgentSetup
                             \cup DOMAIN PreparedAt \cup {"hung", "choose"}
  BY PlaceFacts, PlacesAre DEF AgentPlaces, AgentSetup, PreparedLabels
<1>11. PreparedInv'
  <2> SUFFICES ASSUME NEW b \in Attempts
               PROVE  /\ held'[b] \cap Prepared = PreparedOf(b)'
                      /\ hpc'[b] \in AgentSetup => agent_ns'[b] = b
                      /\ ~(hpc'[b] = "choose" /\ b = attempt')
    BY DEF PreparedInv
  <2>1. CASE b = attempt'
    <3>1. Course(b) = "none" /\ "none" \notin DOMAIN PreparedAt
      BY <1>2, <2>1, PlaceFacts DEF Course, ReportPlaces, AgentSetup, PreparedLabels
    <3>2. held[b] \cap Prepared = {}
      BY <1>0, <1>2, <2>1, <3>1 DEF PreparedInv, PreparedOf
    <3>3. PreparedOf(b)' = {}
      BY <1>1, <1>2, <1>9, <1>10, <2>1 DEF PreparedOf
    <3> QED BY <1>1, <1>10, <2>1, <3>2, <3>3
  <2>2. CASE b # attempt'
    <3>1. PreparedOf(b)' = PreparedOf(b)
      BY <1>1, <1>9, <2>2 DEF PreparedOf
    <3> QED BY <1>0, <1>1, <2>2, <3>1 DEF PreparedInv
  <2> QED BY <2>1, <2>2
<1>12. AgentInv'
  <2>3. ASSUME NEW b \in Attempts
        PROVE  /\ hpc'[b] # "hung"
               /\ acquired'[b] # "done" => AgentOf(b)' = {}
               /\ hpc'[b] \in PreparedLabels => register_agent
               /\ Course(b)' \in RunPlaces /\ register_agent => acquired'[b] # "none"
               /\ hpc'[b] \in AgentPlaces =>
                    /\ agent_ns'[b] = id'[b] /\ acquired'[id'[b]] = "done"
                    /\ held'[id'[b]] \cap {"agent_object", "agent"}
                           = IF hpc'[b] = "call_connman" THEN {"agent_object"} ELSE {}
    <3>1. CASE b = attempt'
      BY <1>0, <1>1, <1>9, <1>10, <3>1 DEF AgentInv, AgentOf, AgentSetup
    <3>2. CASE b # attempt'
      BY <1>0, <1>1, <1>9, <3>2 DEF AgentInv, AgentOf
    <3> QED BY <3>1, <3>2
  <2>4. ASSUME NEW b \in Attempts,
               acquired'[b] # "none" \/ hpc'[b] \in Prepared \cup {"reread_ns"}
        PROVE  register_agent' /\ b # attempt'
    <3>1. b # attempt'
      BY <1>1, <1>2, <2>4 DEF Prepared
    <3> QED BY <1>0, <1>1, <2>4, <3>1 DEF AgentInv
  <2> QED BY <1>1, <2>3, <2>4 DEF AgentInv, AgentOf
<1>13. ReportInv'
  <2>1. ASSUME NEW c \in Attempts, hpc'[c] \in ReportPlaces PROVE Reports(id[c], outcome[c])'
    <3>1. hpc[c] \in ReportPlaces
      BY <1>1, <2>1 DEF ReportPlaces
    <3> QED BY <1>0, <1>1, <3>1 DEF ReportInv, Reports, Left, Wanted
  <2>2. ASSUME NEW c \in Attempts, hpc'[c] \in ReportPlaces PROVE ~(InCall' /\ attempt' = id'[c])
    BY <1>7, <2>2
  <2> QED BY <1>1, <2>1, <2>2 DEF ReportInv, Live, ReportPlaces
<1>14. Alive'
  BY <1>0, <1>1 DEF Alive
<1> QED BY <1>5, <1>6, <1>8, <1>11, <1>12, <1>13, <1>14

LEMMA CallerKeepsFresh ==
    ASSUME TypeOK, ThreadsInv, CallerInv, FreshInv, ~stale',
           ConnmanInit \/ WakeSpuriously \/ TenSecondsPass
    PROVE  /\ Alive' /\ OneReporter' /\ NoneAfterAnswer' /\ MutexInv' /\ PreparedInv'
           /\ AgentInv' /\ ReportInv'
<1> USE DEF Caller
<1>0. /\ ~stale /\ Alive /\ OneReporter /\ NoneAfterAnswer /\ MutexInv /\ PreparedInv /\ AgentInv
      /\ ReportInv
  <2>1. Alive /\ stale' = stale
    BY DEF ConnmanInit, WakeSpuriously, LockId, TestDone, WaitTimesOut, UnlockId, CheckDone,
           ReadRc, TenSecondsPass
  <2> QED BY <2>1 DEF FreshInv
<1>1. /\ UNCHANGED <<attempt, register_agent, init_done, rc, id_ns, hpc, id, agent_ns, outcome,
                     resume, held, acquired, g_connman_state, failed>>
      /\ InCall' => InCall
  <2>1. /\ UNCHANGED callVars /\ UNCHANGED reportVars /\ UNCHANGED libVars
        /\ UNCHANGED <<init_done, rc, id_ns, hpc, failed>>
    BY DEF ConnmanInit, WakeSpuriously, LockId, TestDone, WaitTimesOut, UnlockId, CheckDone,
           ReadRc, TenSecondsPass, idVars
  <2>2. InCall' => InCall
    BY DEF ConnmanInit, WakeSpuriously, LockId, TestDone, WaitTimesOut, UnlockId, CheckDone,
           ReadRc, TenSecondsPass, InCall, AfterLock
  <2> QED BY <2>1, <2>2 DEF callVars, reportVars, libVars
<1>2. OneReporter' /\ Alive'
  BY <1>0, <1>1 DEF OneReporter, Using, Alive
<1>3. \A b \in Attempts : Pending(b)' <=> Pending(b)
  BY <1>1 DEF Pending, Using
<1>4. ReportInv'
  BY <1>0, <1>1 DEF ReportInv, Reports, Left, Wanted, Pending, Using, Live
<1>5. MutexInv'
  <2>2. caller' \in {"test", "unlock"} => mutex' = "caller"
    BY <1>0 DEF MutexInv, ConnmanInit, WakeSpuriously, LockId, TestDone, WaitTimesOut, UnlockId,
                CheckDone, ReadRc, TenSecondsPass, idVars
  <2>3. mutex = "handler" => mutex' = "handler"
    BY <1>0 DEF MutexInv, ConnmanInit, WakeSpuriously, LockId, TestDone, WaitTimesOut, UnlockId,
                CheckDone, ReadRc, TenSecondsPass, idVars
  <2> QED BY <1>0, <1>1, <2>2, <2>3 DEF MutexInv, Live
<1>6. NoneAfterAnswer'
  <2>1. expired \subseteq expired'
    BY DEF ConnmanInit, WakeSpuriously, LockId, TestDone, WaitTimesOut, UnlockId, CheckDone,
           ReadRc, TenSecondsPass
  <2>2. ASSUME caller' \in Answered, caller \notin Answered
        PROVE  attempt \in expired \/ (caller = "test" /\ init_done)
    <3>1. CASE LockId
      BY <2>2, <3>1 DEF LockId, AfterLock, Answered, CallerInv
    <3>2. CASE TestDone
      BY <2>2, <3>2 DEF TestDone, Answered
    <3>3. CASE WaitTimesOut \/ WakeSpuriously \/ UnlockId \/ CheckDone \/ ReadRc \/ TenSecondsPass
      BY <2>2, <3>3 DEF WaitTimesOut, WakeSpuriously, UnlockId, CheckDone, ReadRc, TenSecondsPass,
                        Answered
    <3> QED BY <3>1, <3>2, <3>3 DEF ConnmanInit
  <2>3. ASSUME caller = "test", init_done, attempt \in Attempts PROVE ~Pending(attempt)
    <3>1. mutex = "caller" /\ InCall
      BY <1>0, <2>3 DEF MutexInv, InCall
    <3>2. /\ hpc[attempt] \notin SetupPlaces /\ acquired[attempt] # "due"
          /\ \A c \in Attempts : Using(c, attempt) => hpc[c] \in ReportPlaces \ {"lock_id"}
      BY <1>0, <2>3, NumbersAre DEF ReportInv
    <3>3. ASSUME NEW c \in Attempts, Using(c, attempt) PROVE FALSE
      <4>1. hpc[c] \in ReportPlaces \ {"lock_id"} /\ Live(id[c])
        BY <3>1, <3>2, <3>3 DEF Using, Live
      <4> QED BY <1>0, <3>1, <4>1 DEF MutexInv
    <3> QED BY <3>2, <3>3 DEF Pending
  <2>5. ASSUME NEW b \in Attempts, b < attempt \/ (b = attempt /\ caller' \in Answered)
        PROVE  b \in expired \/ ~Pending(b)
    BY <1>0, <2>2, <2>3, <2>5 DEF NoneAfterAnswer
  <2> QED BY <1>1, <1>3, <2>1, <2>5 DEF NoneAfterAnswer
<1>7. \A b \in Attempts : Course(b)' = Course(b)
  BY <1>1 DEF Course
<1>8. PreparedInv' /\ AgentInv'
  BY <1>0, <1>1, <1>7 DEF PreparedInv, PreparedOf, AgentInv, AgentOf
<1> QED BY <1>2, <1>4, <1>5, <1>6, <1>8

-------------------------------------------------------------------------------
(* The invariant.                                                           *)

LEMMA FreshKept ==
    ASSUME TypeOK, HoldInv, FailInv, ThreadsInv, CallerInv, FreshInv, Next
    PROVE  FreshInv'
<1> SUFFICES ASSUME ~stale'
             PROVE  /\ Alive' /\ OneReporter' /\ NoneAfterAnswer' /\ MutexInv' /\ PreparedInv'
                    /\ AgentInv' /\ ReportInv'
  BY DEF FreshInv
<1>0. /\ ~stale /\ Alive /\ OneReporter /\ NoneAfterAnswer /\ MutexInv /\ PreparedInv /\ AgentInv
      /\ ReportInv
  BY WasFresh DEF FreshInv
<1>1. CASE CallInit
  BY <1>1, CallInitKeepsFresh
<1>2. CASE ConnmanInit \/ WakeSpuriously \/ TenSecondsPass
  BY <1>2, CallerKeepsFresh
<1>3. ASSUME NEW a \in Attempts, Handler(a)
      PROVE  /\ Alive' /\ OneReporter' /\ NoneAfterAnswer' /\ MutexInv' /\ PreparedInv'
             /\ AgentInv' /\ ReportInv'
  <2>1. NoneAfterAnswer'
    <3>1. /\ attempt' = attempt /\ expired' = expired
          /\ caller' \in Answered <=> caller \in Answered
      BY <1>3, CallAfterHandler DEF Answered
    <3>2. \A b \in Attempts : Pending(b)' => Pending(b)
      BY <1>3, HandlerAddsNoTask
    <3> QED BY <1>0, <3>1, <3>2 DEF NoneAfterAnswer
  <2>2. hpc'[a] \notin {"hung", "crashed"}
    BY <1>0, <1>3, ThreadSurvives
  <2>3. Alive'
    BY <1>0, <1>3, <2>2, StepOfThread DEF Alive
  <2>4. PreparedInv'
    BY <1>0, <1>3, <2>2, TypesKept, HandlerKeepsPrepared
  <2> QED
    BY <1>0, <1>3, <2>1, <2>2, <2>3, <2>4, HandlerKeepsOneReporter, HandlerKeepsMutex,
       HandlerKeepsAgents, HandlerKeepsReports
<1> QED BY <1>1, <1>2, <1>3 DEF Next

(* A use of a dead init_data comes after a call that ran out of time.       *)
LEMMA StaleKept ==
    ASSUME TypeOK, ThreadsInv, FreshInv, StaleOnlyAfterTimeout, Next
    PROVE  StaleOnlyAfterTimeout'
<1>1. expired \subseteq expired'
  <2>1. CASE CallInit \/ ConnmanInit \/ WakeSpuriously \/ TenSecondsPass
    BY <2>1 DEF CallInit, ConnmanInit, WakeSpuriously, TenSecondsPass, LockId, TestDone,
                WaitTimesOut, UnlockId, CheckDone, ReadRc, Caller
  <2>2. ASSUME NEW a \in Attempts, Handler(a) PROVE expired' = expired
    BY <2>2, CallAfterHandler
  <2> QED BY <2>1, <2>2 DEF Next
<1>2. SUFFICES ASSUME stale', expired = {} PROVE FALSE
  BY <1>1 DEF StaleOnlyAfterTimeout
<1>3. ~stale
  BY <1>2 DEF StaleOnlyAfterTimeout
<1>4. PICK a \in Attempts, b \in Attempts :
          /\ ~Live(b)
          /\ \/ (SetNs(a) \/ ChooseAgent(a) \/ RereadNs(a)) /\ b = a
             \/ SignalInitDone(a) /\ b = id[a]
             \/ BusAcquired(a, b)
  <2>1. \A a, b, place : UseId(a, b, place) => ~Live(b)
    BY <1>2, <1>3 DEF UseId
  <2>2. CASE CallInit \/ ConnmanInit \/ WakeSpuriously \/ TenSecondsPass
    BY <1>2, <1>3, <2>2 DEF CallInit, ConnmanInit, WakeSpuriously, TenSecondsPass, LockId,
                TestDone, WaitTimesOut, UnlockId, CheckDone, ReadRc, Caller
  <2>3. ASSUME NEW a \in Attempts, Handler(a)
        PROVE  \E b \in Attempts :
                  /\ ~Live(b)
                  /\ \/ (SetNs(a) \/ ChooseAgent(a) \/ RereadNs(a)) /\ b = a
                     \/ SignalInitDone(a) /\ b = id[a]
                     \/ BusAcquired(a, b)
    <3>1. id[a] \in Attempts
      BY NumbersAre
    <3>2. CASE SetNs(a) \/ ChooseAgent(a) \/ RereadNs(a)
      <4>1. ~Live(a)
        BY <2>1, <3>2 DEF SetNs, ChooseAgent, RereadNs
      <4> QED BY <3>2, <4>1
    <3>3. CASE SignalInitDone(a)
      <4>1. ~Live(id[a])
        BY <2>1, <3>3 DEF SignalInitDone, SignalLock, SignalSetDone, SignalSetRc, SignalCond,
                          SignalUnlock
      <4> QED BY <3>1, <3>3, <4>1
    <3>5. CASE \E b \in Attempts : BusAcquired(a, b)
      BY <2>1, <3>5 DEF BusAcquired
    <3>6. CASE \/ \E r \in DOMAIN Acquisitions \ Prepared : Acquire(a, r)
               \/ \E r \in Prepared : Prepare(a, r)
               \/ \E label \in PreparedLabels : Unprepare(a, label)
               \/ \E label \in Labels \ PreparedLabels : Unwind(a, label)
               \/ Fail(a) \/ Publish(a) \/ RunLoop(a) \/ ExportAgent(a) \/ RegisterAgent(a)
      <4>1. stale' = stale
        BY <3>6 DEF Acquire, Prepare, Unprepare, Unwind, Fail, Publish, RunLoop, ExportAgent,
                    RegisterAgent
      <4> QED BY <1>2, <1>3, <4>1
    <3> QED BY <2>3, <3>2, <3>3, <3>5, <3>6 DEF Handler, OnBusAcquired
  <2> QED BY <2>2, <2>3 DEF Next
<1>5. Pending(b)
  <2>1. CASE (SetNs(a) \/ ChooseAgent(a) \/ RereadNs(a)) /\ b = a
    <3>1. hpc[b] \in SetupPlaces
      BY <2>1, PlaceFacts DEF SetNs, ChooseAgent, RereadNs, At
    <3> QED BY <3>1 DEF Pending
  <2>2. CASE SignalInitDone(a) /\ b = id[a]
    <3>1. Using(a, b)
      BY <2>2 DEF SignalInitDone, SignalLock, SignalSetDone, SignalSetRc, SignalCond,
                  SignalUnlock, At, Using, ReportPlaces
    <3> QED BY <3>1 DEF Pending
  <2>3. CASE BusAcquired(a, b)
    BY <2>3 DEF BusAcquired, Pending
  <2> QED BY <1>4, <2>1, <2>2, <2>3
<1>6. b <= attempt
  <2>1. b \in Nat /\ attempt \in Nat /\ \A c \in Attempts : c \in Nat /\ id[c] \in Nat
    BY NumbersAre
  <2>2. "none" \notin SetupPlaces \cup AgentPlaces \cup ReportPlaces
    BY PlaceFacts DEF AgentPlaces, ReportPlaces, PreparedLabels
  <2>3. ASSUME NEW c \in Attempts, Using(c, b) PROVE b <= attempt
    BY <2>1, <2>2, <2>3 DEF ThreadsInv, Using
  <2> QED BY <1>5, <2>1, <2>2, <2>3 DEF Pending, ThreadsInv
<1>7. b = attempt /\ caller \notin Answered
  BY <1>2, <1>3, <1>5, <1>6, NumbersAre DEF FreshInv, NoneAfterAnswer
<1>8. Live(b)
  BY <1>7, NumbersAre DEF Live, InCall, Answered, ThreadsInv
<1> QED BY <1>4, <1>8

(* What a thread that ends early, or is about to report that it failed,     *)
(* still holds.                                                             *)
LEMMA EmptyAtTheEnd ==
    ASSUME TypeOK, HoldInv, PreparedInv, AgentInv, NEW c \in Attempts,
           hpc[c] \in {"err_no_loop", "exited"}
    PROVE  held[c] = {}
<1>1. /\ hpc[c] \in DOMAIN HeldAt /\ hpc[c] \notin ReportPlaces
      /\ HeldAt[hpc[c]] = {}
  BY PlaceFacts DEF ReportPlaces, HeldAt
<1>2. Own(c) = {} /\ acquired[c] = "none" /\ Course(c) = hpc[c]
  BY <1>1 DEF HoldInv, Holds, Course
<1> QED BY <1>2, WhatIsHeld, NothingPrepared

LEMMA LabelsHold ==
    ASSUME TypeOK, HoldInv, PreparedInv, NEW c \in Attempts, hpc[c] \in Labels
    PROVE  Releases[hpc[c]] \in held[c]
<1>1. CASE hpc[c] \in PreparedLabels
  <2>1. /\ hpc[c] \in AgentSetup /\ Releases[hpc[c]] \in AgentHeldAt(hpc[c])
    BY <1>1, UnprepareFacts
  <2>2. held[c] \cap Prepared = AgentHeldAt(hpc[c])
    BY <2>1, AtAgentSetup
  <2> QED BY <2>1, <2>2
<1>2. CASE hpc[c] \notin PreparedLabels
  <2>1. /\ hpc[c] \in DOMAIN HeldAt /\ hpc[c] \notin ReportPlaces
        /\ Releases[hpc[c]] \in HeldAt[hpc[c]]
    BY <1>2, UnwindFacts, NowhereElse
  <2>2. Own(c) = HeldAt[hpc[c]]
    BY <2>1 DEF HoldInv, Holds, Course
  <2> QED BY <2>1, <2>2 DEF Own
<1> QED BY <1>1, <1>2

(* The call's own attempt has not closed the connection if it holds it; an  *)
(* earlier one that has is among those that failed.                         *)
LEMMA ClosedByEarlier ==
    ASSUME TypeOK, HoldInv, FailInv, ThreadsInv, Alive, AgentInv, attempt # 0,
           "conn" \in held[attempt], NEW b \in closed_by
    PROVE  b < attempt /\ b \in failed
<1>1. /\ b \in Attempts /\ b \in failed /\ Course(b) \in AfterClose
      /\ b \in Nat /\ attempt \in Attempts /\ attempt \in Nat
  BY NumbersAre DEF TypeOK, FailInv, Alive, AgentInv
<1>2. b <= attempt
  <2>1. SUFFICES ASSUME b > attempt PROVE FALSE
    BY <1>1
  <2>2. hpc[b] = "none"
    BY <1>1, <2>1 DEF ThreadsInv
  <2> QED BY <1>1, <2>2 DEF Course, ReportPlaces, AfterClose
<1>3. Course(b) \in DOMAIN HeldAt /\ "conn" \notin HeldAt[Course(b)]
  BY <1>1, PlaceFacts DEF AfterClose, HeldAt
<1>4. "conn" \notin held[b]
  BY <1>1, <1>3, PlaceFacts DEF HoldInv, Holds, Own
<1> QED BY <1>1, <1>2, <1>4

(* What connman_init promises of a fresh state follows from the invariant.  *)
LEMMA PromisesHold ==
    ASSUME IHInv
    PROVE  /\ TrueMeansConnected /\ FalseMeansFailedOrLate /\ WhatFailureLeaves
           /\ UnwindIsExact
<1> SUFFICES ASSUME ~stale
             PROVE  /\ TrueMeansConnected /\ FalseMeansFailedOrLate /\ WhatFailureLeaves
                    /\ UnwindIsExact
  BY DEF TrueMeansConnected, FalseMeansFailedOrLate, WhatFailureLeaves, UnwindIsExact
<1> USE DEF IHInv
<1>0. Alive /\ NoneAfterAnswer /\ PreparedInv /\ AgentInv /\ ReportInv
  BY DEF FreshInv
<1>1. UnwindIsExact
  BY <1>0, LabelsHold, EmptyAtTheEnd DEF UnwindIsExact
<1>2. result # "none" => caller = "returned" /\ attempt # 0 /\ attempt \in Attempts
  BY NumbersAre DEF TypeOK, ThreadsInv
<1>3. ASSUME result = "TRUE"
      PROVE  /\ Wanted \subseteq held[attempt]
             /\ \A b \in closed_by : b < attempt /\ b \in failed
  <2>1. init_done /\ rc /\ attempt # 0
    BY <1>2, <1>3 DEF CallerInv
  <2>2. Wanted \subseteq held[attempt]
    BY <1>0, <2>1 DEF ReportInv, Reports
  <2>3. "conn" \in held[attempt]
    BY <2>2 DEF Wanted, Connected
  <2> QED BY <1>0, <2>1, <2>2, <2>3, ClosedByEarlier
<1>4. ASSUME result = "FALSE", attempt \notin expired
      PROVE  Left(attempt) /\ attempt \in failed
  <2>1. init_done /\ ~rc /\ attempt # 0
    BY <1>2, <1>4 DEF CallerInv
  <2>2. ~Pending(attempt)
    BY <1>0, <1>2, <1>4 DEF NoneAfterAnswer, Answered
  <2> QED BY <1>0, <2>1, <2>2 DEF ReportInv, Reports
<1>5. TrueMeansConnected
  BY <1>3 DEF TrueMeansConnected
<1>6. FalseMeansFailedOrLate
  BY <1>4 DEF FalseMeansFailedOrLate
<1>7. WhatFailureLeaves
  BY <1>4 DEF WhatFailureLeaves, Left
<1> QED BY <1>1, <1>5, <1>6, <1>7

(* An attempt that returned in time has no thread at work any more that     *)
(* would change what it left.                                               *)
LEMMA ReturnedKept ==
    ASSUME IHInv, Next, ThreadsInv'
    PROVE  ReturnedInv'
<1> SUFFICES ASSUME ~stale', NEW b \in Attempts, b < attempt', b \notin expired'
             PROVE  Left(b)'
  BY DEF ReturnedInv
<1> USE DEF IHInv
<1>0. ~stale /\ Alive
  BY WasFresh
<1>1. attempt \in Nat /\ b \in Nat /\ b # 0
  BY NumbersAre
<1>2. CASE CallInit
  <2>1. /\ attempt' = attempt + 1 /\ b \notin expired
        /\ caller = "start" \/ result = "FALSE"
    BY <1>2 DEF CallInit
  <2>2. Left(b)
    <3>1. CASE b < attempt
      BY <1>0, <2>1, <3>1 DEF ReturnedInv
    <3>2. CASE b = attempt
      BY <1>0, <1>1, <2>1, <3>2, PromisesHold DEF ThreadsInv, WhatFailureLeaves, Left
    <3> QED BY <1>1, <2>1, <3>1, <3>2
  <2> QED BY <1>2, <2>2 DEF CallInit, Left, libVars
<1>3. CASE ConnmanInit \/ WakeSpuriously \/ TenSecondsPass
  <2>1. /\ attempt' = attempt /\ expired \subseteq expired'
        /\ register_agent' = register_agent /\ held' = held
        /\ g_connman_state' = g_connman_state
    BY <1>3 DEF ConnmanInit, WakeSpuriously, TenSecondsPass, LockId, TestDone, WaitTimesOut,
                UnlockId, CheckDone, ReadRc, Caller, callVars, libVars
  <2> QED BY <1>0, <2>1 DEF ReturnedInv, Left
<1>4. ASSUME NEW a \in Attempts, Handler(a)
      PROVE  Left(b)'
  <2>3. attempt' = attempt /\ expired' = expired /\ register_agent' = register_agent
    BY <1>4, CallAfterHandler, StepOfThread DEF callVars
  <2>4. g_connman_state # 0 => g_connman_state' # 0
    BY <1>4, StepOfThread, NumbersAre
  <2>5. ~Pending(b)
    BY <1>0, <2>3 DEF FreshInv, NoneAfterAnswer
  <2>6. hpc[a] \in AgentPlaces => b # agent_ns[a]
    BY <1>0, <2>5, TheAgent DEF FreshInv, Pending, Using
  <2>7. held'[b] = held[b]
    BY <1>0, <1>4, <2>5, <2>6, HeldKept DEF Pending, FreshInv
  <2>8. Left(b)
    BY <1>0, <2>3 DEF ReturnedInv
  <2> QED BY <2>3, <2>4, <2>7, <2>8 DEF Left
<1> QED BY <1>2, <1>3, <1>4 DEF Next

LEMMA InitialInvariant ==
    ASSUME Init
    PROVE  IHInv
<1> USE DEF Init
<1>1. TypeOK
  <2>1. 0 \in 0..MaxAttempts /\ \A a \in Attempts : a \in Attempts
    BY IHAssumption
  <2> QED BY <2>1, PlacesAre DEF TypeOK
<1>2. /\ \A a \in Attempts : Course(a) = "none" /\ Own(a) = {}
      /\ "none" \in DOMAIN HeldAt /\ HeldAt["none"] = {}
      /\ "none" \notin RunPlaces \cup ReportPlaces \cup AgentPlaces \cup SetupPlaces
                          \cup AgentSetup \cup DOMAIN PreparedAt
  BY PlaceFacts, PlacesAre DEF Course, ReportPlaces, AgentPlaces, AgentSetup, PreparedLabels,
                               HeldAt, Own
<1>3. HoldInv
  BY <1>2 DEF HoldInv, Holds
<1>4. ThreadsInv
  BY IHAssumption DEF ThreadsInv, Attempts
<1>5. CallerInv
  BY DEF CallerInv
<1>6. FreshInv
  <2>1. \A a, b \in Attempts : ~Using(a, b)
    BY <1>2 DEF Using
  <2>2. OneReporter /\ MutexInv
    BY <1>2, <2>1 DEF OneReporter, MutexInv
  <2>3. NoneAfterAnswer
    BY <1>2, <2>1 DEF NoneAfterAnswer, Pending, Answered
  <2>4. AgentInv
    BY <1>2, PlaceFacts DEF AgentInv, AgentOf, SetupPlaces, PreparedLabels
  <2>5. ReportInv
    BY <1>2 DEF ReportInv
  <2>6. PreparedInv
    BY <1>2 DEF PreparedInv, PreparedOf
  <2>7. Alive
    BY DEF Alive
  <2> QED BY <2>2, <2>3, <2>4, <2>5, <2>6, <2>7 DEF FreshInv
<1>7. FailInv
  BY <1>2, PlaceFacts DEF FailInv
<1>8. StaleOnlyAfterTimeout
  BY DEF StaleOnlyAfterTimeout
<1>9. ReturnedInv
  BY IHAssumption DEF ReturnedInv, Attempts
<1> QED BY <1>1, <1>3, <1>4, <1>5, <1>6, <1>7, <1>8, <1>9 DEF IHInv

LEMMA StutterInvariant ==
    ASSUME IHInv, UNCHANGED vars
    PROVE  IHInv'
<1> USE DEF vars, callVars, idVars, waitVars, reportVars, libVars
<1>1. TypeOK' /\ ThreadsInv' /\ CallerInv'
  BY DEF IHInv, TypeOK, ThreadsInv, CallerInv
<1>2. HoldInv' /\ FailInv'
  BY DEF IHInv, HoldInv, Holds, FailInv, Course, Own
<1>3. FreshInv'
  <2>1. \A a, b \in Attempts : Using(a, b)' <=> Using(a, b)
    BY DEF Using
  <2>2. \A b \in Attempts : Pending(b)' <=> Pending(b)
    BY <2>1 DEF Pending
  <2>3. Alive => Alive'
    BY DEF Alive
  <2>4. OneReporter => OneReporter'
    BY <2>1 DEF OneReporter
  <2>5. NoneAfterAnswer => NoneAfterAnswer'
    BY <2>2 DEF NoneAfterAnswer
  <2>6. MutexInv => MutexInv'
    BY DEF MutexInv, Live, InCall
  <2>7. AgentInv => AgentInv'
    BY DEF AgentInv, AgentOf, Course
  <2>8. ReportInv => ReportInv'
    BY DEF ReportInv, Reports, Left, Wanted, Live, InCall, Pending, Using
  <2>9. PreparedInv => PreparedInv'
    BY DEF PreparedInv, PreparedOf, Course
  <2> QED BY <2>3, <2>4, <2>5, <2>6, <2>7, <2>8, <2>9 DEF IHInv, FreshInv
<1>4. StaleOnlyAfterTimeout' /\ ReturnedInv'
  BY DEF IHInv, StaleOnlyAfterTimeout, ReturnedInv, Left
<1> QED BY <1>1, <1>2, <1>3, <1>4 DEF IHInv

-------------------------------------------------------------------------------
(* The inductive invariant holds in every state, however often connman_init *)
(* is called, whatever fails in the threads it starts and whenever they run.*)
THEOREM IHInvariant == Spec => []IHInv
<1>1. Init => IHInv
  BY InitialInvariant
<1>2. IHInv /\ [Next]_vars => IHInv'
  <2>1. ASSUME IHInv, Next PROVE IHInv'
    <3>1. /\ TypeOK' /\ HoldInv' /\ FailInv' /\ ThreadsInv' /\ CallerInv' /\ FreshInv'
          /\ StaleOnlyAfterTimeout'
      BY <2>1, TypesKept, HoldKept, FailKept, ThreadsKept, CallerKept, FreshKept, StaleKept
      DEF IHInv
    <3>2. ReturnedInv'
      BY <2>1, <3>1, ReturnedKept
    <3> QED BY <3>1, <3>2 DEF IHInv
  <2> QED BY <2>1, StutterInvariant
<1> QED BY <1>1, <1>2, PTL DEF Spec

(* The types of the variables, and that there is a result exactly when      *)
(* connman_init has returned.                                               *)
THEOREM HandshakeTypes == Spec => []TypeOK
<1>1. IHInv => TypeOK
  BY DEF IHInv
<1> QED BY <1>1, IHInvariant, PTL

(* After TRUE every subscription is in place, and the agent too if it was   *)
(* asked for; the connection they are made on was closed by nobody, or by   *)
(* an earlier attempt that failed.  It holds of any attempt, the first and  *)
(* a retry, unless a dead init_data was used.                               *)
THEOREM TrueIsConnected == Spec => []TrueMeansConnected
<1>1. IHInv => TrueMeansConnected
  BY PromisesHold
<1> QED BY <1>1, IHInvariant, PTL

(* After FALSE it was this attempt's own set-up that failed, in one of its  *)
(* acquisitions or in the registration of its agent, or its ten seconds     *)
(* were over; unless a dead init_data was used.                             *)
THEOREM FalseIsFailedOrLate == Spec => []FalseMeansFailedOrLate
<1>1. IHInv => FalseMeansFailedOrLate
  BY PromisesHold
<1> QED BY <1>1, IHInvariant, PTL

(* An attempt that failed in time left nothing, or the connection without   *)
(* the agent that was refused.                                              *)
THEOREM FailureLeavesLittle == Spec => []WhatFailureLeaves
<1>1. IHInv => WhatFailureLeaves
  BY PromisesHold
<1> QED BY <1>1, IHInvariant, PTL

(* The error labels release what was acquired, all of it and nothing else.  *)
THEOREM UnwindingIsExact == Spec => []UnwindIsExact
<1>1. IHInv => UnwindIsExact
  BY PromisesHold
<1> QED BY <1>1, IHInvariant, PTL

(* No callback is run before there is a state for the API it may use.       *)
THEOREM LoopHasState == Spec => []LoopRunsWithState
<1>1. IHInv => LoopRunsWithState
  <2> SUFFICES ASSUME IHInv, NEW a \in Attempts,
                      hpc[a] \in {"run_loop", "loop", "register_object", "call_connman"}
               PROVE  g_connman_state # 0 /\ Connected \subseteq held[a]
    BY DEF LoopRunsWithState
  <2>1. Course(a) = hpc[a] /\ hpc[a] \in RunPlaces \ {"publish"}
    BY DEF Course, ReportPlaces, RunPlaces, AgentPlaces
  <2> QED BY <2>1 DEF IHInv, HoldInv, Holds, Own
<1> QED BY <1>1, IHInvariant, PTL

(* Two attempts hold the same subscription only if the first ran out of     *)
(* time or failed at its agent alone.                                       *)
THEOREM DoubleSubscriptionsAreExplained == Spec => []SubscribedTwiceIsExplained
<1>1. IHInv => SubscribedTwiceIsExplained
  <2> SUFFICES ASSUME IHInv, ~stale, NEW a \in Attempts, NEW b \in Attempts, a < b,
                      held[a] \cap held[b] \cap Subscriptions # {}, a \notin expired
               PROVE  register_agent /\ "agent" \notin held[a]
    BY DEF SubscribedTwiceIsExplained
  <2>1. a \in Nat /\ b \in Nat /\ attempt \in Nat
    BY NumbersAre DEF IHInv
  <2>2. b <= attempt
    <3>1. SUFFICES ASSUME b > attempt PROVE FALSE
      BY <2>1
    <3>2. hpc[b] = "none"
      BY <3>1 DEF IHInv, ThreadsInv
    <3>3. Course(b) = "none" /\ "none" \in DOMAIN HeldAt /\ HeldAt["none"] = {}
      BY <3>2, PlaceFacts DEF Course, ReportPlaces, HeldAt
    <3>4. Own(b) = {}
      BY <3>3 DEF IHInv, HoldInv, Holds
    <3> QED BY <3>4, PlaceFacts DEF Own, Subscriptions
  <2>3. Left(a)
    BY <2>1, <2>2 DEF IHInv, ReturnedInv
  <2>4. "agent" \notin Connected \cup Prepared
    BY DEF Connected, Prepared
  <2> QED BY <2>3, <2>4 DEF Left
<1> QED BY <1>1, IHInvariant, PTL

(* While every call is answered within its ten seconds, no thread uses the  *)
(* mutex, the condition or the fields of a call that has returned.          *)
THEOREM DeadUseNeedsTimeout == Spec => []StaleOnlyAfterTimeout
<1>1. IHInv => StaleOnlyAfterTimeout
  BY DEF IHInv
<1> QED BY <1>1, IHInvariant, PTL

================================================================================
