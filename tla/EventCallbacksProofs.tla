-------------------------- MODULE EventCallbacksProofs --------------------------
(***************************************************************************)
(* The callbacks, for any threads, registrations and signals: their type,  *)
(* that no event is lost, that a list is stable while it is run, and that  *)
(* they implement EventFeed.                                               *)
(***************************************************************************)
EXTENDS EventCallbacks, SequenceTheorems, FiniteSetTheorems, TLAPS

(* The events of a signal of the instance.                                  *)
LEMMA EventsAreSeqs ==
    ASSUME NEW s \in Signals
    PROVE  EventsOf(s) \in Seq(Events)
<1> DEFINE changes == [i \in 1..Len(s.changed) |-> <<"SERVICE_CHANGE", i>>]
           removals == [i \in 1..s.removed |-> <<"SERVICE_REMOVE", i>>]
           pairs == {"SERVICE_CHANGE", "SERVICE_REMOVE"} \X Nat
           es == EventsOf(s)
           none == <<>>
<1>1. s \in SignalRecords /\ Len(s.changed) \in Nat /\ s.removed \in Nat
  BY ECAssumption DEF SignalRecords
<1>2. /\ DOMAIN es = 1..Len(es) /\ Len(es) \in Nat
      /\ es = [i \in 1..Len(es) |-> es[i]]
  <2>1. ServiceEvents(s) \in Seq(pairs)
    <3>1. changes \in Seq(pairs) /\ removals \in Seq(pairs)
      BY <1>1, IsASeq
    <3> QED
      BY <3>1, ConcatProperties DEF ServiceEvents
  <2>2. CASE es = ServiceEvents(s)
    <3> HIDE DEF es, pairs
    <3> QED
      BY <2>1, <2>2
  <2>3. CASE es = <<>>
    <3> HIDE DEF es
    <3> QED
      BY <2>3
  <2>4. ASSUME NEW kind, es = <<<<kind, 1>>>>
        PROVE  /\ DOMAIN es = 1..Len(es) /\ Len(es) \in Nat
               /\ es = [i \in 1..Len(es) |-> es[i]]
    <3> HIDE DEF es
    <3> QED
      BY <2>4
  <2>5. es = ServiceEvents(s) \/ es = <<>> \/ \E kind : es = <<<<kind, 1>>>>
    BY DEF EventsOf
  <2> QED
    BY <2>2, <2>3, <2>4, <2>5
<1>3. ASSUME NEW i \in 1..Len(es)
      PROVE  es[i] \in Events
  <2>1. es[i] \in Range(es)
    BY <1>2 DEF Range
  <2> QED
    BY <2>1 DEF Events
<1> HIDE DEF es
<1>4. es \in Seq(Events)
  BY <1>2, <1>3, IsASeq
<1> QED
  BY <1>4 DEF es

-------------------------------------------------------------------------------
(* The entries.                                                             *)

EntriesIn(lists) == UNION {Range(lists[l]) : l \in Lists}

LEMMA EntriesInLists ==
    ASSUME NEW lists \in [Lists -> Seq(Entries)]
    PROVE  /\ \A e : e \in EntriesIn(lists) <=>
                  \E l \in Lists : \E i \in 1..Len(lists[l]) : e = lists[l][i]
           /\ EntriesIn(lists) \subseteq Entries
<1>1. ASSUME NEW l \in Lists
      PROVE  /\ lists[l] \in Seq(Entries)
             /\ \A e : e \in Range(lists[l]) <=>
                    \E i \in 1..Len(lists[l]) : e = lists[l][i]
  BY DEF Range
<1>2. \A e : e \in EntriesIn(lists) <=>
          \E l \in Lists : \E i \in 1..Len(lists[l]) : e = lists[l][i]
  <2>1. \A e : e \in EntriesIn(lists) <=> \E l \in Lists : e \in Range(lists[l])
    BY DEF EntriesIn
  <2>2. ASSUME NEW e \in EntriesIn(lists)
        PROVE  \E l \in Lists : \E i \in 1..Len(lists[l]) : e = lists[l][i]
    <3>1. PICK l \in Lists : e \in Range(lists[l])
      BY <2>1
    <3> QED
      BY <1>1, <3>1
  <2>3. ASSUME NEW l \in Lists, NEW i \in 1..Len(lists[l])
        PROVE  lists[l][i] \in EntriesIn(lists)
    BY <1>1, <2>1
  <2> QED
    BY <2>2, <2>3
<1>3. EntriesIn(lists) \subseteq Entries
  BY <1>1, <1>2, ElementOfSeq
<1> QED
  BY <1>2, <1>3

LEMMA RegisteredIs ==
    ASSUME TypeOK
    PROVE  /\ \A e : e \in Registered <=>
                  \E l \in Lists : \E i \in 1..Len(callbacks[l]) : e = callbacks[l][i]
           /\ Registered \subseteq Entries
           /\ IsFiniteSet(Registered) /\ Cardinality(Registered) \in Nat
<1>1. callbacks \in [Lists -> Seq(Entries)]
  BY DEF TypeOK
<1>2. Registered = EntriesIn(callbacks)
  BY DEF Registered, EntriesIn
<1> QED
  BY <1>1, <1>2, EntriesInLists, ECAssumption, FS_Subset, FS_CardinalityType

LEMMA ThreadsAreFinite ==
    /\ IsFiniteSet(Threads)
    /\ IsFiniteSet(Registering) /\ Cardinality(Registering) \in Nat
<1>1. IsFiniteSet(Threads)
  BY ECAssumption, FS_AddElement DEF Threads
<1> QED
  BY <1>1, FS_Subset, FS_CardinalityType DEF Registering

LEMMA EntryIsLeft ==
    ASSUME ECInv, NEW t \in Threads, want[t] # "none"
    PROVE  NewEntry \in Entries /\ NewEntry \notin Registered
<1>1. /\ Registered \subseteq Entries /\ Cardinality(Registered) \in Nat
      /\ Cardinality(Registering) \in Nat /\ IsFiniteSet(Registering)
      /\ Cardinality(Registered) + Cardinality(Registering) <= Cardinality(Entries)
  BY RegisteredIs, ThreadsAreFinite DEF ECInv, EntriesInv
<1>2. t \in Registering
  BY DEF Registering
<1>3. Cardinality(Registering) # 0
  BY <1>1, <1>2, FS_EmptySet
<1>4. Cardinality(Entries) \in Nat
  BY ECAssumption, FS_CardinalityType
<1>5. Registered # Entries
  BY <1>1, <1>3, <1>4
<1>6. \E e \in Entries : e \notin Registered
  BY <1>1, <1>5
<1> QED
  BY <1>6 DEF NewEntry

(* A registration begins, and ends.                                         *)
LEMMA RegistrationBegins ==
    ASSUME ECInv, NEW t \in Threads, NEW l \in Lists, want[t] = "none",
           want' = [want EXCEPT ![t] = l]
    PROVE  Cardinality(Registering') = Cardinality(Registering) + 1
<1>1. Registering' = Registering \cup {t} /\ t \notin Registering
  BY DEF ECInv, TypeOK, Registering, Lists
<1> QED
  BY <1>1, ThreadsAreFinite, FS_AddElement

LEMMA RegistrationEnded ==
    ASSUME ECInv, NEW t \in Threads, want[t] # "none",
           want' = [want EXCEPT ![t] = "none"]
    PROVE  Cardinality(Registering') = Cardinality(Registering) - 1
<1>1. Registering' = Registering \ {t} /\ t \in Registering
  BY DEF ECInv, TypeOK, Registering
<1> QED
  BY <1>1, ThreadsAreFinite, FS_RemoveElement

(* A list that is not run changes.                                          *)
LEMMA NotRun ==
    ASSUME ECInv, NEW l \in Lists, mutex[l] = Nobody
    PROVE  l = target => hpc \notin {"run", "in_cb"}
  BY ECAssumption DEF ECInv, TypeOK, Threads

LEMMA EnterInv ==
    ASSUME ECInv, NEW t \in Threads, NEW l \in Lists, want[t] # "none",
           mutex[l] = Nobody, Enter(l), want' = [want EXCEPT ![t] = "none"],
           UNCHANGED <<mutex, wire, sent, hpc, target, todo, pos, log, heard, mark, got>>
    PROVE  ECInv'
<1> DEFINE new == NewEntry
           n == Len(callbacks[l]) + 1
<1>1. new \in Entries /\ new \notin Registered
  BY EntryIsLeft
<1> HIDE DEF new
<1>2. TypeOK
  BY DEF ECInv
<1>3. /\ \A m \in Lists : callbacks[m] \in Seq(Entries) /\ Len(callbacks[m]) \in Nat
      /\ \A m \in Lists : log[m] \in Seq(Events) /\ Len(log[m]) \in Nat
  BY <1>2 DEF TypeOK
<1>4. /\ callbacks' = [callbacks EXCEPT ![l] = Append(@, new)]
      /\ start' = [start EXCEPT ![new] = Len(log[l])]
  BY DEF Enter, new
<1>5. TypeOK'
  <2>1. callbacks' \in [Lists -> Seq(Entries)]
    BY <1>1, <1>2, <1>4 DEF TypeOK
  <2>2. start' \in [Entries -> Nat]
    BY <1>1, <1>2, <1>3, <1>4 DEF TypeOK
  <2>3. want' \in [Threads -> Lists \cup {"none"}]
    BY <1>2 DEF TypeOK
  <2> QED
    BY <1>2, <2>1, <2>2, <2>3 DEF TypeOK
<1>6. /\ callbacks'[l] \in Seq(Entries) /\ Len(callbacks'[l]) = n
      /\ \A i \in 1..Len(callbacks[l]) : callbacks'[l][i] = callbacks[l][i]
      /\ callbacks'[l][n] = new
      /\ \A m \in Lists \ {l} : callbacks'[m] = callbacks[m]
  BY <1>1, <1>2, <1>3, <1>4, AppendProperties DEF TypeOK
<1>7. \A m \in Lists : \A i \in 1..Len(callbacks'[m]) :
          \/ i \in 1..Len(callbacks[m]) /\ callbacks'[m][i] = callbacks[m][i]
          \/ m = l /\ i = n /\ callbacks'[m][i] = new
  BY <1>3, <1>6
<1>8. \A m \in Lists : \A i \in 1..Len(callbacks[m]) :
          callbacks[m][i] \in Registered /\ callbacks[m][i] # new
  BY <1>1, <1>2, RegisteredIs
<1>9. HandlerInv'
  BY <1>3, <1>6, NotRun DEF ECInv, HandlerInv
<1>10. Registered' = Registered \cup {new}
  <2>1. \A x : x \in Registered' <=>
            \E m \in Lists : \E i \in 1..Len(callbacks'[m]) : x = callbacks'[m][i]
    <3>1. callbacks' \in [Lists -> Seq(Entries)] /\ Registered' = EntriesIn(callbacks')
      BY <1>5 DEF TypeOK, Registered, EntriesIn
    <3> QED
      BY <3>1, EntriesInLists
  <2>2. Registered' \subseteq Registered \cup {new}
    BY <1>7, <1>8, <2>1
  <2>3. new \in Registered'
    <3>1. n \in 1..Len(callbacks'[l])
      BY <1>3, <1>6
    <3> QED
      BY <1>6, <2>1, <3>1
  <2>4. ASSUME NEW x \in Registered
        PROVE  x \in Registered'
    <3>1. PICK m \in Lists : \E i \in 1..Len(callbacks[m]) : x = callbacks[m][i]
      BY <1>2, RegisteredIs
    <3>2. PICK i \in 1..Len(callbacks[m]) : x = callbacks[m][i]
      BY <3>1
    <3>3. i \in 1..Len(callbacks'[m]) /\ callbacks'[m][i] = callbacks[m][i]
      <4>1. CASE m = l
        BY <1>3, <1>6, <4>1
      <4>2. CASE m # l
        BY <1>6, <4>2
      <4> QED
        BY <4>1, <4>2
    <3> QED
      BY <2>1, <3>2, <3>3
  <2> QED
    BY <2>2, <2>3, <2>4
<1>11. EntriesInv'
  <2>1. Cardinality(Registered') = Cardinality(Registered) + 1
    BY <1>1, <1>2, <1>10, RegisteredIs, FS_AddElement
  <2>2. Cardinality(Registering') = Cardinality(Registering) - 1
    BY RegistrationEnded
  <2>3. Cardinality(Registered') + Cardinality(Registering') <= Cardinality(Entries)
    <3>1. Cardinality(Registered) \in Nat /\ Cardinality(Registering) \in Nat
      BY <1>2, RegisteredIs, ThreadsAreFinite
    <3>2. Cardinality(Registered) + Cardinality(Registering) <= Cardinality(Entries)
      BY DEF ECInv, EntriesInv
    <3> QED
      BY <2>1, <2>2, <3>1, <3>2
  <2>4. ASSUME NEW k \in Lists, NEW m \in Lists,
               NEW i \in 1..Len(callbacks'[k]), NEW j \in 1..Len(callbacks'[m]),
               callbacks'[k][i] = callbacks'[m][j]
        PROVE  k = m /\ i = j
    BY <1>7, <1>8, <2>4 DEF ECInv, EntriesInv
  <2> QED
    BY <2>3, <2>4 DEF EntriesInv
<1>12. ProgressInv'
  <2>1. ASSUME NEW m \in Lists, NEW i \in 1..Len(callbacks[m])
        PROVE  /\ start'[callbacks[m][i]] = start[callbacks[m][i]]
               /\ Due(m, i)' = Due(m, i)
    <3>1. callbacks[m][i] # new /\ callbacks[m][i] \in Entries
      BY <1>3, <1>8, ElementOfSeq
    <3> QED
      BY <1>2, <1>4, <3>1 DEF TypeOK, Due
  <2>2. start'[new] = Len(log[l]) /\ Due(l, n)' = 0 /\ got[new] = <<>>
    <3>1. start'[new] = Len(log[l])
      BY <1>1, <1>2, <1>4 DEF TypeOK
    <3>2. Due(l, n)' = 0
      BY NotRun DEF Due
    <3> QED
      BY <1>1, <3>1, <3>2 DEF ECInv, ProgressInv
  <2>3. ASSUME NEW m \in Lists, NEW i \in 1..Len(callbacks'[m])
        PROVE  LET e == callbacks'[m][i]
               IN  /\ start'[e] + Len(got'[e]) + Due(m, i)' = Len(log'[m])
                   /\ \A j \in 1..Len(got'[e]) : got'[e][j] = start'[e] + j
    <3>1. CASE i \in 1..Len(callbacks[m]) /\ callbacks'[m][i] = callbacks[m][i]
      BY <2>1, <3>1 DEF ECInv, ProgressInv
    <3>2. CASE m = l /\ i = n /\ callbacks'[m][i] = new
      <4>1. Due(m, i)' = 0
        BY <3>2, NotRun DEF Due
      <4>2. start'[new] + Len(got'[new]) + 0 = Len(log'[m]) /\ Len(got'[new]) = 0
        BY <1>3, <2>2, <3>2
      <4> QED
        BY <3>2, <4>1, <4>2
    <3> QED
      BY <1>7, <3>1, <3>2
  <2>4. ASSUME NEW e \in Entries, e \notin Registered'
        PROVE  start'[e] = 0 /\ got'[e] = <<>>
    BY <1>2, <1>4, <1>10, <2>4 DEF ECInv, ProgressInv, TypeOK
  <2> QED
    BY <2>3, <2>4 DEF ProgressInv
<1> QED
  BY <1>5, <1>9, <1>11, <1>12 DEF ECInv

-------------------------------------------------------------------------------
(* The registrations.                                                       *)

LEMMA AddBeginInv ==
    ASSUME ECInv, NEW t \in Threads, NEW l \in Lists, AddBegin(t, l)
    PROVE  ECInv'
<1>1. UNCHANGED <<mutex, callbacks, wire, sent, hpc, target, todo, pos, log, heard, mark, start, got>>
  BY DEF AddBegin, busVars, hVars, histVars, newsVars
<1>2. want' = [want EXCEPT ![t] = l] /\ want[t] = "none" /\ MayRegister
  BY DEF AddBegin
<1>3. TypeOK'
  BY <1>1, <1>2 DEF ECInv, TypeOK
<1>4. HandlerInv' /\ ProgressInv'
  BY <1>1 DEF ECInv, HandlerInv, ProgressInv, Due, Registered
<1>5. Cardinality(Registered') + Cardinality(Registering') <= Cardinality(Entries)
  <2>1. Registered' = Registered
    BY <1>1 DEF Registered
  <2>2. Cardinality(Registering') = Cardinality(Registering) + 1
    BY <1>2, RegistrationBegins
  <2>3. /\ Cardinality(Registered) \in Nat /\ Cardinality(Registering) \in Nat
        /\ Cardinality(Entries) \in Nat
    BY RegisteredIs, ThreadsAreFinite, ECAssumption, FS_CardinalityType DEF ECInv
  <2> QED
    BY <1>2, <2>1, <2>2, <2>3 DEF MayRegister
<1>6. EntriesInv'
  BY <1>1, <1>5 DEF ECInv, EntriesInv
<1> QED
  BY <1>3, <1>4, <1>6 DEF ECInv

LEMMA AddEndsInv ==
    ASSUME ECInv, NEW t \in Threads, AddEntry(t) \/ AddAgentEntry(t)
    PROVE  ECInv'
<1>1. /\ want[t] \in Lists /\ want[t] # "none" /\ mutex[want[t]] = Nobody
      /\ want' = [want EXCEPT ![t] = "none"]
      /\ UNCHANGED <<mutex, wire, sent, hpc, target, todo, pos, log, heard, mark, got>>
  BY DEF AddEntry, AddAgentEntry, busVars, hVars, newsVars, Lists
<1>2. CASE Enter(want[t])
  BY <1>1, <1>2, EnterInv
<1>3. CASE UNCHANGED <<callbacks, start>>
  <2>1. TypeOK'
    BY <1>1, <1>3 DEF ECInv, TypeOK
  <2>2. HandlerInv' /\ ProgressInv'
    BY <1>1, <1>3 DEF ECInv, HandlerInv, ProgressInv, Due, Registered
  <2>3. Cardinality(Registered') + Cardinality(Registering') <= Cardinality(Entries)
    <3>1. Registered' = Registered
      BY <1>3 DEF Registered
    <3>2. Cardinality(Registering') = Cardinality(Registering) - 1
      BY <1>1, RegistrationEnded
    <3>3. Cardinality(Registered) \in Nat /\ Cardinality(Registering) \in Nat
      BY RegisteredIs, ThreadsAreFinite DEF ECInv
    <3>4. Cardinality(Registered) + Cardinality(Registering) <= Cardinality(Entries)
      BY DEF ECInv, EntriesInv
    <3>5. Cardinality(Entries) \in Nat
      BY ECAssumption, FS_CardinalityType
    <3> QED
      BY <3>1, <3>2, <3>3, <3>4, <3>5
  <2>4. EntriesInv'
    BY <1>3, <2>3 DEF ECInv, EntriesInv
  <2> QED
    BY <2>1, <2>2, <2>4 DEF ECInv
<1> QED
  BY <1>2, <1>3 DEF AddEntry, AddAgentEntry

-------------------------------------------------------------------------------
(* The signals, and the handler thread.                                     *)

LEMMA SameLists ==
    ASSUME ECInv, UNCHANGED <<callbacks, want>>
    PROVE  EntriesInv' /\ Registered' = Registered
<1>1. Registered' = Registered /\ Registering' = Registering
  BY DEF Registered, Registering
<1> QED
  BY <1>1 DEF ECInv, EntriesInv

LEMMA SendInv ==
    ASSUME ECInv, NEW s \in Signals, Send(s)
    PROVE  ECInv'
<1>1. /\ UNCHANGED <<mutex, callbacks, want, hpc, target, todo, pos, log, heard, mark, start, got>>
      /\ sent < MaxSignals /\ sent' = sent + 1 /\ wire' = Append(wire, s)
  BY DEF Send, listVars, hVars, histVars, newsVars
<1>2. TypeOK'
  <2>1. wire' \in Seq(Signals) /\ sent' \in 0..MaxSignals
    BY <1>1, ECAssumption DEF ECInv, TypeOK
  <2> QED
    BY <1>1, <2>1 DEF ECInv, TypeOK
<1>3. HandlerInv' /\ ProgressInv'
  BY <1>1 DEF ECInv, HandlerInv, ProgressInv, Due, Registered
<1> QED
  BY <1>1, <1>2, <1>3, SameLists DEF ECInv

LEMMA DispatchInv ==
    ASSUME ECInv, Dispatch
    PROVE  ECInv'
<1>1. /\ hpc = "loop" /\ wire # <<>> /\ wire' = Tail(wire) /\ todo' = EventsOf(Head(wire))
      /\ UNCHANGED <<mutex, callbacks, want, sent, pos, log, start, got>>
      /\ heard' = Head(wire) /\ mark' = Len(log[Head(wire).list])
      /\ \/ todo' = <<>> /\ UNCHANGED <<hpc, target>>
         \/ todo' # <<>> /\ hpc' = "lock" /\ target' = Head(wire).list
  BY DEF Dispatch, listVars, histVars, newsVars
<1>2. wire' \in Seq(Signals) /\ Head(wire) \in Signals
  BY <1>1, HeadTailProperties DEF ECInv, TypeOK
<1>3. todo' \in Seq(Events) /\ Head(wire).list \in Lists
  BY <1>1, <1>2, ECAssumption, EventsAreSeqs DEF SignalRecords
<1>4. TypeOK'
  <2>1. heard' \in Signals \cup {NoSignal} /\ mark' \in Nat
    BY <1>1, <1>2, <1>3 DEF ECInv, TypeOK
  <2> QED
    BY <1>1, <1>2, <1>3, <2>1 DEF ECInv, TypeOK
<1>5. HandlerInv'
  BY <1>1, <1>3 DEF ECInv, HandlerInv
<1>6. ProgressInv'
  BY <1>1, SameLists DEF ECInv, ProgressInv, Due
<1> QED
  BY <1>1, <1>4, <1>5, <1>6, SameLists DEF ECInv

LEMMA SkipServiceInv ==
    ASSUME ECInv, SkipService
    PROVE  ECInv'
<1>1. /\ hpc = "lock" /\ todo' = Tail(todo)
      /\ UNCHANGED <<mutex, callbacks, want, wire, sent, pos, log, heard, mark, start, got>>
      /\ \/ todo' = <<>> /\ hpc' = "loop" /\ target' = "none"
         \/ todo' # <<>> /\ hpc' = "lock" /\ target' = target
  BY DEF SkipService, NextEvent, listVars, busVars, histVars, newsVars
<1>2. target \in Lists /\ todo # <<>>
  BY <1>1 DEF ECInv, HandlerInv
<1>3. todo' \in Seq(Events)
  BY <1>1, <1>2, HeadTailProperties DEF ECInv, TypeOK
<1>4. TypeOK'
  BY <1>1, <1>3 DEF ECInv, TypeOK
<1>5. HandlerInv'
  BY <1>1, <1>2 DEF HandlerInv
<1>6. ProgressInv'
  BY <1>1, SameLists DEF ECInv, ProgressInv, Due
<1> QED
  BY <1>1, <1>4, <1>5, <1>6, SameLists DEF ECInv

(* The events come to the end of the log of the list that is locked.        *)
LEMMA LockListInv ==
    ASSUME ECInv, LockList
    PROVE  ECInv'
<1> DEFINE kind == Head(todo)
<1>1. /\ hpc = "lock" /\ mutex[target] = Nobody /\ mutex' = [mutex EXCEPT ![target] = Handler]
      /\ log' = [log EXCEPT ![target] = Append(@, kind)]
      /\ pos' = 1 /\ hpc' = "run"
      /\ UNCHANGED <<callbacks, want, wire, sent, target, todo, heard, mark, start, got>>
  BY DEF LockList, busVars, newsVars
<1>2. target \in Lists /\ todo # <<>> /\ kind \in Events
  BY <1>1, HeadTailProperties DEF ECInv, HandlerInv, TypeOK
<1> HIDE DEF kind
<1>3. \A l \in Lists : /\ callbacks[l] \in Seq(Entries) /\ Len(callbacks[l]) \in Nat
                       /\ log[l] \in Seq(Events) /\ Len(log[l]) \in Nat
  BY DEF ECInv, TypeOK
<1>4. /\ log' \in [Lists -> Seq(Events)]
      /\ Len(log'[target]) = Len(log[target]) + 1
      /\ \A l \in Lists \ {target} : log'[l] = log[l]
  BY <1>1, <1>2, <1>3, AppendProperties DEF ECInv, TypeOK
<1>5. TypeOK'
  BY <1>1, <1>2, <1>4 DEF ECInv, TypeOK
<1>6. HandlerInv'
  BY <1>1, <1>2, <1>3 DEF HandlerInv
<1>7. ASSUME NEW l \in Lists, NEW i \in 1..Len(callbacks[l])
      PROVE  /\ Due(l, i) = 0
             /\ Due(l, i)' = IF l = target THEN 1 ELSE 0
             /\ Len(log'[l]) = Len(log[l]) + Due(l, i)'
  BY <1>1, <1>3, <1>4 DEF Due
<1>8. ASSUME NEW l \in Lists, NEW i \in 1..Len(callbacks[l])
      PROVE  LET e == callbacks[l][i]
             IN  /\ start[e] + Len(got[e]) + Due(l, i)' = Len(log'[l])
                 /\ \A j \in 1..Len(got[e]) : got[e][j] = start[e] + j
  <2>1. callbacks[l][i] \in Entries
    BY <1>3, ElementOfSeq
  <2>2. start[callbacks[l][i]] \in Nat /\ Len(got[callbacks[l][i]]) \in Nat
    BY <2>1 DEF ECInv, TypeOK
  <2>3. /\ start[callbacks[l][i]] + Len(got[callbacks[l][i]]) + Due(l, i) = Len(log[l])
        /\ \A j \in 1..Len(got[callbacks[l][i]]) :
               got[callbacks[l][i]][j] = start[callbacks[l][i]] + j
    BY DEF ECInv, ProgressInv
  <2> QED
    BY <1>3, <1>7, <2>2, <2>3
<1>9. ProgressInv'
  BY <1>1, <1>8, SameLists DEF ECInv, ProgressInv
<1> QED
  BY <1>1, <1>5, <1>6, <1>9, SameLists DEF ECInv

LEMMA ConsecutiveAppend ==
    ASSUME NEW s \in Seq(Nat \ {0}), NEW a \in Nat, NEW n \in Nat \ {0},
           a + Len(s) + 1 = n,
           \A j \in 1..Len(s) : s[j] = a + j
    PROVE  /\ Append(s, n) \in Seq(Nat \ {0}) /\ Len(Append(s, n)) = Len(s) + 1
           /\ \A j \in 1..Len(Append(s, n)) : Append(s, n)[j] = a + j
<1>1. /\ Append(s, n) \in Seq(Nat \ {0}) /\ Len(Append(s, n)) = Len(s) + 1
      /\ Len(s) \in Nat
      /\ \A j \in 1..Len(s) : Append(s, n)[j] = s[j]
      /\ Append(s, n)[Len(s) + 1] = n
  BY AppendProperties, LenProperties
<1>2. ASSUME NEW j \in 1..Len(Append(s, n))
      PROVE  Append(s, n)[j] = a + j
  <2>1. CASE j \in 1..Len(s)
    BY <1>1, <2>1
  <2>2. CASE j = Len(s) + 1
    BY <1>1, <2>2
  <2> QED
    BY <1>1, <2>1, <2>2
<1> QED
  BY <1>1, <1>2

LEMMA RunCallbackInv ==
    ASSUME ECInv, RunCallback
    PROVE  ECInv'
<1> DEFINE e == callbacks[target][pos]
           n == Len(log[target])
<1>1. /\ hpc = "run" /\ pos <= Len(callbacks[target])
      /\ got' = [got EXCEPT ![e] = Append(@, n)]
      /\ hpc' = "in_cb"
      /\ UNCHANGED <<mutex, callbacks, want, wire, sent, target, todo, pos, log, heard, mark, start>>
  BY DEF RunCallback, listVars, busVars, newsVars
<1>2. target \in Lists /\ pos \in 1..Len(callbacks[target])
  BY <1>1 DEF ECInv, HandlerInv, TypeOK
<1>3. /\ e \in Entries /\ got[e] \in Seq(Nat \ {0}) /\ start[e] \in Nat
      /\ n \in Nat /\ Len(got[e]) \in Nat
  BY <1>2, ElementOfSeq DEF ECInv, TypeOK
<1>4. /\ start[e] + Len(got[e]) + 1 = n
      /\ \A j \in 1..Len(got[e]) : got[e][j] = start[e] + j
  <2>1. Due(target, pos) = 1
    BY <1>1, <1>2 DEF Due
  <2> QED
    BY <1>2, <2>1 DEF ECInv, ProgressInv
<1> HIDE DEF e, n
<1>5. n \in Nat \ {0}
  BY <1>3, <1>4
<1>6. /\ got' \in [Entries -> Seq(Nat \ {0})]
      /\ got'[e] = Append(got[e], n)
      /\ \A f \in Entries \ {e} : got'[f] = got[f]
  BY <1>1, <1>3, <1>5, AppendProperties DEF ECInv, TypeOK
<1>7. /\ Len(got'[e]) = Len(got[e]) + 1
      /\ \A j \in 1..Len(got'[e]) : got'[e][j] = start[e] + j
  <2> DEFINE s == got[e]
             a == start[e]
  <2>1. /\ s \in Seq(Nat \ {0}) /\ a \in Nat /\ a + Len(s) + 1 = n
        /\ \A j \in 1..Len(s) : s[j] = a + j
        /\ got'[e] = Append(s, n)
    BY <1>3, <1>4, <1>6
  <2> HIDE DEF s, a
  <2>2. /\ Len(Append(s, n)) = Len(s) + 1
        /\ \A j \in 1..Len(Append(s, n)) : Append(s, n)[j] = a + j
    BY <1>5, <2>1, ConsecutiveAppend
  <2> QED
    BY <2>1, <2>2 DEF s, a
<1>8. TypeOK'
  BY <1>1, <1>2, <1>6 DEF ECInv, TypeOK
<1>9. HandlerInv'
  BY <1>1, <1>2 DEF ECInv, HandlerInv
<1>10. ASSUME NEW l \in Lists, NEW i \in 1..Len(callbacks[l])
       PROVE  LET f == callbacks[l][i]
              IN  /\ start[f] + Len(got'[f]) + Due(l, i)' = Len(log[l])
                  /\ \A j \in 1..Len(got'[f]) : got'[f][j] = start[f] + j
  <2>1. callbacks[l][i] \in Entries /\ pos \in Nat /\ i \in Nat
    BY <1>2, ElementOfSeq DEF ECInv, TypeOK
  <2>2. CASE l = target /\ i = pos
    <3>1. Due(l, i)' = 0 /\ callbacks[l][i] = e /\ Len(log[l]) = n
      BY <1>1, <2>1, <2>2 DEF Due, e, n
    <3>2. start[e] + Len(got'[e]) + 0 = n
      BY <1>3, <1>4, <1>7
    <3> QED
      BY <1>7, <3>1, <3>2
  <2>3. CASE ~(l = target /\ i = pos)
    <3>1. callbacks[l][i] # e
      BY <1>2, <2>3 DEF ECInv, EntriesInv, e
    <3>2. got'[callbacks[l][i]] = got[callbacks[l][i]]
      BY <1>6, <2>1, <3>1
    <3>3. Due(l, i)' = Due(l, i)
      BY <1>1, <2>1, <2>3 DEF Due
    <3> QED
      BY <3>2, <3>3 DEF ECInv, ProgressInv
  <2> QED
    BY <2>2, <2>3
<1>11. ASSUME NEW f \in Entries, f \notin Registered
       PROVE  start[f] = 0 /\ got'[f] = <<>>
  <2>1. f # e
    BY <1>2, <1>11, RegisteredIs DEF ECInv, e
  <2> QED
    BY <1>6, <1>11, <2>1 DEF ECInv, ProgressInv
<1>12. ProgressInv'
  <2>1. callbacks' = callbacks /\ log' = log /\ start' = start /\ Registered' = Registered
    BY <1>1, SameLists
  <2> QED
    BY <1>10, <1>11, <2>1 DEF ProgressInv
<1> QED
  BY <1>1, <1>8, <1>9, <1>12, SameLists DEF ECInv

LEMMA CallbackReturnsInv ==
    ASSUME ECInv, CallbackReturns
    PROVE  ECInv'
<1>1. /\ hpc = "in_cb" /\ pos' = pos + 1 /\ hpc' = "run"
      /\ UNCHANGED <<mutex, callbacks, want, wire, sent, target, todo, log, heard, mark, start, got>>
  BY DEF CallbackReturns, listVars, busVars, histVars, newsVars
<1>2. target \in Lists /\ pos \in 1..Len(callbacks[target])
  BY <1>1 DEF ECInv, HandlerInv, TypeOK
<1>3. TypeOK'
  BY <1>1 DEF ECInv, TypeOK
<1>4. HandlerInv'
  BY <1>1, <1>2 DEF ECInv, HandlerInv, TypeOK
<1>5. ASSUME NEW l \in Lists, NEW i \in 1..Len(callbacks[l])
      PROVE  Due(l, i)' = Due(l, i)
  BY <1>1, <1>2 DEF Due
<1>6. ProgressInv'
  <2>1. /\ callbacks' = callbacks /\ log' = log /\ start' = start /\ got' = got
        /\ Registered' = Registered
    BY <1>1, SameLists
  <2> QED
    BY <1>5, <2>1 DEF ECInv, ProgressInv
<1> QED
  BY <1>1, <1>3, <1>4, <1>6, SameLists DEF ECInv

LEMMA UnlockListInv ==
    ASSUME ECInv, UnlockList
    PROVE  ECInv'
<1>1. /\ hpc = "run" /\ pos > Len(callbacks[target]) /\ pos' = 0
      /\ mutex' = [mutex EXCEPT ![target] = Nobody] /\ todo' = Tail(todo)
      /\ UNCHANGED <<callbacks, want, wire, sent, log, heard, mark, start, got>>
      /\ \/ todo' = <<>> /\ hpc' = "loop" /\ target' = "none"
         \/ todo' # <<>> /\ hpc' = "lock" /\ target' = target
  BY DEF UnlockList, NextEvent, busVars, histVars, newsVars
<1>2. target \in Lists /\ todo # <<>>
  BY <1>1 DEF ECInv, HandlerInv
<1>3. todo' \in Seq(Events)
  BY <1>1, <1>2, HeadTailProperties DEF ECInv, TypeOK
<1>4. TypeOK'
  BY <1>1, <1>2, <1>3 DEF ECInv, TypeOK
<1>5. HandlerInv'
  BY <1>1, <1>2 DEF ECInv, HandlerInv
<1>6. ASSUME NEW l \in Lists, NEW i \in 1..Len(callbacks[l])
      PROVE  Due(l, i) = 0 /\ Due(l, i)' = 0
  BY <1>1, <1>2 DEF Due, ECInv, TypeOK
<1>7. ProgressInv'
  BY <1>1, <1>6, SameLists DEF ECInv, ProgressInv
<1> QED
  BY <1>1, <1>4, <1>5, <1>7, SameLists DEF ECInv

-------------------------------------------------------------------------------
LEMMA ECInitInv == Init => ECInv
<1> SUFFICES ASSUME Init
             PROVE  ECInv
  OBVIOUS
<1>1. TypeOK
  BY ECAssumption DEF Init, TypeOK
<1>2. Registered = {} /\ Registering = {}
  BY <1>1, RegisteredIs DEF Init, Registering
<1>3. EntriesInv
  BY <1>2, FS_EmptySet, FS_CardinalityType, ECAssumption DEF Init, EntriesInv
<1>4. HandlerInv /\ ProgressInv
  BY DEF Init, HandlerInv, ProgressInv
<1> QED
  BY <1>1, <1>3, <1>4 DEF ECInv

LEMMA ECNextInv == ECInv /\ [Next]_vars => ECInv'
<1> SUFFICES ASSUME ECInv, [Next]_vars
             PROVE  ECInv'
  OBVIOUS
<1>1. ASSUME NEW t \in Threads, Add(t)
      PROVE  ECInv'
  BY <1>1, AddBeginInv, AddEndsInv DEF Add
<1>2. ASSUME NEW s \in Signals, Send(s)
      PROVE  ECInv'
  BY <1>2, SendInv
<1>3. CASE HandlerStep
  BY <1>3, DispatchInv, SkipServiceInv, LockListInv, RunCallbackInv, CallbackReturnsInv, UnlockListInv
     DEF HandlerStep
<1>4. CASE UNCHANGED vars
  <2>1. UNCHANGED <<mutex, callbacks, want, wire, sent, hpc, target, todo, pos, log,
                    heard, mark, start, got>>
    BY <1>4 DEF vars, listVars, busVars, hVars, histVars, newsVars
  <2>2. TypeOK' /\ HandlerInv' /\ ProgressInv'
    BY <2>1 DEF ECInv, TypeOK, HandlerInv, ProgressInv, Due, Registered
  <2> QED
    BY <2>1, <2>2, SameLists DEF ECInv
<1> QED
  BY <1>1, <1>2, <1>3, <1>4 DEF Next

(* The invariant: every callback is behind its list's events by the event   *)
(* that is being run, or by none; an entry is in one list, once.            *)
THEOREM ECInvariant == Spec => []ECInv
  BY ECInitInv, ECNextInv, PTL DEF Spec

(* Every variable keeps its type; a list's mutex is held exactly while its  *)
(* callbacks are run.                                                       *)
THEOREM EventCallbacksTypes == Spec => []TypeOK
<1>1. ECInv => TypeOK
  BY DEF ECInv
<1> QED
  BY <1>1, ECInvariant, PTL

(* A callback is run for every event of its list from its registration on,  *)
(* once and in order (callback_add, run_manager_callbacks,                  *)
(* run_property_callbacks).                                                 *)
THEOREM EventsAreNotLost == Spec => []NoEventLost
<1>1. ECInv => NoEventLost
  <2> SUFFICES ASSUME ECInv, NEW l \in Lists, NEW e \in Range(callbacks[l])
               PROVE  /\ \A i \in 1..Len(got[e]) : got[e][i] = start[e] + i
                      /\ mutex[l] = Nobody => start[e] + Len(got[e]) = Len(log[l])
    BY DEF NoEventLost
  <2>1. callbacks[l] \in Seq(Entries)
    BY DEF ECInv, TypeOK
  <2>2. PICK i \in 1..Len(callbacks[l]) : e = callbacks[l][i]
    BY <2>1 DEF Range
  <2>3. /\ start[e] + Len(got[e]) + Due(l, i) = Len(log[l])
        /\ \A j \in 1..Len(got[e]) : got[e][j] = start[e] + j
    BY <2>2 DEF ECInv, ProgressInv
  <2>4. mutex[l] = Nobody => Due(l, i) = 0
    BY NotRun DEF Due
  <2>5. start[e] \in Nat /\ Len(got[e]) \in Nat
    BY <2>1, <2>2, ElementOfSeq DEF ECInv, TypeOK
  <2> QED
    BY <2>3, <2>4, <2>5
<1> QED
  BY <1>1, ECInvariant, PTL

(* A list does not change while its callbacks are run, whoever registers.   *)
THEOREM ListsAreStable == Spec => ListStableWhileRun
<1>1. ASSUME ECInv, [Next]_vars, NEW l \in Lists, mutex[l] = Handler
      PROVE  callbacks'[l] = callbacks[l]
  <2>1. ASSUME NEW t \in Threads, AddEntry(t) \/ AddAgentEntry(t)
        PROVE  callbacks'[l] = callbacks[l]
    <3>1. want[t] \in Lists /\ mutex[want[t]] = Nobody
      BY <2>1 DEF AddEntry, AddAgentEntry, Lists
    <3>2. want[t] # l
      BY <1>1, <3>1, ECAssumption DEF Threads
    <3>3. UNCHANGED callbacks \/ Enter(want[t])
      BY <2>1 DEF AddEntry, AddAgentEntry
    <3> QED
      BY <1>1, <3>2, <3>3 DEF Enter, ECInv, TypeOK
  <2> QED
    BY <1>1, <2>1
       DEF Next, Add, AddBegin, Send, HandlerStep, Dispatch, LockList, RunCallback,
           CallbackReturns, UnlockList, SkipService, vars, listVars
<1>2. ECInv /\ [Next]_vars =>
          [\A l \in Lists : mutex[l] = Handler => callbacks'[l] = callbacks[l]]_vars
  BY <1>1
<1> QED
  BY <1>2, ECInvariant, PTL DEF Spec, ListStableWhileRun

-------------------------------------------------------------------------------
(* What the log has of the signal dispatched last.                          *)

LEMMA ServiceEventsAre ==
    ASSUME NEW s \in SignalRecords
    PROVE  LET n == Len(s.changed)
               es == ServiceEvents(s)
           IN  /\ n \in Nat /\ s.removed \in Nat
               /\ Len(es) = n + s.removed
               /\ \A i \in 1..n : es[i] = <<"SERVICE_CHANGE", i>>
               /\ \A i \in 1..s.removed : es[n + i] = <<"SERVICE_REMOVE", i>>
<1> DEFINE n == Len(s.changed)
           pairs == {"SERVICE_CHANGE", "SERVICE_REMOVE"} \X Nat
           changes == [i \in 1..n |-> <<"SERVICE_CHANGE", i>>]
           removals == [i \in 1..s.removed |-> <<"SERVICE_REMOVE", i>>]
<1>1. n \in Nat /\ s.removed \in Nat
  BY DEF SignalRecords
<1>2. /\ changes \in Seq(pairs) /\ Len(changes) = n
      /\ removals \in Seq(pairs) /\ Len(removals) = s.removed
  BY <1>1, IsASeq
<1>3. \A i \in 1..n : changes[i] = <<"SERVICE_CHANGE", i>>
  OBVIOUS
<1>4. \A i \in 1..s.removed : removals[i] = <<"SERVICE_REMOVE", i>>
  OBVIOUS
<1>5. ServiceEvents(s) = changes \o removals
  BY DEF ServiceEvents
<1> HIDE DEF changes, removals, n, pairs
<1> QED
  BY <1>1, <1>2, <1>3, <1>4, <1>5, ConcatProperties DEF n

LEMMA EventsAreOrdered ==
    ASSUME NEW s \in Signals,
           NEW i \in 1..Len(EventsOf(s)), NEW j \in 1..Len(EventsOf(s)), i < j
    PROVE  Before(EventsOf(s)[i], EventsOf(s)[j])
<1> DEFINE es == EventsOf(s)
           n == Len(s.changed)
<1>1. s \in SignalRecords
  BY ECAssumption
<1>2. CASE es = ServiceEvents(s)
  <2>1. /\ n \in Nat /\ s.removed \in Nat
        /\ Len(es) = n + s.removed
        /\ \A k \in 1..n : es[k] = <<"SERVICE_CHANGE", k>>
        /\ \A k \in 1..s.removed : es[n + k] = <<"SERVICE_REMOVE", k>>
    BY <1>1, <1>2, ServiceEventsAre
  <2> HIDE DEF es, n
  <2>2. i \in 1..(n + s.removed) /\ j \in 1..(n + s.removed)
    BY <2>1 DEF es
  <2>3. ASSUME NEW k \in 1..(n + s.removed), k > n
        PROVE  k - n \in 1..s.removed /\ es[k] = <<"SERVICE_REMOVE", k - n>>
    <3>1. k - n \in 1..s.removed /\ n + (k - n) = k
      BY <2>1, <2>3
    <3> QED
      BY <2>1, <3>1
  <2>4. CASE j <= n
    <3>1. es[i] = <<"SERVICE_CHANGE", i>> /\ es[j] = <<"SERVICE_CHANGE", j>>
      BY <2>1, <2>2, <2>4
    <3> QED
      BY <3>1 DEF Before, es
  <2>5. CASE i <= n /\ j > n
    <3>1. es[i] = <<"SERVICE_CHANGE", i>> /\ es[j] = <<"SERVICE_REMOVE", j - n>>
      BY <2>1, <2>2, <2>3, <2>5
    <3> QED
      BY <3>1 DEF Before, es
  <2>6. CASE i > n
    <3>1. j > n
      BY <2>1, <2>2, <2>6
    <3>2. es[i] = <<"SERVICE_REMOVE", i - n>> /\ es[j] = <<"SERVICE_REMOVE", j - n>>
      BY <2>2, <2>3, <2>6, <3>1
    <3>3. i - n < j - n
      BY <2>1, <2>2
    <3> QED
      BY <3>2, <3>3 DEF Before, es
  <2> QED
    BY <2>1, <2>2, <2>4, <2>5, <2>6
<1>3. CASE es = <<>>
  <2> HIDE DEF es
  <2> QED
    BY <1>3 DEF es
<1>4. CASE \E kind : es = <<<<kind, 1>>>>
  <2>1. Len(es) = 1
    <3> HIDE DEF es
    <3> QED
      BY <1>4
  <2> QED
    BY <2>1
<1>5. es = ServiceEvents(s) \/ es = <<>> \/ \E kind : es = <<<<kind, 1>>>>
  BY DEF EventsOf
<1> QED
  BY <1>2, <1>3, <1>4, <1>5

(* The step lemmas: what the handler thread has come to, and the log.       *)
LEMMA SameNews ==
    ASSUME NewsInv, UNCHANGED <<heard, mark, todo, log, target>>,
           hpc' = "loop" <=> hpc = "loop",
           hpc' \in {"run", "in_cb"} <=> hpc \in {"run", "in_cb"}
    PROVE  NewsInv'
<1>1. Past' = Past /\ News' = News
  BY DEF Past, News
<1> QED
  BY <1>1 DEF NewsInv, Silent

LEMMA DispatchNews ==
    ASSUME ECInv, Dispatch
    PROVE  NewsInv'
<1> DEFINE s == Head(wire)
           n == Len(EventsOf(s))
<1>1. /\ hpc = "loop" /\ wire # <<>> /\ todo' = EventsOf(s)
      /\ heard' = s /\ mark' = Len(log[s.list]) /\ log' = log
      /\ \/ hpc' = "loop"
         \/ hpc' = "lock" /\ target' = s.list
  BY DEF Dispatch
<1>2. s \in Signals /\ s.list \in Lists
  BY <1>1, HeadTailProperties, ECAssumption DEF ECInv, TypeOK, SignalRecords
<1>3. Len(log[s.list]) \in Nat
  BY <1>2 DEF ECInv, TypeOK
<1>4. n \in Nat /\ todo' \in Seq(Events)
  BY <1>1, <1>2, EventsAreSeqs
<1>5. News' = {} /\ 1..Past' = {}
  <2>1. Past' = 0
    BY <1>1, <1>4 DEF Past
  <2> QED
    BY <1>1, <1>3, <2>1 DEF News
<1>6. heard' # NoSignal
  BY <1>1, <1>2 DEF NoSignal, Lists
<1>7. \A i \in 1..Len(todo') : n - Len(todo') + i = i
  BY <1>1, <1>4
<1> QED
  BY <1>1, <1>3, <1>4, <1>5, <1>6, <1>7 DEF NewsInv

(* The event in hand is the one after those that are past.                  *)
LEMMA HeadIsNext ==
    ASSUME ECInv, NewsInv, hpc # "loop"
    PROVE  /\ heard \in Signals /\ heard.list \in Lists /\ target = heard.list
           /\ todo \in Seq(Events) /\ todo # <<>>
           /\ Tail(todo) \in Seq(Events) /\ Len(Tail(todo)) = Len(todo) - 1
           /\ Len(todo) \in Nat /\ Len(EventsOf(heard)) \in Nat
           /\ Past \in 0..Len(EventsOf(heard))
           /\ hpc = "lock" => /\ Past + 1 \in 1..Len(EventsOf(heard))
                              /\ EventsOf(heard)[Past + 1] = Head(todo)
           /\ hpc # "lock" => Past = Len(EventsOf(heard)) - Len(todo) + 1
           /\ hpc = "lock" => Past = Len(EventsOf(heard)) - Len(todo)
           /\ \A i \in 1..(Len(todo) - 1) : Tail(todo)[i] = todo[i + 1]
<1> DEFINE n == Len(EventsOf(heard))
           m == Len(todo)
<1>1. heard # NoSignal /\ heard \in Signals /\ target = heard.list
  BY DEF ECInv, TypeOK, NewsInv
<1>2. heard.list \in Lists /\ todo # <<>> /\ todo \in Seq(Events)
  BY <1>1 DEF ECInv, TypeOK, HandlerInv
<1>3. n \in Nat /\ m \in Nat \ {0}
  BY <1>1, <1>2, EventsAreSeqs, EmptySeq, LenProperties
<1>4. m <= n /\ \A i \in 1..m : todo[i] = EventsOf(heard)[n - m + i]
  BY <1>1 DEF NewsInv
<1>5. /\ Tail(todo) \in Seq(Events) /\ Len(Tail(todo)) = m - 1
      /\ \A i \in 1..(m - 1) : Tail(todo)[i] = todo[i + 1]
      /\ Head(todo) = todo[1]
  BY <1>2, HeadTailProperties
<1>6. hpc \in {"lock", "run", "in_cb"}
  BY DEF ECInv, TypeOK
<1>7. CASE hpc = "lock"
  <2>1. Past = n - m
    BY <1>3, <1>7 DEF Past
  <2>2. EventsOf(heard)[n - m + 1] = todo[1]
    BY <1>3, <1>4
  <2> HIDE DEF n, m
  <2> QED
    BY <1>1, <1>2, <1>3, <1>4, <1>5, <1>7, <2>1, <2>2 DEF n, m
<1>8. CASE hpc \in {"run", "in_cb"}
  <2>1. Past = n - m + 1
    BY <1>3, <1>8 DEF Past
  <2> HIDE DEF n, m
  <2> QED
    BY <1>1, <1>2, <1>3, <1>4, <1>5, <1>8, <2>1 DEF n, m
<1> QED
  BY <1>6, <1>7, <1>8

(* Going on to the next event.                                              *)
LEMMA TailIsNext ==
    ASSUME ECInv, NewsInv, hpc # "loop", NextEvent, heard' = heard
    PROVE  /\ hpc' # "loop" => target' = heard.list
           /\ Len(todo') <= Len(EventsOf(heard))
           /\ \A i \in 1..Len(todo') :
                  todo'[i] = EventsOf(heard)[Len(EventsOf(heard)) - Len(todo') + i]
           /\ Past' = Len(EventsOf(heard)) - Len(todo) + 1
<1> DEFINE n == Len(EventsOf(heard))
           m == Len(todo)
<1>1. /\ todo' = Tail(todo) /\ hpc' \in {"loop", "lock"}
      /\ hpc' = "lock" => target' = target
  BY DEF NextEvent
<1>2. /\ n \in Nat /\ m \in Nat /\ Len(todo') = m - 1 /\ m <= n
      /\ target = heard.list
      /\ \A i \in 1..(m - 1) : todo'[i] = todo[i + 1]
      /\ \A i \in 1..m : todo[i] = EventsOf(heard)[n - m + i]
  BY <1>1, HeadIsNext DEF NewsInv
<1>3. Past' = n - m + 1
  <2>1. Past' = n - (m - 1) + 0
    BY <1>1, <1>2 DEF Past
  <2> HIDE DEF n, m
  <2> QED
    BY <1>2, <2>1
<1>4. ASSUME NEW i \in 1..Len(todo')
      PROVE  todo'[i] = EventsOf(heard)[n - Len(todo') + i]
  <2>1. i \in 1..(m - 1) /\ i + 1 \in 1..m /\ n - m + (i + 1) = n - Len(todo') + i
    <3> HIDE DEF n, m
    <3> QED
      BY <1>2
  <2> QED
    BY <1>2, <2>1
<1>5. Len(todo') <= n /\ (hpc' # "loop" => target' = heard.list)
  BY <1>1, <1>2
<1> HIDE DEF n, m
<1> QED
  BY <1>3, <1>4, <1>5 DEF n, m

LEMMA SkipServiceNews ==
    ASSUME ECInv, NewsInv, SkipService
    PROVE  NewsInv'
<1>1. /\ hpc = "lock" /\ Silent(Head(todo)) /\ NextEvent
      /\ UNCHANGED <<heard, mark, log>>
  BY DEF SkipService, histVars, newsVars
<1>2. /\ Past' = Past + 1 /\ Past \in Nat
      /\ Silent(EventsOf(heard)[Past + 1])
      /\ \A i \in 1..Past' : i \in 1..Past \/ i = Past + 1
  BY <1>1, HeadIsNext, TailIsNext
<1>3. heard # NoSignal
  BY <1>1 DEF NewsInv
<1>4. News' = News /\ \A event : Silent(event)' = Silent(event)
  BY <1>1 DEF News, Silent
<1>5. \A i \in 1..Past : i \in 1..Past'
  BY <1>2
<1> QED
  BY <1>1, <1>2, <1>3, <1>4, <1>5, TailIsNext DEF NewsInv

LEMMA UnlockListNews ==
    ASSUME ECInv, NewsInv, UnlockList
    PROVE  NewsInv'
<1>1. hpc = "run" /\ NextEvent /\ UNCHANGED <<heard, mark, log>>
  BY DEF UnlockList, histVars, newsVars
<1>2. Past' = Past
  BY <1>1, HeadIsNext, TailIsNext
<1>3. News' = News /\ \A event : Silent(event)' = Silent(event)
  BY <1>1 DEF News, Silent
<1> QED
  BY <1>1, <1>2, <1>3, TailIsNext DEF NewsInv

LEMMA LockListNews ==
    ASSUME ECInv, NewsInv, LockList
    PROVE  NewsInv'
<1> DEFINE events == EventsOf(heard)
           said == log[heard.list]
           new == Len(said) + 1
<1>1. /\ hpc = "lock" /\ hpc' = "run" /\ ~Silent(Head(todo))
      /\ log' = [log EXCEPT ![target] = Append(@, Head(todo))]
      /\ UNCHANGED <<heard, mark, todo, target>>
  BY DEF LockList, newsVars
<1>2. /\ heard \in Signals /\ heard # NoSignal /\ heard.list \in Lists /\ target = heard.list
      /\ todo \in Seq(Events) /\ todo # <<>> /\ Len(todo) \in Nat
      /\ Len(events) \in Nat
      /\ Past = Len(events) - Len(todo) /\ Past \in Nat
      /\ Past + 1 \in 1..Len(events) /\ events[Past + 1] = Head(todo)
  BY <1>1, HeadIsNext DEF NewsInv
<1>3. said \in Seq(Events) /\ Len(said) \in Nat /\ mark \in Nat /\ mark <= Len(said)
  BY <1>2 DEF ECInv, TypeOK, NewsInv
<1>4. Head(todo) \in Events
  BY <1>2, HeadTailProperties
<1>5. /\ log'[heard.list] = Append(said, Head(todo))
      /\ Len(log'[heard.list]) = new
      /\ \A k \in 1..Len(said) : log'[heard.list][k] = said[k]
      /\ log'[heard.list][new] = Head(todo)
  <2>1. log'[heard.list] = Append(said, Head(todo))
    BY <1>1, <1>2 DEF ECInv, TypeOK
  <2> QED
    BY <1>3, <1>4, <2>1, AppendProperties
<1>6. Past' = Past + 1
  <2>1. Past' = Len(events) - Len(todo) + 1
    BY <1>1 DEF Past
  <2> QED
    BY <1>2, <2>1
<1>7. News' = (mark + 1)..new /\ News = (mark + 1)..Len(said)
  BY <1>1, <1>5 DEF News
<1>8. /\ \A k \in News' : k \in News \/ k = new
      /\ News \subseteq News' /\ new \in News'
      /\ \A k \in News : k \in 1..Len(said) /\ k < new
  BY <1>3, <1>7
<1>9. /\ \A i \in 1..Past' : i \in 1..Past \/ i = Past + 1
      /\ \A i \in 1..Past : i \in 1..Past'
      /\ Past + 1 \in 1..Past'
  BY <1>2, <1>6
<1>10. \A event : Silent(event)' = Silent(event)
  BY <1>1 DEF Silent
<1>11. ASSUME NEW k \in News'
       PROVE  \E i \in 1..Past' : log'[heard.list][k] = events[i] /\ ~Silent(events[i])
  <2>1. CASE k \in News
    BY <1>2, <1>5, <1>8, <1>9, <2>1 DEF NewsInv
  <2>2. CASE k = new
    BY <1>1, <1>2, <1>5, <1>9, <2>2
  <2> QED
    BY <1>8, <2>1, <2>2
<1>12. ASSUME NEW i \in 1..Past', ~Silent(events[i])
       PROVE  \E k \in News' : log'[heard.list][k] = events[i]
  <2>1. CASE i \in 1..Past
    <3>1. PICK k \in News : said[k] = events[i]
      BY <1>2, <1>12, <2>1 DEF NewsInv
    <3> QED
      BY <1>5, <1>8, <3>1
  <2>2. CASE i = Past + 1
    BY <1>2, <1>5, <1>8, <2>2
  <2> QED
    BY <1>9, <2>1, <2>2
<1>13. ASSUME NEW j \in News', NEW k \in News', j < k
       PROVE  Before(log'[heard.list][j], log'[heard.list][k])
  <2>1. CASE j \in News /\ k \in News
    BY <1>2, <1>5, <1>8, <1>13, <2>1 DEF NewsInv
  <2>2. CASE j \in News /\ k = new
    <3>1. PICK i \in 1..Past : said[j] = events[i]
      BY <1>2, <2>2 DEF NewsInv
    <3>2. i \in 1..Len(events) /\ i < Past + 1
      BY <1>2, <3>1
    <3>3. Before(events[i], events[Past + 1])
      BY <1>2, <3>2, EventsAreOrdered
    <3> QED
      BY <1>2, <1>5, <1>8, <2>2, <3>1, <3>3
  <2>3. ~(j = new)
    BY <1>3, <1>8, <1>13, <1>7
  <2> QED
    BY <1>8, <2>1, <2>2, <2>3
<1>14. /\ hpc' # "loop" => target' = heard'.list
       /\ Len(todo') <= Len(events)
       /\ \A i \in 1..Len(todo') : todo'[i] = events[Len(events) - Len(todo') + i]
       /\ mark' <= Len(log'[heard.list])
  <2>1. mark <= new
    BY <1>3
  <2> QED
    BY <1>1, <1>2, <1>5, <2>1 DEF NewsInv
<1> HIDE DEF events, said, new
<1>15. heard' = heard /\ heard' # NoSignal /\ events' = EventsOf(heard)
  BY <1>1, <1>2 DEF events
<1> QED
  BY <1>10, <1>11, <1>12, <1>13, <1>14, <1>15 DEF NewsInv, events

LEMMA NewsNextInv == ECInv /\ NewsInv /\ [Next]_vars => NewsInv'
<1> SUFFICES ASSUME ECInv, NewsInv, [Next]_vars
             PROVE  NewsInv'
  OBVIOUS
<1>1. ASSUME \/ \E t \in Threads : Add(t)
             \/ \E s \in Signals : Send(s)
             \/ RunCallback \/ CallbackReturns
             \/ UNCHANGED vars
      PROVE  NewsInv'
  <2>1. UNCHANGED <<heard, mark, todo, log, target>>
    BY <1>1 DEF Add, AddBegin, AddEntry, AddAgentEntry, Enter, Send, RunCallback, CallbackReturns,
                vars, hVars, histVars, newsVars
  <2>2. \/ UNCHANGED hpc
        \/ hpc = "run" /\ hpc' = "in_cb"
        \/ hpc = "in_cb" /\ hpc' = "run"
    BY <1>1 DEF Add, AddBegin, AddEntry, AddAgentEntry, Send, RunCallback, CallbackReturns,
                vars, hVars
  <2> QED
    BY <2>1, <2>2, SameNews
<1> QED
  BY <1>1, DispatchNews, SkipServiceNews, LockListNews, UnlockListNews DEF Next, HandlerStep

LEMMA NewsInvariant == Spec => [](ECInv /\ NewsInv)
<1>1. Init => NewsInv
  BY DEF Init, NewsInv
<1> QED
  BY <1>1, ECInitInv, ECNextInv, NewsNextInv, PTL DEF Spec

(* When a ServicesChanged signal is handled, each callback registered       *)
(* before it was dispatched has been told of the changed services that have *)
(* properties and of the removed ones, of nothing else, each once and in    *)
(* order (connman_manager_signal_callback).                                 *)
THEOREM ServicesChangedIsReported == Spec => []ServicesAreReported
<1>1. ASSUME ECInv, NewsInv, hpc = "loop", heard.expected, heard.list = "manager",
             heard.name = "ServicesChanged",
             NEW e \in Range(callbacks["manager"]), start[e] <= mark
      PROVE  LET told == {k \in Range(got[e]) : k > mark}
             IN  /\ {log["manager"][k] : k \in told} = ServicesOf(heard)
                 /\ \A j, k \in told : j < k => Before(log["manager"][j], log["manager"][k])
  <2> DEFINE said == log["manager"]
             told == {k \in Range(got[e]) : k > mark}
             events == EventsOf(heard)
             n == Len(heard.changed)
  <2>1. heard \in Signals /\ heard \in SignalRecords /\ heard # NoSignal
    BY <1>1, ECAssumption DEF ECInv, TypeOK, NoSignal
  <2>2. told = News
    <3>1. /\ callbacks["manager"] \in Seq(Entries) /\ Len(said) \in Nat /\ mark \in Nat
      BY <1>1 DEF ECInv, TypeOK, Lists
    <3>2. PICK i \in 1..Len(callbacks["manager"]) : e = callbacks["manager"][i]
      BY <3>1 DEF Range
    <3>3. e \in Entries /\ start[e] \in Nat /\ got[e] \in Seq(Nat \ {0}) /\ Len(got[e]) \in Nat
      BY <1>1, <3>1, <3>2, ElementOfSeq DEF ECInv, TypeOK
    <3>4. /\ start[e] + Len(got[e]) = Len(said)
          /\ \A j \in 1..Len(got[e]) : got[e][j] = start[e] + j
      <4>1. Due("manager", i) = 0
        BY <1>1 DEF Due
      <4> QED
        BY <1>1, <3>1, <3>2, <3>3, <4>1 DEF ECInv, ProgressInv, Lists
    <3>5. Range(got[e]) = {got[e][j] : j \in 1..Len(got[e])}
      BY <3>3 DEF Range
    <3>6. Range(got[e]) = (start[e] + 1)..Len(said)
      <4>1. ASSUME NEW k \in (start[e] + 1)..Len(said)
            PROVE  k \in Range(got[e])
        <5>1. k - start[e] \in 1..Len(got[e]) /\ start[e] + (k - start[e]) = k
          BY <3>1, <3>3, <3>4
        <5> QED
          BY <3>4, <3>5, <5>1
      <4>2. ASSUME NEW j \in 1..Len(got[e])
            PROVE  got[e][j] \in (start[e] + 1)..Len(said)
        BY <3>1, <3>3, <3>4
      <4> QED
        BY <3>5, <4>1, <4>2
    <3>7. News = (mark + 1)..Len(said)
      BY <1>1 DEF News
    <3> QED
      BY <1>1, <3>1, <3>3, <3>6, <3>7
  <2>3. /\ n \in Nat /\ heard.removed \in Nat
        /\ Len(events) = n + heard.removed
        /\ \A i \in 1..n : events[i] = <<"SERVICE_CHANGE", i>>
        /\ \A i \in 1..heard.removed : events[n + i] = <<"SERVICE_REMOVE", i>>
    <3>1. events = ServiceEvents(heard)
      BY <1>1 DEF EventsOf
    <3> QED
      BY <2>1, <3>1, ServiceEventsAre
  <2>4. DOMAIN heard.changed = 1..n
    BY <2>1 DEF SignalRecords
  <2>5. Past = Len(events)
    <3>1. Len(todo) = 0
      BY <1>1 DEF ECInv, HandlerInv
    <3> QED
      BY <1>1, <2>3, <3>1 DEF Past
  <2>6. /\ \A k \in News : \E i \in 1..Len(events) : said[k] = events[i] /\ ~Silent(events[i])
        /\ \A i \in 1..Len(events) : ~Silent(events[i]) => \E k \in News : said[k] = events[i]
        /\ \A j, k \in News : j < k => Before(said[j], said[k])
    BY <1>1, <2>1, <2>5 DEF NewsInv
  <2> HIDE DEF said, told, events, n
  <2>7. ASSUME NEW i \in 1..Len(events), ~Silent(events[i])
        PROVE  events[i] \in ServicesOf(heard)
    <3>1. CASE i <= n
      <4>1. i \in 1..n /\ events[i] = <<"SERVICE_CHANGE", i>> /\ heard.changed[i]
        BY <2>3, <2>7, <3>1 DEF Silent
      <4> QED
        BY <2>4, <4>1 DEF ServicesOf
    <3>2. CASE i > n
      <4>1. i - n \in 1..heard.removed /\ n + (i - n) = i
        BY <2>3, <3>2
      <4>2. events[i] = <<"SERVICE_REMOVE", i - n>>
        BY <2>3, <4>1
      <4> QED
        BY <4>1, <4>2 DEF ServicesOf
    <3> QED
      BY <2>3, <3>1, <3>2
  <2>8. ASSUME NEW x \in ServicesOf(heard)
        PROVE  \E i \in 1..Len(events) : events[i] = x /\ ~Silent(events[i])
    <3>1. CASE \E i \in 1..n : heard.changed[i] /\ x = <<"SERVICE_CHANGE", i>>
      <4>1. PICK i \in 1..n : heard.changed[i] /\ x = <<"SERVICE_CHANGE", i>>
        BY <3>1
      <4>2. i \in 1..Len(events) /\ events[i] = x /\ ~Silent(events[i])
        BY <2>3, <4>1 DEF Silent
      <4> QED
        BY <4>2
    <3>2. CASE \E i \in 1..heard.removed : x = <<"SERVICE_REMOVE", i>>
      <4>1. PICK i \in 1..heard.removed : x = <<"SERVICE_REMOVE", i>>
        BY <3>2
      <4>2. n + i \in 1..Len(events) /\ events[n + i] = x /\ ~Silent(events[n + i])
        BY <2>3, <4>1 DEF Silent
      <4> QED
        BY <4>2
    <3> QED
      BY <2>4, <3>1, <3>2 DEF ServicesOf
  <2>9. {said[k] : k \in told} = ServicesOf(heard)
    <3>1. ASSUME NEW k \in told
          PROVE  said[k] \in ServicesOf(heard)
      BY <2>2, <2>6, <2>7
    <3>2. ASSUME NEW x \in ServicesOf(heard)
          PROVE  \E k \in told : said[k] = x
      BY <2>2, <2>6, <2>8
    <3> QED
      BY <3>1, <3>2
  <2>10. \A j, k \in told : j < k => Before(said[j], said[k])
    BY <2>2, <2>6
  <2> QED
    BY <2>9, <2>10 DEF said, told
<1>2. ECInv /\ NewsInv => ServicesAreReported
  BY <1>1 DEF ServicesAreReported
<1> QED
  BY <1>2, NewsInvariant, PTL

-------------------------------------------------------------------------------
(* The callbacks implement EventFeed.                                       *)

LEMMA CursorIs ==
    ASSUME ECInv, NEW l \in Lists, NEW i \in 1..Len(callbacks[l])
    PROVE  /\ callbacks[l][i] \in Entries
           /\ Cursor[callbacks[l][i]] \in Nat
           /\ Cursor[callbacks[l][i]] = Len(log[l]) - Due(l, i)
           /\ Due(l, i) \in {0, 1}
<1> DEFINE e == callbacks[l][i]
<1>1. e \in Entries
  BY ElementOfSeq DEF ECInv, TypeOK
<1>2. start[e] \in Nat /\ Len(got[e]) \in Nat /\ Len(log[l]) \in Nat
  BY <1>1 DEF ECInv, TypeOK
<1>3. Cursor[e] = start[e] + Len(got[e])
  BY <1>1 DEF Cursor
<1>4. start[e] + Len(got[e]) + Due(l, i) = Len(log[l])
  BY DEF ECInv, ProgressInv
<1>5. CASE Due(l, i) = 0
  BY <1>1, <1>2, <1>3, <1>4, <1>5
<1>6. CASE Due(l, i) = 1
  <2>1. Cursor[e] \in Nat /\ Cursor[e] + 1 = Len(log[l])
    BY <1>2, <1>3, <1>4, <1>6
  <2>2. Cursor[e] = Len(log[l]) - 1
    BY <1>2, <2>1
  <2> QED
    BY <1>1, <1>6, <2>1, <2>2
<1>7. Due(l, i) = 0 \/ Due(l, i) = 1
  BY DEF Due
<1> QED
  BY <1>5, <1>6, <1>7

LEMMA CaughtUpIfNotRun ==
    ASSUME ECInv, NEW l \in Lists, mutex[l] = Nobody
    PROVE  Feed!CaughtUp(l)
<1>1. ASSUME NEW i \in 1..Len(callbacks[l])
      PROVE  Cursor[callbacks[l][i]] = Len(log[l])
  <2>1. Due(l, i) = 0
    BY NotRun DEF Due
  <2>2. Len(log[l]) \in Nat
    BY DEF ECInv, TypeOK
  <2> QED
    BY <2>1, <2>2, CursorIs
<1> QED
  BY <1>1 DEF Feed!CaughtUp

LEMMA EnterSubscribes ==
    ASSUME ECInv, NEW t \in Threads, NEW l \in Lists, want[t] # "none",
           mutex[l] = Nobody, Enter(l), UNCHANGED <<log, got>>
    PROVE  Feed!Subscribe(NewEntry, l)
<1> DEFINE new == NewEntry
<1>1. new \in Entries /\ new \notin Registered
  BY EntryIsLeft
<1> HIDE DEF new
<1>2. /\ callbacks' = [callbacks EXCEPT ![l] = Append(@, new)]
      /\ start' = [start EXCEPT ![new] = Len(log[l])]
  BY DEF Enter, new
<1>3. ~Feed!Subscribed(new)
  BY <1>1, RegisteredIs DEF ECInv, Feed!Subscribed
<1>4. Cursor' = [Cursor EXCEPT ![new] = Len(log[l])]
  <2>1. got[new] = <<>> /\ Len(log[l]) \in Nat
    BY <1>1 DEF ECInv, ProgressInv, TypeOK
  <2>2. \A e \in Entries : start'[e] + Len(got'[e]) =
            IF e = new THEN Len(log[l]) ELSE start[e] + Len(got[e])
    <3>1. start'[new] = Len(log[l]) /\ Len(got'[new]) = 0
      BY <1>1, <1>2, <2>1 DEF ECInv, TypeOK
    <3>2. ASSUME NEW e \in Entries, e # new
          PROVE  start'[e] = start[e] /\ got'[e] = got[e]
      BY <1>2, <3>2 DEF ECInv, TypeOK
    <3> QED
      BY <2>1, <3>1, <3>2
  <2> QED
    BY <1>1, <2>2 DEF Cursor
<1> QED
  BY <1>1, <1>2, <1>3, <1>4, CaughtUpIfNotRun DEF Feed!Subscribe, new

LEMMA SameFeed ==
    ASSUME UNCHANGED <<log, callbacks, start, got>>
    PROVE  UNCHANGED Feed!feedVars
  BY DEF Feed!feedVars, Cursor

LEMMA LockListPublishes ==
    ASSUME ECInv, LockList
    PROVE  Feed!Publish(target, Head(todo)) /\ target \in Lists /\ Head(todo) \in Events
<1>1. target \in Lists /\ Head(todo) \in Events
  BY HeadTailProperties DEF LockList, ECInv, HandlerInv, TypeOK
<1>2. Feed!CaughtUp(target)
  BY <1>1, CaughtUpIfNotRun DEF LockList
<1>3. Cursor' = Cursor
  BY DEF LockList, Cursor
<1> QED
  BY <1>1, <1>2, <1>3 DEF LockList, Feed!Publish

LEMMA RunCallbackDelivers ==
    ASSUME ECInv, RunCallback
    PROVE  /\ Feed!Deliver(target, pos)
           /\ target \in Lists /\ pos \in 1..Len(callbacks[target])
<1> DEFINE e == callbacks[target][pos]
           n == Len(log[target])
<1>1. /\ hpc = "run" /\ got' = [got EXCEPT ![e] = Append(@, n)]
      /\ UNCHANGED <<callbacks, log, start>>
  BY DEF RunCallback, listVars
<1>2. target \in Lists /\ pos \in 1..Len(callbacks[target])
  BY DEF RunCallback, ECInv, HandlerInv, TypeOK
<1>3. n \in Nat /\ Len(callbacks[target]) \in Nat
  BY <1>2 DEF ECInv, TypeOK
<1>4. /\ e \in Entries /\ Cursor[e] < n
      /\ \A j \in 1..(pos - 1) : Cursor[callbacks[target][j]] = n
  <2>1. Due(target, pos) = 1 /\ \A j \in 1..(pos - 1) : Due(target, j) = 0
    BY <1>1, <1>2 DEF Due
  <2>2. \A j \in 1..(pos - 1) : j \in 1..Len(callbacks[target])
    BY <1>2, <1>3
  <2> QED
    BY <1>2, <1>3, <2>1, <2>2, CursorIs
<1>5. Cursor' = [Cursor EXCEPT ![e] = @ + 1]
  <2>1. n \in Nat \ {0}
    BY <1>2, <1>3, <1>4, CursorIs
  <2> HIDE DEF n
  <2>2. got[e] \in Seq(Nat \ {0}) /\ start[e] \in Nat /\ Len(got[e]) \in Nat
    BY <1>4 DEF ECInv, TypeOK
  <2>3. got'[e] = Append(got[e], n) /\ \A f \in Entries \ {e} : got'[f] = got[f]
    BY <1>1, <1>4 DEF ECInv, TypeOK
  <2>4. Len(got'[e]) = Len(got[e]) + 1
    BY <2>1, <2>2, <2>3, AppendProperties
  <2> HIDE DEF e
  <2>5. \A f \in Entries : start'[f] + Len(got'[f]) =
            IF f = e THEN start[e] + Len(got[e]) + 1 ELSE start[f] + Len(got[f])
    BY <1>1, <2>2, <2>3, <2>4
  <2> QED
    BY <1>4, <2>2, <2>5 DEF Cursor
<1> QED
  BY <1>1, <1>2, <1>4, <1>5 DEF Feed!Deliver

LEMMA FeedInitially == Init => Feed!FeedInit
  BY DEF Init, Feed!FeedInit, Cursor

LEMMA NextFeeds == ECInv /\ [Next]_vars => [Feed!FeedNext]_(Feed!feedVars)
<1> SUFFICES ASSUME ECInv, [Next]_vars
             PROVE  [Feed!FeedNext]_(Feed!feedVars)
  OBVIOUS
<1>1. ASSUME NEW t \in Threads, AddEntry(t) \/ AddAgentEntry(t)
      PROVE  [Feed!FeedNext]_(Feed!feedVars)
  <2>1. /\ want[t] \in Lists /\ want[t] # "none" /\ mutex[want[t]] = Nobody
        /\ UNCHANGED <<log, got>>
        /\ Enter(want[t]) \/ UNCHANGED <<callbacks, start>>
    BY <1>1 DEF AddEntry, AddAgentEntry, Lists
  <2>2. CASE Enter(want[t])
    BY <2>1, <2>2, EnterSubscribes, EntryIsLeft DEF Feed!FeedNext
  <2>3. CASE UNCHANGED <<callbacks, start>>
    BY <2>1, <2>3, SameFeed
  <2> QED
    BY <2>1, <2>2, <2>3
<1>2. CASE LockList
  BY <1>2, LockListPublishes DEF Feed!FeedNext
<1>3. CASE RunCallback
  BY <1>3, RunCallbackDelivers DEF Feed!FeedNext
<1>4. ASSUME \/ \E t \in Threads, l \in Lists : AddBegin(t, l)
             \/ \E s \in Signals : Send(s)
             \/ Dispatch \/ SkipService \/ CallbackReturns \/ UnlockList
             \/ UNCHANGED vars
      PROVE  UNCHANGED Feed!feedVars
  <2>1. UNCHANGED <<log, callbacks, start, got>>
    BY <1>4 DEF AddBegin, Send, Dispatch, SkipService, CallbackReturns, UnlockList, vars, listVars, histVars, newsVars
  <2> QED
    BY <2>1, SameFeed
<1> QED
  BY <1>1, <1>2, <1>3, <1>4 DEF Next, Add, HandlerStep

(* Registration and the events are what EventFeed promises: one log per     *)
(* list, read by each callback without a gap, in the order of registration. *)
THEOREM CallbacksImplementFeed == Spec => ImplementsFeed
  BY FeedInitially, NextFeeds, ECInvariant, PTL DEF Spec, ImplementsFeed, Feed!FeedSpec
===============================================================================
