---------------------------- MODULE CallWorkProofs ----------------------------
(***************************************************************************)
(* The table of pending calls, for every number of threads, keys and calls *)
(* and every width of int: its invariants, and that it implements the      *)
(* register per key of PendingSlots.                                       *)
(***************************************************************************)
EXTENDS CallWork, FiniteSetTheorems, TLAPS

(* A lookup returns NULL if and only if nothing matches, and otherwise one  *)
(* of the matching calls.                                                   *)
LEMMA LookupInResult ==
    ASSUME NEW S, S \subseteq Calls
    PROVE  /\ LookupIn(S) = NoCall <=> S = {}
           /\ S # {} => LookupIn(S) \in S
  BY CWAssumption DEF LookupIn

LEMMA LookupKeyResult ==
    ASSUME CWTypeOK, NEW k
    PROVE  /\ LookupKey(k) = NoCall <=> \A c \in cw_pending : key[c] # k
           /\ LookupKey(k) # NoCall =>
                  LookupKey(k) \in cw_pending /\ key[LookupKey(k)] = k
<1> DEFINE S == {c \in cw_pending : key[c] = k}
<1>1. S \subseteq Calls
  BY DEF CWTypeOK
<1>2. LookupKey(k) = LookupIn(S)
  BY DEF LookupKey
<1> QED
  BY <1>1, <1>2, LookupInResult

LEMMA LookupIdResult ==
    ASSUME CWTypeOK, NEW n
    PROVE  /\ LookupId(n) = NoCall <=> \A c \in cw_pending : id[c] # n
           /\ LookupId(n) # NoCall =>
                  LookupId(n) \in cw_pending /\ id[LookupId(n)] = n
<1> DEFINE S == {c \in cw_pending : id[c] = n}
<1>1. S \subseteq Calls
  BY DEF CWTypeOK
<1>2. LookupId(n) = LookupIn(S)
  BY DEF LookupId
<1> QED
  BY <1>1, <1>2, LookupInResult

(* The counter stays within its values, overflow included, and those are    *)
(* neither 0 nor -1.                                                        *)
LEMMA CounterStaysInRange ==
    ASSUME NEW n \in IdValues
    PROVE  AfterIncrement(n) \subseteq IdValues
  BY CWAssumption DEF AfterIncrement, IdValues, MinInt

LEMMA IdValuesUsable ==
    /\ 0 \notin IdValues
    /\ -1 \notin IdValues
    /\ 1 \in IdValues
  BY CWAssumption DEF IdValues, MinInt

-------------------------------------------------------------------------------
LEMMA CWInitInv == CWInit => CWInv
  BY CWAssumption, IdValuesUsable
     DEF CWInit, CWInv, CWTypeOK, OnePendingPerKey, IdsTellCallsApart,
         PendingUntilDestroyed, Created

LEMMA CreateBeginInv ==
    ASSUME CWInv, NEW t \in CWThreads, NEW k \in Keys, NEW c \in Calls,
           CreateBegin(t, k, c)
    PROVE  CWInv'
<1> USE DEF CWInv
<1>1. c \notin cw_pending /\ c \notin closed
  BY DEF CreateBegin, PendingUntilDestroyed, Created
<1>2. CWTypeOK'
  BY DEF CreateBegin, CWTypeOK
<1>3. \A d \in cw_pending : key[d] # k
  BY LookupKeyResult DEF CreateBegin
<1>4. \A d \in cw_pending : key'[d] = key[d]
  BY <1>1 DEF CreateBegin, CWTypeOK
<1>5. key'[c] = k /\ k # NoKey /\ c # NoCall /\ t # Free
  BY CWAssumption DEF CreateBegin, CWTypeOK
<1>6. (OnePendingPerKey /\ IdsTellCallsApart)'
  BY <1>4 DEF CreateBegin, OnePendingPerKey, IdsTellCallsApart
<1>7. {d \in Calls : Created(d)}' = {d \in Calls : Created(d)}
  <2>1. creating = NoCall /\ creating' = c /\ key[c] = NoKey
    BY DEF CreateBegin
  <2>2. \A d \in Calls : Created(d)' <=> Created(d)
    BY <1>5, <2>1, CWAssumption DEF CreateBegin, Created, CWTypeOK
  <2> QED
    BY <2>2
<1>8. (PendingUntilDestroyed /\ closed \subseteq {d \in Calls : Created(d)})'
  BY <1>7 DEF CreateBegin, PendingUntilDestroyed
<1> QED
  BY <1>1, <1>2, <1>3, <1>4, <1>5, <1>6, <1>8 DEF CreateBegin

LEMMA CreateTryIdInv ==
    ASSUME CWInv, NEW t \in CWThreads, CreateTryId(t)
    PROVE  CWInv'
<1> USE DEF CWInv
<1>1. creating \in Calls /\ creating \notin cw_pending /\ creating \notin closed
  BY CWAssumption DEF CreateTryId, CWTypeOK, PendingUntilDestroyed, Created
<1>2. next_cw_id' \in IdValues
  BY CounterStaysInRange DEF CreateTryId, CWTypeOK
<1>3. /\ id'[creating] = next_cw_id
      /\ \A d \in Calls \ {creating} : id'[d] = id[d]
  BY <1>1 DEF CreateTryId, CWTypeOK
<1>4. CASE LookupId(next_cw_id) # NoCall
  <2>1. CWTypeOK'
    BY <1>1, <1>2, <1>4 DEF CreateTryId, CWTypeOK
  <2>2. (OnePendingPerKey /\ IdsTellCallsApart)'
    BY <1>1, <1>3, <1>4 DEF CreateTryId, OnePendingPerKey, IdsTellCallsApart, CWTypeOK
  <2>3. (PendingUntilDestroyed /\ closed \subseteq {d \in Calls : Created(d)})'
    BY <1>4 DEF CreateTryId, PendingUntilDestroyed, Created
  <2> QED
    BY <1>1, <1>3, <1>4, <2>1, <2>2, <2>3 DEF CreateTryId, CWTypeOK
<1>5. CASE LookupId(next_cw_id) = NoCall
  <2>1. CWTypeOK'
    BY <1>1, <1>2, <1>5 DEF CreateTryId, CWTypeOK
  <2>2. \A d \in cw_pending : id[d] # next_cw_id
    BY <1>5, LookupIdResult
  <2>3. next_cw_id \notin {-1, 0}
    BY IdValuesUsable DEF CWTypeOK
  <2>4. cw_pending' = cw_pending \cup {creating} /\ UNCHANGED <<key, closed>>
    BY <1>5 DEF CreateTryId
  <2>5. OnePendingPerKey'
    <3>1. \A d \in cw_pending : key[d] # key[creating]
      BY <1>1, CWAssumption
    <3> QED
      BY <2>4, <3>1 DEF OnePendingPerKey
  <2>6. IdsTellCallsApart'
    BY <1>1, <1>3, <2>2, <2>3, <2>4 DEF IdsTellCallsApart, CWTypeOK
  <2>7. creating' = NoCall /\ cw_mutex' = Free /\ NoCall \notin Calls
    BY <1>5, CWAssumption DEF CreateTryId
  <2>8. {d \in Calls : Created(d)}' = {d \in Calls : Created(d)} \cup {creating}
    BY <1>1, <2>4, <2>7 DEF Created
  <2>9. (PendingUntilDestroyed /\ closed \subseteq {d \in Calls : Created(d)})'
    BY <1>1, <2>4, <2>8 DEF PendingUntilDestroyed
  <2> QED
    BY <2>1, <2>4, <2>5, <2>6, <2>7, <2>9 DEF IdsTellCallsApart
<1> QED
  BY <1>4, <1>5

LEMMA DestroyInv ==
    ASSUME CWInv, NEW c \in Calls, Created(c), Destroy(c)
    PROVE  /\ CWInv'
           /\ cw_pending' = cw_pending \ {c}
<1> USE DEF CWInv
<1>1. c \in cw_pending => LookupId(id[c]) = c
  BY LookupIdResult DEF IdsTellCallsApart, CWTypeOK
<1>2. c \notin cw_pending => LookupId(id[c]) # c
  BY LookupIdResult, CWAssumption
<1>3. cw_pending' = cw_pending \ {c}
  BY <1>1, <1>2 DEF Destroy
<1>4. CWTypeOK'
  BY <1>3 DEF Destroy, CWTypeOK
<1>5. (OnePendingPerKey /\ IdsTellCallsApart)'
  BY <1>3 DEF Destroy, OnePendingPerKey, IdsTellCallsApart
<1>6. {d \in Calls : Created(d)}' = {d \in Calls : Created(d)}
  BY DEF Destroy, Created
<1>7. (PendingUntilDestroyed /\ closed \subseteq {d \in Calls : Created(d)})'
  BY <1>3, <1>6 DEF Destroy, PendingUntilDestroyed
<1> QED
  BY <1>3, <1>4, <1>5, <1>7 DEF Destroy, Created

LEMMA CWNextInv == CWInv /\ [CWNext]_cwVars => CWInv'
<1> SUFFICES ASSUME CWInv, [CWNext]_cwVars PROVE CWInv'
  OBVIOUS
<1>1. CASE \E t \in CWThreads, k \in Keys, c \in Calls : CreateBegin(t, k, c)
  BY <1>1, CreateBeginInv
<1>2. CASE \E t \in CWThreads : CreateTryId(t)
  BY <1>2, CreateTryIdInv
<1>3. CASE \E c \in Calls : Created(c) /\ Destroy(c)
  BY <1>3, DestroyInv
<1>4. CASE UNCHANGED cwVars
  BY <1>4 DEF cwVars, CWInv, CWTypeOK, OnePendingPerKey, IdsTellCallsApart,
              PendingUntilDestroyed, Created
<1> QED
  BY <1>1, <1>2, <1>3, <1>4 DEF CWNext

(* The inductive invariant holds in every reachable state.                  *)
THEOREM CWInvariant == CWSpec => []CWInv
  BY CWInitInv, CWNextInv, PTL DEF CWSpec

(* Type correctness of the table.                                           *)
THEOREM CWTypeCorrect == CWSpec => []CWTypeOK
<1>1. CWInv => CWTypeOK
  BY DEF CWInv
<1> QED
  BY <1>1, CWInvariant, PTL

(* However many threads race to create calls, one key has one pending call. *)
THEOREM SinglePendingCall == CWSpec => []OnePendingPerKey
<1>1. CWInv => OnePendingPerKey
  BY DEF CWInv
<1> QED
  BY <1>1, CWInvariant, PTL

(* Identifiers are distinct and usable, however often the counter of any    *)
(* width overflowed and whichever way the build treats the overflow.        *)
THEOREM DistinctIds == CWSpec => []IdsTellCallsApart
<1>1. CWInv => IdsTellCallsApart
  BY DEF CWInv
<1> QED
  BY <1>1, CWInvariant, PTL

(* Destroying a call unlinks that call and no other.                        *)
THEOREM DestroyIsExact == CWSpec => []PendingUntilDestroyed
<1>1. CWInv => PendingUntilDestroyed
  BY DEF CWInv
<1> QED
  BY <1>1, CWInvariant, PTL

-------------------------------------------------------------------------------
(* How many calls have been numbered.                                       *)
LEMMA NumberedCount ==
    ASSUME CallsFitCounter
    PROVE  /\ IsFiniteSet(Numbered) /\ Cardinality(Numbered) \in Nat
           /\ \A c \in Calls : c \notin Numbered =>
                  /\ Cardinality(Numbered) < MaxInt
                  /\ Cardinality(Numbered \cup {c}) = Cardinality(Numbered) + 1
<1>1. IsFiniteSet(Calls) /\ Cardinality(Calls) \in Nat /\ Cardinality(Calls) <= MaxInt
  BY FS_CardinalityType DEF CallsFitCounter
<1>2. Numbered \subseteq Calls
  BY DEF Numbered
<1>3. IsFiniteSet(Numbered) /\ Cardinality(Numbered) \in Nat
  BY <1>1, <1>2, FS_Subset, FS_CardinalityType
<1>4. ASSUME NEW c \in Calls, c \notin Numbered
      PROVE  /\ Cardinality(Numbered) < MaxInt
             /\ Cardinality(Numbered \cup {c}) = Cardinality(Numbered) + 1
  <2>1. Cardinality(Numbered \cup {c}) = Cardinality(Numbered) + 1
    BY <1>3, <1>4, FS_AddElement
  <2>2. Numbered \cup {c} \subseteq Calls
    BY <1>2, <1>4
  <2>3. Cardinality(Numbered \cup {c}) <= Cardinality(Calls)
    BY <1>1, <2>2, FS_Subset
  <2> QED
    BY <1>1, <1>3, <2>1, <2>3, CWAssumption
<1> QED
  BY <1>3, <1>4

LEMMA NumberingInit == CWInit => NumberingInv
<1> SUFFICES ASSUME CWInit PROVE NumberingInv
  OBVIOUS
<1>1. Numbered = {}
  BY DEF CWInit, Numbered
<1> QED
  BY <1>1, FS_EmptySet DEF CWInit, NumberingInv

(* The number a call tries first is free, so that its creation takes one    *)
(* turn of the loop and one number.                                         *)
LEMMA NumberingTryId ==
    ASSUME CallsFitCounter, CWInv, NumberingInv, NEW t \in CWThreads, CreateTryId(t)
    PROVE  NumberingInv'
<1> DEFINE N == Cardinality(Numbered)
<1>1. /\ creating \in Calls /\ creating \notin cw_pending /\ creating \notin closed
      /\ creating \notin Numbered
  BY CWAssumption
     DEF CreateTryId, CWInv, CWTypeOK, PendingUntilDestroyed, Created, NumberingInv
<1>2. N \in Nat /\ N < MaxInt /\ Cardinality(Numbered \cup {creating}) = N + 1
  BY <1>1, NumberedCount
<1>3. next_cw_id = N + 1 /\ \A c \in Numbered : id[c] \in 1..N
  BY <1>2 DEF NumberingInv
<1>4. LookupId(next_cw_id) = NoCall
  <2>1. \A c \in cw_pending : c \in Numbered
    BY DEF NumberingInv
  <2>2. \A c \in cw_pending : id[c] # next_cw_id
    BY <1>2, <1>3, <2>1
  <2> QED
    BY <2>2, LookupIdResult DEF CWInv
<1>5. /\ id' = [id EXCEPT ![creating] = N + 1]
      /\ next_cw_id' \in AfterIncrement(N + 1)
      /\ cw_pending' = cw_pending \cup {creating} /\ closed' = closed
  BY <1>3, <1>4 DEF CreateTryId
<1>6. id'[creating] = N + 1 /\ \A c \in Calls \ {creating} : id'[c] = id[c]
  BY <1>1, <1>5 DEF CWInv, CWTypeOK
<1>7. Numbered' = Numbered \cup {creating}
  BY <1>1, <1>2, <1>6 DEF Numbered
<1>8. Cardinality(Numbered)' = N + 1
  BY <1>2, <1>7
<1>9. N + 1 < MaxInt => next_cw_id' = N + 2
  BY <1>2, <1>5, CWAssumption DEF AfterIncrement
<1>10. (Numbered = cw_pending \cup closed)'
  BY <1>5, <1>7 DEF NumberingInv
<1>11. \A c \in Numbered : c # creating /\ id'[c] = id[c] /\ id[c] \in 1..N
  BY <1>1, <1>3, <1>6 DEF Numbered
<1>12. \A c \in Numbered' : id'[c] \in 1..(N + 1)
  BY <1>2, <1>6, <1>7, <1>11
<1>13. \A c, d \in Numbered' : id'[c] = id'[d] => c = d
  BY <1>2, <1>6, <1>7, <1>11 DEF NumberingInv
<1>14. (\A c \in Numbered : id[c] \in 1..Cardinality(Numbered))'
  BY <1>8, <1>12
<1>15. (Cardinality(Numbered) < MaxInt => next_cw_id = Cardinality(Numbered) + 1)'
  BY <1>2, <1>8, <1>9
<1> QED
  BY <1>10, <1>13, <1>14, <1>15 DEF NumberingInv

LEMMA NumberingStep ==
    ASSUME CallsFitCounter, CWInv, NumberingInv, [CWNext]_cwVars
    PROVE  NumberingInv'
<1>1. ASSUME UNCHANGED <<id, next_cw_id>>, (cw_pending \cup closed)' = cw_pending \cup closed
      PROVE  NumberingInv'
  <2>1. Numbered' = Numbered
    BY <1>1 DEF Numbered
  <2> QED
    BY <1>1, <2>1 DEF NumberingInv
<1>2. ASSUME NEW t \in CWThreads, NEW k \in Keys, NEW c \in Calls, CreateBegin(t, k, c)
      PROVE  NumberingInv'
  BY <1>1, <1>2 DEF CreateBegin
<1>3. ASSUME NEW c \in Calls, Created(c), Destroy(c)
      PROVE  NumberingInv'
  <2>1. c \in cw_pending \cup closed
    BY <1>3 DEF CWInv, PendingUntilDestroyed
  <2>2. cw_pending' = cw_pending \ {c} /\ closed' = closed \cup {c}
    BY <1>3, DestroyInv DEF Destroy
  <2> QED
    BY <1>1, <1>3, <2>1, <2>2 DEF Destroy
<1>4. CASE UNCHANGED cwVars
  BY <1>1, <1>4 DEF cwVars
<1> QED
  BY <1>2, <1>3, <1>4, NumberingTryId DEF CWNext

(* Identifiers are not reused by a program that makes no more calls than    *)
(* the counter has values.                                                  *)
THEOREM IdsAreNotReused == ASSUME CallsFitCounter PROVE CWSpec => []NumberingInv
<1>1. CWInv /\ NumberingInv /\ [CWNext]_cwVars => NumberingInv'
  BY NumberingStep
<1> QED
  BY <1>1, NumberingInit, CWInvariant, PTL DEF CWSpec

-------------------------------------------------------------------------------
(* The refinement.  Under the invariant a slot is the one pending call with *)
(* its key, a tag is the identifier of a call that was ever linked.         *)
SlotOf == [k \in Keys |-> LookupKey(k)]
TagOf == [c \in Calls |-> IF c \in cw_pending \cup closed THEN id[c] ELSE 0]
AdmittedOf == cw_pending \cup closed

LEMMA SlotOfPending ==
    ASSUME CWInv, NEW c \in cw_pending
    PROVE  key[c] \in Keys /\ SlotOf[key[c]] = c
<1>1. c \in Calls /\ key[c] \in Keys
  <2>1. c \in Calls /\ Created(c)
    BY DEF CWInv, PendingUntilDestroyed
  <2> QED
    BY <2>1 DEF CWInv, CWTypeOK, Created
<1>2. LookupKey(key[c]) \in cw_pending /\ key[LookupKey(key[c])] = key[c]
  <2>1. LookupKey(key[c]) # NoCall
    BY LookupKeyResult DEF CWInv
  <2> QED
    BY <2>1, LookupKeyResult DEF CWInv
<1>3. LookupKey(key[c]) = c
  BY <1>2 DEF CWInv, OnePendingPerKey
<1> QED
  BY <1>1, <1>3 DEF SlotOf

(* A step that neither links nor unlinks a call, nor changes what a linked  *)
(* or destroyed one is, leaves the register alone.                          *)
LEMMA StutterOfSlots ==
    ASSUME UNCHANGED <<cw_pending, closed>>,
           \A c \in cw_pending : key'[c] = key[c],
           \A c \in cw_pending \cup closed : id'[c] = id[c]
    PROVE  UNCHANGED <<SlotOf, TagOf, AdmittedOf>>
<1>1. ASSUME NEW k \in Keys
      PROVE  LookupKey(k)' = LookupKey(k)
  <2> DEFINE S == {c \in cw_pending : key[c] = k}
             T == {c \in cw_pending' : key'[c] = k}
  <2>1. S = T
    OBVIOUS
  <2>2. LookupKey(k) = LookupIn(S) /\ LookupKey(k)' = LookupIn(T)
    BY DEF LookupKey
  <2> HIDE DEF S, T
  <2> QED
    BY <2>1, <2>2
<1>2. SlotOf' = SlotOf
  BY <1>1 DEF SlotOf
<1>3. TagOf' = TagOf
  BY DEF TagOf
<1> QED
  BY <1>2, <1>3 DEF AdmittedOf

LEMMA SlotsInit == CWInit => Slots!SlotInit
<1> SUFFICES ASSUME CWInit PROVE Slots!SlotInit
  OBVIOUS
<1>1. SlotOf = [k \in Keys |-> NoCall]
  BY DEF CWInit, SlotOf, LookupKey, LookupIn
<1>2. TagOf \in [Calls -> IdValues \cup {0}]
  BY DEF CWInit, TagOf
<1>3. AdmittedOf = {}
  BY DEF CWInit, AdmittedOf
<1> QED
  BY <1>1, <1>2, <1>3 DEF Slots!SlotInit, SlotOf, TagOf, AdmittedOf

(* The identifier that ends the search admits the object.                   *)
LEMMA CreateAdmits ==
    ASSUME CWInv, NEW t \in CWThreads, CreateTryId(t), LookupId(next_cw_id) = NoCall,
           NEW c \in Calls, NEW k \in Keys, NEW n \in IdValues,
           c = creating, k = key[creating], n = next_cw_id
    PROVE  Slots!Admit(c, k, n)
<1>1. /\ c \in Calls /\ c \notin cw_pending /\ c \notin closed
      /\ k \in Keys
      /\ \A d \in cw_pending : key[d] # k
  BY CWAssumption DEF CreateTryId, CWInv, CWTypeOK, PendingUntilDestroyed, Created
<1>2. /\ cw_pending' = cw_pending \cup {c}
      /\ UNCHANGED <<key, closed>>
      /\ id' = [id EXCEPT ![c] = n]
  BY DEF CreateTryId
<1>3. c \notin AdmittedOf
  BY <1>1 DEF AdmittedOf
<1>4. SlotOf[k] = NoCall
  BY <1>1, LookupKeyResult DEF SlotOf, CWInv
<1>5. ASSUME NEW j \in Keys, SlotOf[j] # NoCall
      PROVE  TagOf[SlotOf[j]] # n
  <2>1. SlotOf[j] \in cw_pending
    BY <1>5, LookupKeyResult DEF SlotOf, CWInv
  <2>2. \A d \in cw_pending : d \in Calls /\ id[d] # n
    BY LookupIdResult DEF CWInv, CWTypeOK
  <2> QED
    BY <2>1, <2>2 DEF TagOf
<1>6. SlotOf' = [SlotOf EXCEPT ![k] = c]
  <2>1. ASSUME NEW j \in Keys
        PROVE  LookupKey(j)' = IF j = k THEN c ELSE LookupKey(j)
    <3> DEFINE S == {d \in cw_pending : key[d] = j}
               T == {d \in cw_pending' : key'[d] = j}
    <3>1. LookupKey(j) = LookupIn(S) /\ LookupKey(j)' = LookupIn(T)
      BY DEF LookupKey
    <3>2. T = IF j = k THEN {c} ELSE S
      BY <1>1, <1>2
    <3>3. LookupIn({c}) = c
      BY <1>1, LookupInResult
    <3> HIDE DEF S, T
    <3> QED
      BY <3>1, <3>2, <3>3
  <2> QED
    BY <1>1, <2>1 DEF SlotOf
<1>7. TagOf' = [TagOf EXCEPT ![c] = n]
  BY <1>1, <1>2 DEF TagOf, CWInv, CWTypeOK
<1>8. AdmittedOf' = AdmittedOf \cup {c}
  BY <1>2 DEF AdmittedOf
<1> QED
  BY <1>3, <1>4, <1>5, <1>6, <1>7, <1>8
     DEF Slots!Admit, Slots!Occupied, SlotOf, TagOf, AdmittedOf

(* Destroying a pending call releases its slot.                             *)
LEMMA DestroyReleases ==
    ASSUME CWInv, NEW c \in cw_pending, Created(c), Destroy(c)
    PROVE  key[c] \in Keys /\ Slots!Release(key[c])
<1> DEFINE k == key[c]
<1>1. c \in Calls /\ k \in Keys /\ SlotOf[k] = c /\ c # NoCall
  BY SlotOfPending, CWAssumption DEF CWInv, CWTypeOK
<1>2. cw_pending' = cw_pending \ {c}
  BY <1>1, DestroyInv
<1>3. UNCHANGED <<key, id>> /\ closed' = closed \cup {c}
  BY DEF Destroy
<1>4. SlotOf' = [SlotOf EXCEPT ![k] = NoCall]
  <2>1. ASSUME NEW j \in Keys
        PROVE  LookupKey(j)' = IF j = k THEN NoCall ELSE LookupKey(j)
    <3> DEFINE S == {d \in cw_pending : key[d] = j}
               T == {d \in cw_pending' : key'[d] = j}
    <3>1. LookupKey(j) = LookupIn(S) /\ LookupKey(j)' = LookupIn(T)
      BY DEF LookupKey
    <3>2. T = IF j = k THEN {} ELSE S
      BY <1>2, <1>3 DEF CWInv, OnePendingPerKey
    <3>3. LookupIn({}) = NoCall
      BY DEF LookupIn
    <3> HIDE DEF S, T, k
    <3> QED
      BY <3>1, <3>2, <3>3
  <2> QED
    BY <1>1, <2>1 DEF SlotOf
<1>5. UNCHANGED <<TagOf, AdmittedOf>>
  BY <1>2, <1>3 DEF TagOf, AdmittedOf
<1> QED
  BY <1>1, <1>4, <1>5 DEF Slots!Release, SlotOf, TagOf, AdmittedOf

LEMMA SlotsStep == CWInv /\ [CWNext]_cwVars => [Slots!SlotNext]_(Slots!slotVars)
<1> SUFFICES ASSUME CWInv, [CWNext]_cwVars PROVE [Slots!SlotNext]_(Slots!slotVars)
  OBVIOUS
<1>1. UNCHANGED <<SlotOf, TagOf, AdmittedOf>> => UNCHANGED Slots!slotVars
  BY DEF Slots!slotVars, SlotOf, TagOf, AdmittedOf
<1>2. ASSUME NEW t \in CWThreads, NEW k \in Keys, NEW c \in Calls, CreateBegin(t, k, c)
      PROVE  UNCHANGED Slots!slotVars
  <2>1. c \notin cw_pending
    BY <1>2 DEF CreateBegin, CWInv, PendingUntilDestroyed, Created
  <2>2. \A d \in cw_pending : key'[d] = key[d]
    BY <1>2, <2>1 DEF CreateBegin, CWInv, CWTypeOK
  <2> QED
    BY <1>1, <1>2, <2>2, StutterOfSlots DEF CreateBegin
<1>3. ASSUME NEW t \in CWThreads, CreateTryId(t)
      PROVE  Slots!SlotNext \/ UNCHANGED Slots!slotVars
  <2>1. /\ creating \in Calls /\ creating \notin cw_pending /\ creating \notin closed
        /\ key[creating] \in Keys /\ next_cw_id \in IdValues
    BY <1>3, CWAssumption
       DEF CreateTryId, CWInv, CWTypeOK, PendingUntilDestroyed, Created
  <2>2. CASE LookupId(next_cw_id) = NoCall
    <3>1. PICK c \in Calls, k \in Keys, n \in IdValues :
              c = creating /\ k = key[creating] /\ n = next_cw_id
      BY <2>1
    <3>2. Slots!Admit(c, k, n)
      BY <1>3, <2>2, <3>1, CreateAdmits
    <3> QED
      BY <3>2 DEF Slots!SlotNext
  <2>3. CASE LookupId(next_cw_id) # NoCall
    <3>1. \A d \in cw_pending \cup closed : id'[d] = id[d]
      BY <1>3, <2>1 DEF CreateTryId, CWInv, CWTypeOK
    <3> QED
      BY <1>1, <1>3, <2>3, <3>1, StutterOfSlots DEF CreateTryId
  <2> QED
    BY <2>2, <2>3
<1>4. ASSUME NEW c \in Calls, Created(c), Destroy(c)
      PROVE  Slots!SlotNext \/ UNCHANGED Slots!slotVars
  <2>1. CASE c \in cw_pending
    BY <1>4, <2>1, DestroyReleases DEF Slots!SlotNext
  <2>2. CASE c \notin cw_pending
    <3>1. c \in closed
      BY <1>4, <2>2 DEF CWInv, PendingUntilDestroyed
    <3>2. UNCHANGED <<cw_pending, closed, key, id>>
      BY <1>4, <2>2, <3>1, DestroyInv DEF Destroy
    <3> QED
      BY <1>1, <3>2, StutterOfSlots
  <2> QED
    BY <2>1, <2>2
<1>5. CASE UNCHANGED cwVars
  BY <1>1, <1>5, StutterOfSlots DEF cwVars
<1> QED
  BY <1>2, <1>3, <1>4, <1>5 DEF CWNext

(* call_work.c implements the register per key: a call enters only an empty *)
(* slot, once, under an identifier no other occupied slot has, and leaves   *)
(* only its own.                                                            *)
THEOREM CallWorkImplementsSlots == CWSpec => ImplementsSlots
<1> QED
  BY SlotsInit, SlotsStep, CWInvariant, PTL DEF CWSpec, ImplementsSlots, Slots!SlotSpec
===============================================================================
