------------------------------- MODULE CallWork -------------------------------
(***************************************************************************)
(* src/call_work.c: the table of pending calls of a connman_state.         *)
(*                                                                         *)
(* Any number of threads create, look up and destroy call_work objects.    *)
(* Every access to the table is made under cw_mutex; a critical section is *)
(* one step here, except the creation of a call, whose search for a free   *)
(* identifier is a loop that holds the mutex from one iteration (one step) *)
(* to the next.  A destroyed object is unlinked and its strings are freed, *)
(* but the object itself never is, so a call is never reallocated.         *)
(***************************************************************************)
EXTENDS Integers, FiniteSets

CONSTANTS
    CWThreads,  \* the threads that use the table
    Keys,       \* the <<access_type, type_arg, method>> triples in use
    Calls,      \* the call_work objects there is memory for
    NoCall,     \* a NULL struct call_work pointer
    NoKey,      \* the key of an object that is not allocated yet
    Free,       \* the owner of an unlocked mutex
    MaxInt      \* INT_MAX

ASSUME CWAssumption ==
    /\ NoCall \notin Calls
    /\ NoKey \notin Keys
    /\ Free \notin CWThreads
    /\ MaxInt \in Nat \ {0}

MinInt == -MaxInt - 1

VARIABLES
    cw_mutex,   \* the thread that holds ns->cw_mutex, or Free
    next_cw_id, \* ns->next_cw_id
    cw_pending, \* the objects linked in ns->cw_pending
    creating,   \* the object the owner of the mutex is about to link
    key,        \* key[c]: the three strings of c
    id,         \* id[c]: c->id
    closed      \* history: the objects call_work_destroy was called on

cwVars == <<cw_mutex, next_cw_id, cw_pending, creating, key, id, closed>>

-------------------------------------------------------------------------------
(* Identifiers.  The allocator hands out next_cw_id and increments it; the  *)
(* test "++next_cw_id < 0" is meant to catch the overflow of a signed int,  *)
(* which C leaves undefined: the build either sees the wrapped value and    *)
(* restarts at 1, or stores it unseen (the comparison folded into one on    *)
(* the value before the increment).                                         *)

IdValues == {MinInt} \cup 1..MaxInt

(* Variant: the test for a negative counter is missing.                     *)
AfterIncrementUntested(n) == {IF n = MaxInt THEN MinInt ELSE n + 1}

AfterIncrement(n) ==
    CASE n = MaxInt              -> {1, MinInt}
      [] n # MaxInt /\ n + 1 < 0 -> {1}
      [] OTHER                   -> {n + 1}

(* Lookups over the list.  NoCall stands for the NULL they return.          *)
LookupIn(S) == IF S = {} THEN NoCall ELSE CHOOSE c \in S : TRUE

LookupKey(k) == LookupIn({c \in cw_pending : key[c] = k})

LookupId(n) == LookupIn({c \in cw_pending : id[c] = n})

-------------------------------------------------------------------------------
CWInit ==
    /\ cw_mutex = Free
    /\ next_cw_id = 1
    /\ cw_pending = {}
    /\ creating = NoCall
    /\ key = [c \in Calls |-> NoKey]
    /\ id = [c \in Calls |-> 0]
    /\ closed = {}

(* Variant: the pending calls are not looked at first.                      *)
CreateBeginUnchecked(t, k, c) ==
    /\ cw_mutex = Free
    /\ key[c] = NoKey
    /\ cw_mutex' = t
    /\ creating' = c
    /\ key' = [key EXCEPT ![c] = k]
    /\ UNCHANGED <<next_cw_id, cw_pending, id, closed>>

(* call_work_create finds no pending call with key k: it keeps the mutex    *)
(* and allocates the zeroed object c.                                       *)
CreateBegin(t, k, c) ==
    /\ cw_mutex = Free
    /\ LookupKey(k) = NoCall
    /\ key[c] = NoKey
    /\ cw_mutex' = t
    /\ creating' = c
    /\ key' = [key EXCEPT ![c] = k]
    /\ UNCHANGED <<next_cw_id, cw_pending, id, closed>>

(* Variant: the loop is left after one turn, identifier in use or not.      *)
CreateTryIdOnce(t) ==
    /\ cw_mutex = t
    /\ id' = [id EXCEPT ![creating] = next_cw_id]
    /\ next_cw_id' \in AfterIncrement(next_cw_id)
    /\ cw_pending' = cw_pending \cup {creating}
    /\ creating' = NoCall
    /\ cw_mutex' = Free
    /\ UNCHANGED <<key, closed>>

(* Variant: the counter is incremented after the loop, not in it.           *)
CreateTryIdStuck(t) ==
    /\ cw_mutex = t
    /\ id' = [id EXCEPT ![creating] = next_cw_id]
    /\ IF LookupId(next_cw_id) # NoCall
       THEN UNCHANGED <<next_cw_id, cw_mutex, cw_pending, creating>>
       ELSE /\ next_cw_id' \in AfterIncrement(next_cw_id)
            /\ cw_pending' = cw_pending \cup {creating}
            /\ creating' = NoCall
            /\ cw_mutex' = Free
    /\ UNCHANGED <<key, closed>>

(* One turn of its do-while loop; the identifier that no pending call has   *)
(* ends the loop, links the object and releases the mutex.                  *)
CreateTryId(t) ==
    /\ cw_mutex = t
    /\ id' = [id EXCEPT ![creating] = next_cw_id]
    /\ next_cw_id' \in AfterIncrement(next_cw_id)
    /\ IF LookupId(next_cw_id) # NoCall
       THEN UNCHANGED <<cw_mutex, cw_pending, creating>>
       ELSE /\ cw_pending' = cw_pending \cup {creating}
            /\ creating' = NoCall
            /\ cw_mutex' = Free
    /\ UNCHANGED <<key, closed>>

(* call_work_destroy: the object is unlinked only if the pending call with  *)
(* its identifier is the object itself.                                     *)
Destroy(c) ==
    /\ cw_mutex = Free
    /\ cw_pending' = IF LookupId(id[c]) = c THEN cw_pending \ {c} ELSE cw_pending
    /\ closed' = closed \cup {c}
    /\ UNCHANGED <<cw_mutex, next_cw_id, creating, key, id>>

(* A caller destroys an object call_work_create has returned to it, at any  *)
(* time and even twice: the function guards against the latter.             *)
Created(c) == key[c] # NoKey /\ creating # c

CWNext ==
    \/ \E t \in CWThreads, k \in Keys, c \in Calls : CreateBegin(t, k, c)
    \/ \E t \in CWThreads : CreateTryId(t)
    \/ \E c \in Calls : Created(c) /\ Destroy(c)

CWSpec == CWInit /\ [][CWNext]_cwVars

(* A thread inside call_work_create keeps running.                          *)
CWFairSpec == CWSpec /\ \A t \in CWThreads : WF_cwVars(CreateTryId(t))

-------------------------------------------------------------------------------
(* Type invariant.                                                          *)
CWTypeOK ==
    /\ cw_mutex \in CWThreads \cup {Free}
    /\ next_cw_id \in IdValues
    /\ cw_pending \subseteq Calls
    /\ creating \in Calls \cup {NoCall}
    /\ key \in [Calls -> Keys \cup {NoKey}]
    /\ id \in [Calls -> IdValues \cup {0}]
    /\ closed \subseteq Calls

(* Two threads that race to create a call with one key never both succeed:  *)
(* "we can only allow a single pending call" (call_work.c:45).              *)
OnePendingPerKey ==
    \A c, d \in cw_pending : key[c] = key[d] => c = d

(* The identifiers of pending calls tell them apart even after the counter  *)
(* has wrapped around, and none is the -1 by which call_work_pending_id     *)
(* says that nothing is pending (call_work.c:76), nor the 0 of an object    *)
(* that has none.                                                           *)
IdsTellCallsApart ==
    /\ \A c, d \in cw_pending : id[c] = id[d] => c = d
    /\ \A c \in cw_pending : id[c] \notin {-1, 0}

(* call_work_destroy unlinks its argument and nothing else ("verify that    *)
(* it's something we know about", call_work.c:175): exactly the created     *)
(* calls nobody destroyed are pending.                                      *)
PendingUntilDestroyed ==
    cw_pending = {c \in Calls : Created(c)} \ closed

(* The search for an identifier ends, whatever the counter and the pending  *)
(* calls: nobody is left waiting for cw_mutex.                              *)
MutexReleased == \A t \in CWThreads : cw_mutex = t ~> cw_mutex = Free

(* What holds between any two steps, strong enough to be kept by each: the  *)
(* mutex is held exactly while an object is being created, that object is   *)
(* not in the table yet and nothing in the table has its key.               *)
CWInv ==
    /\ CWTypeOK
    /\ cw_mutex = Free <=> creating = NoCall
    /\ creating # NoCall =>
           /\ key[creating] # NoKey
           /\ creating \notin closed
           /\ \A c \in cw_pending : key[c] # key[creating]
    /\ \A c \in cw_pending : id[c] # 0
    /\ OnePendingPerKey
    /\ IdsTellCallsApart
    /\ closed \subseteq {c \in Calls : Created(c)}
    /\ PendingUntilDestroyed

(* As long as no more calls are ever made than the counter has values, a    *)
(* call's identifier is the number of its creation, and the identifier of a *)
(* call that is gone is nobody else's.                                      *)
CallsFitCounter == IsFiniteSet(Calls) /\ Cardinality(Calls) <= MaxInt

Numbered == {c \in Calls : id[c] # 0}

NumberingInv ==
    /\ Numbered = cw_pending \cup closed
    /\ \A c \in Numbered : id[c] \in 1..Cardinality(Numbered)
    /\ \A c, d \in Numbered : id[c] = id[d] => c = d
    /\ Cardinality(Numbered) < MaxInt => next_cw_id = Cardinality(Numbered) + 1

(* The table is a register per key.                                         *)
Slots == INSTANCE PendingSlots WITH
    Tags <- IdValues,
    slot <- [k \in Keys |-> LookupKey(k)],
    tag <- [c \in Calls |-> IF c \in cw_pending \cup closed THEN id[c] ELSE 0],
    admitted <- cw_pending \cup closed

ImplementsSlots == Slots!SlotSpec
===============================================================================
