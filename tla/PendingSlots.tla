----------------------------- MODULE PendingSlots -----------------------------
(***************************************************************************)
(* What the pending-call table of call_work.c promises, without its list,  *)
(* its mutex or its identifier counter: every key (access type, type       *)
(* argument, method) is a slot holding at most one call, a call enters an  *)
(* empty slot once in its life with a tag no other occupied slot carries,  *)
(* and it leaves only the slot it is in.                                   *)
(***************************************************************************)
CONSTANTS
    Keys,       \* what a call can be pending on
    Calls,      \* the calls ever admitted
    Tags,       \* the identifiers a call may be given
    NoCall      \* an empty slot

VARIABLES
    slot,       \* slot[k]: the call pending on k, or NoCall
    tag,        \* tag[c]: the identifier call c was given
    admitted    \* the calls that have ever held a slot

slotVars == <<slot, tag, admitted>>

Occupied == {k \in Keys : slot[k] # NoCall}

SlotInit ==
    /\ slot = [k \in Keys |-> NoCall]
    /\ tag \in [Calls -> Tags \cup {0}]
    /\ admitted = {}

Admit(c, k, n) ==
    /\ c \notin admitted
    /\ slot[k] = NoCall
    /\ \A j \in Occupied : tag[slot[j]] # n
    /\ slot' = [slot EXCEPT ![k] = c]
    /\ tag' = [tag EXCEPT ![c] = n]
    /\ admitted' = admitted \cup {c}

Release(k) ==
    /\ slot[k] # NoCall
    /\ slot' = [slot EXCEPT ![k] = NoCall]
    /\ UNCHANGED <<tag, admitted>>

SlotNext ==
    \/ \E c \in Calls, k \in Keys, n \in Tags : Admit(c, k, n)
    \/ \E k \in Keys : Release(k)

SlotSpec == SlotInit /\ [][SlotNext]_slotVars
===============================================================================
