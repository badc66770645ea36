------------------------------- MODULE EventFeed -------------------------------
(***************************************************************************)
(* What the callback registration of the library promises: every topic     *)
(* (manager, technology, service, agent) has a log of events; a subscriber *)
(* reads the log of its topic from where it stood when it subscribed, one  *)
(* event after the other, without a gap, after every subscriber that came  *)
(* before it; and nobody subscribes half-way through an event.             *)
(***************************************************************************)
EXTENDS Naturals, Sequences

CONSTANTS
    Topics,     \* what can be subscribed to
    Entries,    \* subscribers
    Events      \* what may be published

VARIABLES
    log,        \* log[l]: the events of topic l so far
    readers,    \* readers[l]: the subscribers of l, in order
    cursor      \* cursor[e]: how many events of its topic e is past

feedVars == <<log, readers, cursor>>

Subscribed(e) == \E l \in Topics : \E i \in 1..Len(readers[l]) : readers[l][i] = e

CaughtUp(l) == \A i \in 1..Len(readers[l]) : cursor[readers[l][i]] = Len(log[l])

FeedInit ==
    /\ log = [l \in Topics |-> <<>>]
    /\ readers = [l \in Topics |-> <<>>]
    /\ cursor = [e \in Entries |-> 0]

Subscribe(e, l) ==
    /\ ~Subscribed(e)
    /\ CaughtUp(l)
    /\ readers' = [readers EXCEPT ![l] = Append(@, e)]
    /\ cursor' = [cursor EXCEPT ![e] = Len(log[l])]
    /\ UNCHANGED log

Publish(l, event) ==
    /\ CaughtUp(l)
    /\ log' = [log EXCEPT ![l] = Append(@, event)]
    /\ UNCHANGED <<readers, cursor>>

Deliver(l, i) ==
    LET e == readers[l][i]
    IN  /\ cursor[e] < Len(log[l])
        /\ \A j \in 1..(i - 1) : cursor[readers[l][j]] = Len(log[l])
        /\ cursor' = [cursor EXCEPT ![e] = @ + 1]
        /\ UNCHANGED <<log, readers>>

FeedNext ==
    \E l \in Topics :
        \/ \E e \in Entries : Subscribe(e, l)
        \/ \E event \in Events : Publish(l, event)
        \/ \E i \in 1..Len(readers[l]) : Deliver(l, i)

FeedSpec == FeedInit /\ [][FeedNext]_feedVars
===============================================================================
