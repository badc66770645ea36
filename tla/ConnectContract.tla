---------------------------- MODULE ConnectContract ----------------------------
(***************************************************************************)
(* What connman_service_connect and the agent promise the application and  *)
(* ConnMan, with no thread, table, identifier or bus: attempts to connect  *)
(* to one service follow one another, each opens, tells its caller (if the *)
(* caller wants to be told) exactly once, and closes; a request is         *)
(* answered at most once, and only after it was asked.                     *)
(***************************************************************************)
CONSTANTS
    Calls,      \* attempts to connect
    Services,   \* what they connect to
    NoKey,      \* the target of an attempt that has not begun
    Requests    \* requests for input

VARIABLES
    stage,      \* stage[c]: "new", "open", "told" or "closed"
    target,     \* target[c]: the service attempt c connects to
    wants,      \* wants[c]: whether its caller is to be told
    asked,      \* the requests ConnMan has made
    answered    \* those that were replied to

contractVars == <<stage, target, wants, asked, answered>>

InProgress(c) == stage[c] \in {"open", "told"}

ContractInit ==
    /\ stage = [c \in Calls |-> "new"]
    /\ target = [c \in Calls |-> NoKey]
    /\ wants = [c \in Calls |-> FALSE]
    /\ asked = {}
    /\ answered = {}

Open(c, k, b) ==
    /\ stage[c] = "new"
    /\ \A d \in Calls : InProgress(d) => target[d] # k
    /\ stage' = [stage EXCEPT ![c] = "open"]
    /\ target' = [target EXCEPT ![c] = k]
    /\ wants' = [wants EXCEPT ![c] = b]
    /\ UNCHANGED <<asked, answered>>

Tell(c) ==
    /\ stage[c] = "open"
    /\ wants[c]
    /\ stage' = [stage EXCEPT ![c] = "told"]
    /\ UNCHANGED <<target, wants, asked, answered>>

Close(c) ==
    /\ stage[c] = IF wants[c] THEN "told" ELSE "open"
    /\ stage' = [stage EXCEPT ![c] = "closed"]
    /\ UNCHANGED <<target, wants, asked, answered>>

Ask(i) ==
    /\ i \notin asked
    /\ asked' = asked \cup {i}
    /\ UNCHANGED <<stage, target, wants, answered>>

Answer(i) ==
    /\ i \in asked \ answered
    /\ answered' = answered \cup {i}
    /\ UNCHANGED <<stage, target, wants, asked>>

ContractNext ==
    \/ \E c \in Calls, k \in Services, b \in BOOLEAN : Open(c, k, b)
    \/ \E c \in Calls : Tell(c) \/ Close(c)
    \/ \E i \in Requests : Ask(i) \/ Answer(i)

ContractSpec == ContractInit /\ [][ContractNext]_contractVars
===============================================================================
