---------------------------- MODULE MCConnectAgent ----------------------------
(***************************************************************************)
(* Instances of ConnectAgent for TLC.                                      *)
(***************************************************************************)
EXTENDS ConnectAgent, TLC

ASSUME EnoughIds == Cardinality(Keys) <= MaxInt

Symmetry ==
    Permutations(CWThreads \ {Handler}) \cup Permutations(Keys)
        \cup Permutations(Calls) \cup Permutations(Requests)
===============================================================================
