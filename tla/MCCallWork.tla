------------------------------ MODULE MCCallWork ------------------------------
(***************************************************************************)
(* Instances of CallWork for TLC.  MaxInt is small, so that the counter    *)
(* overflows and meets identifiers still in use.                           *)
(***************************************************************************)
EXTENDS CallWork, TLC

(* There are more positive ints than calls that can be pending at once.     *)
ASSUME EnoughIds == Cardinality(Keys) <= MaxInt

Symmetry ==
    Permutations(CWThreads) \cup Permutations(Keys) \cup Permutations(Calls)
===============================================================================
