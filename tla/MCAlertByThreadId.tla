------------------------- MODULE MCAlertByThreadId -------------------------
(* AlertByThreadId on a small instance. *)
EXTENDS AlertByThreadId, TLC

CONSTANTS o1, o2, o3

\* The threads of this process are interchangeable.
Symmetry == Permutations(Object \ Foreign) \cup Permutations(Tid)
=============================================================================
