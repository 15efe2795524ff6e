--------------------------- MODULE MCTaskLifecycle ---------------------------
(* TLC instances of TaskLifecycle.                                         *)
EXTENDS TaskLifecycle, TLC

(* Sound for invariants and action properties: neither Tasks nor Workers   *)
(* has an element that a definition singles out.                           *)
Symmetry == Permutations(Tasks) \cup Permutations(Workers)
=============================================================================
