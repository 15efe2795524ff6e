---------------------------- MODULE MCLeaseTiming ----------------------------
(* TLC instance of LeaseTiming.                                            *)
EXTENDS LeaseTiming, TLC

Symmetry == Permutations(Workers)
=============================================================================
