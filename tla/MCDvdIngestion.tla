--------------------------- MODULE MCDvdIngestion ----------------------------
(* TLC instances of DvdIngestion.                                          *)
EXTENDS DvdIngestion, TLC

(* Ids, workers, inbox names and discs are all interchangeable.            *)
Symmetry == Permutations(Tasks) \cup Permutations(Workers)
              \cup Permutations(Inbox) \cup Permutations(Discs)
=============================================================================
