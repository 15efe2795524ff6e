--------------------------- MODULE MCMediaService ----------------------------
(* TLC instances of MediaService.  "A" and "a" are the same name to LOWER. *)
EXTENDS MediaService, TLC

LowerNames == [n \in Names |-> IF n = "A" THEN "a" ELSE n]

Symmetry ==
  Permutations(Clients) \cup Permutations(Cards) \cup Permutations(Kinds)
  \cup Permutations(Media) \cup Permutations(Sets)
=============================================================================
