--------------------------- MODULE MCTaskDispatch ----------------------------
(* TLC instances of TaskDispatch.                                          *)
EXTENDS TaskDispatch, TLC

CONSTANTS a, b, w1, w2

(* Two workers of one process, or one each of two processes.               *)
OneServer == w1 :> a @@ w2 :> a
TwoServers == w1 :> a @@ w2 :> b

(* For safety runs of one server: its tasks and its workers are            *)
(* interchangeable.                                                        *)
Symmetry == Permutations(Tasks) \cup Permutations({w1, w2})
=============================================================================
