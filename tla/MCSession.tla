----------------------------- MODULE MCSession -----------------------------
(* Sessions on small instances; threads and ids are interchangeable. *)
EXTENDS Session, TLC

Symmetry == Permutations(Threads) \cup Permutations(Ids)
=============================================================================
