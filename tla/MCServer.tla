------------------------------ MODULE MCServer ------------------------------
(* The server on small instances.  Connections, descriptors and workers are *)
(* interchangeable; symmetry is used in the runs without liveness.          *)
EXTENDS Server, TLC

Symmetry == Permutations(Conns) \cup Permutations(Fds) \cup Permutations(Workers)
=============================================================================
