--------------------------- MODULE MCSwarmCluster ---------------------------
(* Instances of SwarmCluster for TLC. *)
EXTENDS SwarmCluster, TLC

CONSTANTS p1, p2

TwoNodes == {1, 2}
MCProcs == {p1, p2}
Interchangeable == Permutations(MCProcs)
=============================================================================
