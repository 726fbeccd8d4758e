---------------------------- MODULE MCClusterPresence ----------------------------
(***************************************************************************)
(* Model-checking instances of ClusterPresence.                            *)
(***************************************************************************)
EXTENDS ClusterPresence, TLC

CONSTANTS i1, i2

Symmetry == Permutations(Hubs)
=============================================================================
