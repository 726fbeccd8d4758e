---------------------------- MODULE MCNodeLedger ----------------------------
(***************************************************************************)
(* Model-checking instance of NodeLedger: two of the three windows         *)
(* overlap, the third only touches its neighbour's end.                    *)
(***************************************************************************)
EXTENDS NodeLedger, TLC

MCWindows == {<<0, 2>>, <<1, 3>>, <<2, 4>>}
Symmetry == Permutations(Ids) \cup Permutations(Threads)
=============================================================================
