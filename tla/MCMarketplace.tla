--------------------------- MODULE MCMarketplace ----------------------------
(***************************************************************************)
(* Model-checking instances of Marketplace.                                *)
(***************************************************************************)
EXTENDS Marketplace, TLC

At(a, b) == [start |-> a, end |-> b]
MCCandidates == [price : {1, 3}, perf : {0, 2}, reliability : {0, 67, 100}]
MCUnit == 6700
MCDeclared == {At(0, 4), At(4, 5)}
MCAsked == {At(1, 2), At(3, 5)}
MCWishes == {[slot |-> At(1, 2), budget |-> 1]}
MCSymmetry == Permutations(Buyers) \cup Permutations(Resv) \cup Permutations(Providers)
=============================================================================
