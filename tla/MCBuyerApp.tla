----------------------------- MODULE MCBuyerApp -----------------------------
(***************************************************************************)
(* Model-checking instances of BuyerApp.                                   *)
(***************************************************************************)
EXTENDS BuyerApp, TLC

CONSTANTS u1, u2
Symmetry == Permutations(Users)
=============================================================================
