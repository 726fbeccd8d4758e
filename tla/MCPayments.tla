----------------------------- MODULE MCPayments -----------------------------
(***************************************************************************)
(* Model-checking instances of Payments: no symmetry, the run checks       *)
(* liveness.                                                               *)
(***************************************************************************)
EXTENDS Payments

CONSTANTS o1, o2
=============================================================================
