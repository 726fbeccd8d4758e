----------------------------- MODULE MCBilling -----------------------------
(***************************************************************************)
(* Model-checking instances of Billing: all reservations are one user's    *)
(* and one provider's, so they share their accounts.                       *)
(***************************************************************************)
EXTENDS Billing, TLC

MCUserOf == [r \in Resv |-> "user"]
MCProviderOf == [r \in Resv |-> "provider"]
Symmetry == Permutations(Resv) \cup Permutations(Calls)
=============================================================================
