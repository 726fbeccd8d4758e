-------------------------- MODULE MCJobSettlement --------------------------
(***************************************************************************)
(* Model-checking instances of JobSettlement.  Every reservation is on a   *)
(* node of its own, and a job can succeed with one of two outputs or fail  *)
(* on the provider's side.                                                 *)
(***************************************************************************)
EXTENDS JobSettlement, TLC

MCNodeOf == [r \in Resv |-> r]
TwoOutputs == {[status |-> "succeeded", output |-> "x"],
               [status |-> "succeeded", output |-> "y"]}
ThreeStatuses == {[status |-> "succeeded", output |-> "x"],
                  [status |-> "oom_killed", output |-> "x"],
                  [status |-> "error", output |-> "x"]}
Symmetry == Permutations(Resv)
=============================================================================
