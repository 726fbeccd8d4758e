----------------------------- MODULE MCBooking -----------------------------
(***************************************************************************)
(* Model-checking instances of Booking.                                    *)
(***************************************************************************)
EXTENDS Booking, TLC

Symmetry == Permutations(Ids) \cup Permutations(Confirms)
=============================================================================
