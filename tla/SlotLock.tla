------------------------------ MODULE SlotLock ------------------------------
(***************************************************************************)
(* What a provider node promises about its own hardware, and all that the  *)
(* rest of NODEVA relies on: at any instant the windows it has committed   *)
(* to are pairwise disjoint, and a reservation id is granted at most once, *)
(* so a claim that was given up never comes back.                          *)
(*                                                                         *)
(* NodeLedger (the SQLite ledger) and Booking (the ledger seen through the *)
(* wire protocol) are both shown to implement this specification.          *)
(***************************************************************************)
EXTENDS Integers

CONSTANTS Ids,      \* reservation ids
          Windows   \* half-open windows <<starts_at, ends_at>>

VARIABLES claims,   \* the set of <<id, window>> the node is committed to
          spent     \* the ids it has ever granted

vars == <<claims, spent>>

(* Half-open intervals: a window ending at 11 does not touch one starting  *)
(* at 11.                                                                  *)
Overlap(v, w) == v[1] < w[2] /\ w[1] < v[2]

Init == claims = {} /\ spent = {}

(* Claims end for many reasons (a hold lapsed, the platform gave it back). *)
Drop(gone) ==
    /\ claims' = claims \ gone
    /\ UNCHANGED spent

(* A grant may first drop lapsed claims, in the same atomic step.          *)
Grant(gone, id, w) ==
    /\ id \notin spent
    /\ \A c \in claims \ gone : ~Overlap(c[2], w)
    /\ claims' = (claims \ gone) \cup {<<id, w>>}
    /\ spent' = spent \cup {id}

Next == \E gone \in SUBSET claims :
            \/ Drop(gone)
            \/ \E id \in Ids, w \in Windows : Grant(gone, id, w)

Spec == Init /\ [][Next]_vars
=============================================================================
