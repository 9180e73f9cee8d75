--------------------------- MODULE CanonicalChain ---------------------------
(***************************************************************************)
(* What the canonical layer promises along the snapshots that              *)
(* latest_snapshot answers with: the frontier never goes back, a date that *)
(* is published stays published, a date below the revision window keeps    *)
(* its rows, and the pool of a date, once published, is not published      *)
(* again.                                                                  *)
(***************************************************************************)
EXTENDS Integers

CONSTANTS Dates, Rows, Window

VARIABLES asOf, rows, pool

vars == <<asOf, rows, pool>>

Init ==
    /\ asOf \in Dates
    /\ rows \in [Dates -> SUBSET Rows]
    /\ pool \subseteq Dates

Publish ==
    /\ asOf' \in Dates /\ asOf' >= asOf
    /\ rows' \in [Dates -> SUBSET Rows]
    /\ \A d \in Dates : rows[d] # {} => rows'[d] # {}
    /\ \A d \in Dates : d < asOf - Window => rows[d] \subseteq rows'[d]
    /\ pool \subseteq pool'
    /\ \A d \in pool' \ pool : d > asOf

Next == Publish

Spec == Init /\ [][Next]_vars
=============================================================================
