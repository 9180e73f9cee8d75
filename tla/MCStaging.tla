----------------------------- MODULE MCStaging -----------------------------
(* Two main-board codes, one of them suspended for a day, a code of another   *)
(* board, and one that is listed on day 1.                                    *)
EXTENDS Staging

Closed == NoTrade
(* Of a root of 100, 109 and 111 are limit closes by the tolerance, 108 not.  *)
Member == <<109, Closed, 120>>
Steady == <<108, 111, 122>>
Other == <<120, 120, 120>>
Listed == <<100, 110, 110>>

FourCodes ==
    {[c \in {"member", "steady", "other", "listed"} |->
        [d \in 1 .. 3 |-> CASE c = "member" -> Member[d] [] c = "steady" -> Steady[d]
                            [] c = "other" -> Other[d] [] c = "listed" -> Listed[d]]]}

RootRows == [c \in {"member", "steady", "other"} |-> 100]
=============================================================================
