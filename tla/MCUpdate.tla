------------------------------ MODULE MCUpdate ------------------------------
(* A bootstrap to day 1 and what follows; the exchange is closed on day 3.   *)
EXTENDS Update

Row(bar, pre) == [bar |-> bar, pre |-> pre, pct |-> TRUE]

\* TUSHARE may revise the bar, AKSHARE has another preclose for it.
RevisedRows == [p \in {"TUSHARE", "AKSHARE"} |->
    IF p = "TUSHARE" THEN {Row(0, 0), Row(2, 0)} ELSE {Row(1, 0), Row(1, 2)}]

\* AKSHARE has not the last day yet; or its preclose diverges on the second.
Agreed == [p \in {"TUSHARE", "AKSHARE"} |->
    [d \in Sessions |-> IF p = "TUSHARE" THEN Row(0, 0) ELSE Row(1, 0)]]
StartOffers == {[Agreed EXCEPT !["AKSHARE"][4] = NoRow],
                [Agreed EXCEPT !["AKSHARE"][2] = Row(1, 2)]}

OneRow == {Row(0, 0)}

BackfillAll == {<<1, 3>>}
=============================================================================
