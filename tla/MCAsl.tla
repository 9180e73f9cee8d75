------------------------------- MODULE MCAsl -------------------------------
(* A code whose closes differ, one that never moves, and one of another       *)
(* board that is not in the catalog.                                          *)
EXTENDS AslSnapshot

Closes == [k \in {"c1", "c2"} \X (0 .. 2) |-> {IF k[1] = "c1" THEN k[2] + 1 ELSE 3}]

Always == [list |-> NoDay, delist |-> NoDay]
Newly == [list |-> 1, delist |-> NoDay]
Leaving == [list |-> 0, delist |-> 2]
ListingsOf ==
    [c \in {"c1", "c2"} |-> IF c = "c1" THEN {Always, Newly, Leaving} ELSE {Always}]

\* The last day is the first of its month.
Months == [d \in 0 .. 2 |-> IF d = 2 THEN 2 ELSE 1]

WholeAndLast == {<<NoDay, LastDay>>, <<LastDay, LastDay>>}
ScopeOrStrange == {NoCodes, {"c1", "x"}}
=============================================================================
