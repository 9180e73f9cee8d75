--------------------------- MODULE MCOutcomeStudy ---------------------------
(* Constant values for checking OutcomeStudy with TLC. *)
EXTENDS OutcomeStudy

Bar(open, high, low) == [open |-> open, high |-> high, low |-> low, b1 |-> FALSE]

\* Quiet days at every price, days that run from one end of a range to the
\* other, days that touch both from the middle, and a day of a B1 signal.
MCSessionBars ==
    {Bar(p, p, p) : p \in 1 .. 4}
      \cup {Bar(2, 3, 1), Bar(3, 3, 1), Bar(2, 4, 1), Bar(2, 4, 2), Bar(3, 4, 1), Bar(3, 4, 2)}
      \cup {[Bar(3, 3, 3) EXCEPT !.b1 = TRUE]}

Day(high, close) == <<high, close>>

MCDays == {Day(2, 2), Day(3, 2), Day(3, 3), Day(4, 4), Day(2, 1)}

\* Few bars before the event; after it, a B1_PREP only looks for B1 days and
\* the other events only at the prices.
Fitting ==
    /\ start # 2
    /\ \A i \in DOMAIN tape : Day(tape[i].high, tape[i].close) \in MCDays
    /\ event # None =>
         \A i \in DOMAIN future :
             IF event.label = "B1_PREP" THEN future[i].open = 3 /\ future[i].high = 3
                                        ELSE ~future[i].b1

\* Once an event is frozen nothing looks at the replay again.
Followed ==
    IF event = None THEN <<vars, start, seen>> ELSE <<followed>>
=============================================================================
