------------------------------- MODULE Outcome -------------------------------
(***************************************************************************)
(* outcome.py: what became of an event frozen on a signal day, read from   *)
(* the sessions after it.  A daily bar does not say in which order its     *)
(* prices came, so what a day decides depends on how the entry was made.   *)
(***************************************************************************)
EXTENDS TradePlan

CONSTANTS
    MaxHoldingSessions,  \* outcome.max_holding_sessions
    Horizons,            \* outcome.forward_horizons
    PrepHorizons         \* the horizons a B1_PREP conversion is reported for

ASSUME HoldingAssumption ==
    /\ MaxHoldingSessions \in Nat \ {0}
    /\ Horizons \cup PrepHorizons \subseteq Nat \ {0}

First(S) == CHOOSE i \in S : \A j \in S : i <= j

Sessions(future, n) == SubSeq(future, 1, IF n < Len(future) THEN n ELSE Len(future))

HitsTarget(e, bar) == bar.high >= e.s1
HitsInvalid(e, bar) == bar.low <= e.invalid

\* Mutant: a window that is not over yet counts as one that timed out.
RaceImpatient(e, window, length) ==
    LET hits == {i \in DOMAIN window :
                   HitsTarget(e, window[i]) \/ HitsInvalid(e, window[i])}
        bar == window[First(hits)]
    IN  IF hits = {} THEN [result |-> "TIMEOUT", at |-> Len(window)]
        ELSE [result |-> IF HitsTarget(e, bar) /\ HitsInvalid(e, bar) THEN "AMBIGUOUS"
                         ELSE IF HitsTarget(e, bar) THEN "WIN" ELSE "LOSS",
              at |-> First(hits)]

\* What the first session to touch the target or the invalid price decides.
\* A window shorter than its length is censored, not timed out.
Race(e, window, length) ==
    LET hits == {i \in DOMAIN window :
                   HitsTarget(e, window[i]) \/ HitsInvalid(e, window[i])}
        bar == window[First(hits)]
    IN  IF hits = {} /\ Len(window) < length THEN [result |-> "CENSORED", at |-> None]
        ELSE IF hits = {} THEN [result |-> "TIMEOUT", at |-> Len(window)]
        ELSE [result |-> IF HitsTarget(e, bar) /\ HitsInvalid(e, bar) THEN "AMBIGUOUS"
                         ELSE IF HitsTarget(e, bar) THEN "WIN" ELSE "LOSS",
              at |-> First(hits)]

Pattern(e, future, horizon) == Race(e, Sessions(future, horizon), horizon).result

\* Patterns are read whether or not an entry would have been made.
Patterns(e, future) ==
    IF e.s1 = None \/ e.invalid = None THEN None
    ELSE [h \in Horizons |-> Pattern(e, future, h)]

Holding(e, future) ==
    Race(e, Sessions(future, MaxHoldingSessions), MaxHoldingSessions)

\* After an entry during the first session, the race starts on the second.
HoldingOn(e, future) ==
    LET length == MaxHoldingSessions - 1
        rest == Race(e, Sessions(Tail(future), length), length)
    IN  IF rest.at = None THEN rest ELSE [rest EXCEPT !.at = @ + 1]

Unfilled(status) ==
    [fill |-> status, type |-> "NONE", price |-> None, result |-> status, at |-> None]

Filled(type, price, decided) ==
    [fill |-> "FILLED", type |-> type, price |-> price, result |-> decided.result,
     at |-> decided.at]

OnFirst(result) == [result |-> result, at |-> 1]

Complete(e) ==
    /\ e.label # "B1_PREP"
    /\ None \notin {e.preferred, e.invalid, e.s1}
    /\ e.label = "B2_READY" => e.trigger # None

\* The labelling raises: an actionable breakout without room to its target.
Aborts(e) ==
    /\ Complete(e)
    /\ e.preferred > e.invalid
    /\ e.label = "B2_READY" /\ e.s1 <= e.trigger /\ e.candidate

Tradable(e) ==
    /\ Complete(e)
    /\ e.preferred > e.invalid
    /\ e.label = "B2_READY" => e.s1 > e.trigger /\ e.candidate

\* Mutant: an open beyond the target is bought as well.
BreakoutEntryPast(e, future) ==
    LET first == future[1]
    IN  IF first.open >= e.trigger
          THEN Filled("BREAKOUT_GAP_FILL", first.open, Holding(e, future))
        ELSE IF first.high < e.trigger THEN Unfilled("NO_FILL")
        ELSE Filled("BREAKOUT_TRIGGER_FILL", e.trigger,
                    IF HitsInvalid(e, first) THEN OnFirst("AMBIGUOUS")
                    ELSE IF HitsTarget(e, first) THEN OnFirst("WIN")
                    ELSE HoldingOn(e, future))

\* A breakout is bought at the trigger, or at an open beyond it.
BreakoutEntry(e, future) ==
    LET first == future[1]
    IN  IF first.open >= e.s1 THEN Unfilled("NO_FILL")
        ELSE IF first.open >= e.trigger
          THEN Filled("BREAKOUT_GAP_FILL", first.open, Holding(e, future))
        ELSE IF first.high < e.trigger THEN Unfilled("NO_FILL")
        ELSE Filled("BREAKOUT_TRIGGER_FILL", e.trigger,
                    IF HitsInvalid(e, first) THEN OnFirst("AMBIGUOUS")
                    ELSE IF HitsTarget(e, first) THEN OnFirst("WIN")
                    ELSE HoldingOn(e, future))

\* A limit order fills at the open, or when the price comes down to it: then
\* the high of the day may have come before.
LimitEntry(e, future) ==
    LET first == future[1]
    IN  IF first.open <= e.preferred
          THEN Filled("OPEN_FILL", first.open, Holding(e, future))
        ELSE IF first.low > e.preferred THEN Unfilled("NO_FILL")
        ELSE Filled("INTRADAY_TOUCH_FILL", e.preferred,
                    IF HitsInvalid(e, first)
                      THEN OnFirst(IF HitsTarget(e, first) THEN "AMBIGUOUS" ELSE "LOSS")
                    ELSE HoldingOn(e, future))

Entry(e, future) ==
    IF e.label = "B2_READY" THEN BreakoutEntry(e, future) ELSE LimitEntry(e, future)

\* _complete_event
CompleteEvent(e, future) ==
    IF ~Tradable(e) THEN Unfilled("NO_FILL")
    ELSE IF future = <<>> THEN Unfilled("CENSORED")
    ELSE IF future[1].open <= e.invalid THEN Unfilled("CANCEL_GAP_INVALID")
    ELSE Entry(e, future)

\* _update_prep_metrics: whether a B1 day came within the horizon.  The one
\* session horizon is answered even when there is no session yet.
Conversions(e, future) ==
    IF e.label # "B1_PREP" THEN None
    ELSE [h \in PrepHorizons |->
            IF h > 1 /\ Len(future) < h THEN None
            ELSE \E i \in DOMAIN Sessions(future, h) : future[i].b1]
=============================================================================
