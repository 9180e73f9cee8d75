---------------------------- MODULE SetupEngine ----------------------------
(***************************************************************************)
(* state/engine.py: evaluate_strategy, driven over the days of one code by *)
(* screen_code and replay_stock, each signal being the previous_signal of  *)
(* the next.  A setup is named by its anchor date.  Prices are small       *)
(* integers and a buffer is a gap of some of them; what the indicators,    *)
(* the patterns and the volumes decide is chosen freely.                   *)
(***************************************************************************)
EXTENDS Integers, Sequences

CONSTANTS
    MaxDay,       \* bound: the calendar days evaluated
    MaxPrice,     \* bound: the prices a bar can have
    Lookback,     \* anchor.lookback_trade_days
    PlatformDays, \* b2.platform_lookback_days
    InvalidGap,   \* support.invalid_buffer
    BreakGap,     \* invalidation.support_break_buffer
    AboveGap,     \* support.max_above_reference_close
    TriggerGap,   \* b2.trigger_buffer
    NearGap,      \* events.near_s1_distance
    None          \* an absent snapshot, setup or price

Days == 1 .. MaxDay
Prices == 1 .. MaxPrice

ASSUME BoundsAssumption == MaxDay \in Nat /\ MaxPrice \in Nat
ASSUME WindowAssumption == Lookback \in Nat /\ PlatformDays \in Nat \ {0}
ASSUME GapAssumption ==
    /\ {InvalidGap, BreakGap, AboveGap, TriggerGap, NearGap} \subseteq Nat
    /\ AboveGap < InvalidGap

Levels == [price : Int, frozen : Nat, eligible : Nat]

ASSUME NoneAssumption == None \notin Levels /\ None \notin Int

Bars == {b \in [date : Days, high : Prices, close : Prices] : b.close <= b.high}

Actionable == {"B1_READY", "B2_READY", "B2_CONFIRMED"}
B2Stages == {"B2_READY", "B2_CONFIRMED"}
Stages == Actionable \cup {"NORMAL", "LIMIT_ANCHOR", "WATCH_PULLBACK", "INVALID"}
Events == {"SUPPORT_WARNING", "NEAR_S1", "S1_BREAKOUT", "S2_EXHAUSTED"}
\* STRUCTURE stands for the three reasons that read volumes and averages.
Reasons == {"HIT_INVALID_PRICE", "SUPPORT_BREAK", "STRUCTURE",
            "FAILED_SUPPORT_RECOVERY"}

Maybe(S) == S \cup {None}

Signals == [date : Nat, setup : Maybe(Nat), stage : Stages,
            support : Maybe(Levels), invalid : Maybe(Levels), s1 : Maybe(Levels),
            expected : Maybe(Int), trigger : Maybe(Levels),
            reasons : SUBSET Reasons, events : SUBSET Events,
            room : {"NA", "OPEN_SPACE", "NONE", "ROOM"}]

VARIABLES
    day,      \* the last day evaluated
    limitup,  \* the latest limit-up close: its date, kind and age in bars
    tape,     \* the last PlatformDays bars
    signal    \* the signal of that day

vars == <<day, limitup, tape, signal>>

TypeOK ==
    /\ day \in 0 .. MaxDay
    /\ limitup \in [date : 0 .. MaxDay, kind : {"anchor", "board"}, age : Nat]
    /\ tape \in Seq(Bars)
    /\ signal \in Signals

NoLevels == [support |-> None, invalid |-> None, s1 |-> None, expected |-> None]

\* The signal of a day without anchor; also what nothing is inherited from.
Normal(d) ==
    [date |-> d, setup |-> None, stage |-> "NORMAL",
     support |-> None, invalid |-> None, s1 |-> None, expected |-> None,
     trigger |-> None, reasons |-> {}, events |-> {}, room |-> "NA"]

\* Before the first limit-up: a board of day 0, which anchors nothing.
Init ==
    /\ day = 0
    /\ limitup = [date |-> 0, kind |-> "board", age |-> 0]
    /\ tape = <<>>
    /\ signal = Normal(0)

-----------------------------------------------------------------------------
(* Readings of a day *)

\* The latest limit-up decides, even when it is a board that anchors nothing.
Limit(d, k) ==
    IF k = "quiet" THEN [limitup EXCEPT !.age = @ + 1]
                   ELSE [date |-> d, kind |-> k, age |-> 0]

DetectAnchor(l) ==
    IF l.kind = "anchor" /\ l.age < Lookback THEN l.date ELSE None

\* Mutant: the window is one bar short.
WindowShort(b) ==
    LET longer == Append(tape, b)
    IN  IF Len(longer) > PlatformDays - 1 THEN Tail(longer) ELSE longer

Window(b) ==
    LET longer == Append(tape, b)
    IN  IF Len(longer) > PlatformDays THEN Tail(longer) ELSE longer

\* Mutant: the previous signal is inherited from whatever its setup.
PreviousAny(a) == signal

\* previous_same: only a signal of the same setup is inherited from.
PreviousSame(a) == IF signal.setup = a THEN signal ELSE Normal(0)

Eligible(level, d) == level # None /\ level.eligible <= d

Freeze(p, d) == [price |-> p, frozen |-> d, eligible |-> d + 1]

Kept(prev) == [support |-> prev.support, invalid |-> prev.invalid,
               s1 |-> prev.s1, expected |-> prev.expected]

\* _evaluate_invalid_reasons, on levels frozen on an earlier day only.
CurrentReasons(prev, d, b, structure) ==
    LET low == prev.support.price
        last == tape[Len(tape)]
    IN  IF Eligible(prev.support, d) /\ Eligible(prev.invalid, d)
        THEN {r \in Reasons :
                \/ r = "HIT_INVALID_PRICE" /\ b.close <= prev.invalid.price
                \/ r = "SUPPORT_BREAK" /\ b.close < low - BreakGap
                \/ r = "STRUCTURE" /\ structure
                \/ /\ r = "FAILED_SUPPORT_RECOVERY"
                   /\ Len(tape) > 0
                   /\ prev.support.eligible <= last.date
                   /\ last.close < low - BreakGap
                   /\ b.close < low}
        ELSE {}

\* INVALID is sticky: the reasons of an invalid setup are carried on.
InvalidationReasons(prev, d, b, structure) ==
    (IF prev.stage = "INVALID" THEN prev.reasons ELSE {})
        \cup CurrentReasons(prev, d, b, structure)

\* _evaluate_b2_confirmation: the conditions no ratio of others replaces.
B2Mandatory(prev, d, b) ==
    /\ Eligible(prev.trigger, d)
    /\ b.high >= prev.trigger.price
    /\ b.close >= prev.trigger.price

EventFlags(prev, d, b, stage, warned, exhausted) ==
    LET s1 == Eligible(prev.s1, d)
        breakout == s1 /\ b.close >= prev.s1.price
        near == s1 /\ b.high >= prev.s1.price - NearGap
        touch == s1 /\ b.high >= prev.s1.price
    IN  {e \in Events :
            \/ e = "S2_EXHAUSTED" /\ touch /\ exhausted
            \/ /\ stage # "INVALID"
               /\ \/ e = "SUPPORT_WARNING" /\ Eligible(prev.support, d) /\ warned
                  \/ e = "S1_BREAKOUT" /\ breakout
                  \/ e = "NEAR_S1" /\ near /\ ~breakout}

\* _entry_room: the room left below the target from the entry reference.
EntryRoom(stage, b, trigger, s1) ==
    LET reference == IF stage = "B2_READY" /\ trigger.price > b.close
                     THEN trigger.price ELSE b.close
    IN  IF stage \notin Actionable THEN "NA"
        ELSE IF s1 = None THEN "OPEN_SPACE"
        ELSE IF s1.price <= reference THEN "NONE" ELSE "ROOM"

\* Mutant: an invalid signal drops the levels it was invalidated by.
EmitActionable(d, a, b, stage, levels, trigger, reasons, events) ==
    LET shown == IF stage \in Actionable THEN levels ELSE NoLevels
    IN  [date |-> d, setup |-> a, stage |-> stage,
         support |-> shown.support, invalid |-> shown.invalid,
         s1 |-> shown.s1, expected |-> shown.expected,
         trigger |-> trigger, reasons |-> reasons, events |-> events,
         room |-> EntryRoom(stage, b, trigger, shown.s1)]

\* Levels are emitted for an actionable or invalid stage, else dropped.
Emit(d, a, b, stage, levels, trigger, reasons, events) ==
    LET shown == IF stage \in Actionable \cup {"INVALID"} THEN levels ELSE NoLevels
    IN  [date |-> d, setup |-> a, stage |-> stage,
         support |-> shown.support, invalid |-> shown.invalid,
         s1 |-> shown.s1, expected |-> shown.expected,
         trigger |-> trigger, reasons |-> reasons, events |-> events,
         room |-> EntryRoom(stage, b, trigger, shown.s1)]

\* What every evaluation takes in: one bar, later than the previous signal.
\* Days between may be missing, the code being suspended on them.
Observe(b, k) ==
    /\ b.date > day
    /\ day' = b.date
    /\ limitup' = Limit(b.date, k)
    /\ tape' = Window(b)

\* The setup of the day, and the signal it inherits from when it is the same.
SetupOf(b, k) == DetectAnchor(Limit(b.date, k))
Inherited(b, k) == PreviousSame(SetupOf(b, k))

-----------------------------------------------------------------------------
(* evaluate_strategy, one action per outcome, tried in this order *)

EvaluateNormal(b, k) ==
    /\ Observe(b, k)
    /\ SetupOf(b, k) = None
    /\ signal' = Normal(b.date)

EvaluateInvalid(b, k) ==
    LET prev == Inherited(b, k)
    IN  /\ Observe(b, k)
        /\ SetupOf(b, k) # None
        /\ \E structure, exhausted \in BOOLEAN :
             LET reasons == InvalidationReasons(prev, b.date, b, structure)
             IN  /\ reasons # {}
                 /\ signal' = Emit(b.date, SetupOf(b, k), b, "INVALID", Kept(prev),
                                   prev.trigger, reasons,
                                   EventFlags(prev, b.date, b, "INVALID", FALSE,
                                              exhausted))

\* The remaining outcomes have an anchor that nothing invalidates.
Valid(b, k) ==
    /\ Observe(b, k)
    /\ SetupOf(b, k) # None
    /\ InvalidationReasons(Inherited(b, k), b.date, b, FALSE) = {}

EvaluateAnchor(b, k) ==
    LET prev == Inherited(b, k)
    IN  /\ Valid(b, k)
        /\ SetupOf(b, k) = b.date
        /\ signal' = Emit(b.date, SetupOf(b, k), b, "LIMIT_ANCHOR", Kept(prev),
                          prev.trigger, {},
                          EventFlags(prev, b.date, b, "LIMIT_ANCHOR", FALSE, FALSE))

EvaluateConfirmed(b, k) ==
    LET prev == Inherited(b, k)
    IN  /\ Valid(b, k)
        /\ SetupOf(b, k) # b.date
        /\ B2Mandatory(prev, b.date, b)
        /\ \E warned, exhausted \in BOOLEAN :
             signal' = Emit(b.date, SetupOf(b, k), b, "B2_CONFIRMED", Kept(prev),
                            prev.trigger, {},
                            EventFlags(prev, b.date, b, "B2_CONFIRMED", warned,
                                       exhausted))

\* A trigger that today does not confirm, whether or not yesterday did: a
\* mandatory condition fails, or too few of the others hold.
EvaluateHeld(b, k) ==
    LET prev == Inherited(b, k)
    IN  /\ Valid(b, k)
        /\ SetupOf(b, k) # b.date
        /\ prev.trigger # None
        /\ \E warned, exhausted \in BOOLEAN :
             signal' = Emit(b.date, SetupOf(b, k), b, "B2_READY", Kept(prev),
                            prev.trigger, {},
                            EventFlags(prev, b.date, b, "B2_READY", warned, exhausted))

\* Mutant: the trigger may confirm on the very day that freezes it.
EvaluateTriggeredAtOnce(b, k) ==
    LET prev == Inherited(b, k)
        highs == {tape'[i].high : i \in DOMAIN tape'}
    IN  /\ Valid(b, k)
        /\ SetupOf(b, k) # b.date
        /\ prev.trigger = None
        /\ prev.stage = "B1_READY"
        /\ \E top \in highs, stage \in B2Stages :
             /\ \A high \in highs : high <= top
             /\ stage = "B2_CONFIRMED" => b.close >= top + TriggerGap
             /\ signal' = Emit(b.date, SetupOf(b, k), b, stage, Kept(prev),
                               Freeze(top + TriggerGap, b.date), {}, {})

\* The day after the first B1: its trigger tops the highs of the platform.
EvaluateTriggered(b, k) ==
    LET prev == Inherited(b, k)
        highs == {tape'[i].high : i \in DOMAIN tape'}
    IN  /\ Valid(b, k)
        /\ SetupOf(b, k) # b.date
        /\ prev.trigger = None
        /\ prev.stage = "B1_READY"
        /\ \E top \in highs, warned, exhausted \in BOOLEAN :
             /\ \A high \in highs : high <= top
             /\ signal' = Emit(b.date, SetupOf(b, k), b, "B2_READY", Kept(prev),
                               Freeze(top + TriggerGap, b.date), {},
                               EventFlags(prev, b.date, b, "B2_READY", warned,
                                          exhausted))

\* What the first B1 day freezes, from a support and a target read that day.
FrozenLevels(d, b, low, target) ==
    [support |-> Freeze(low, d),
     invalid |-> Freeze(low - InvalidGap, d),
     s1 |-> IF target = None THEN None ELSE Freeze(target, d),
     expected |-> b.high + TriggerGap]

\* A target lies above the close and above the trigger expected of the day.
Targets(b) == {p \in Prices : p > b.close /\ p > b.high + TriggerGap}

\* Mutant: a support is frozen however far above the close it lies.
SupportsAny(b) == Prices

\* The support nearest the close may exceed it by the allowed gap only.
Supports(b) == {p \in Prices : p <= b.close + AboveGap}

\* The B1 conditions hold, of a support that is frozen unless one was before.
EvaluateB1(b, k) ==
    LET prev == Inherited(b, k)
    IN  /\ Valid(b, k)
        /\ SetupOf(b, k) # b.date
        /\ prev.trigger = None
        /\ prev.stage # "B1_READY"
        /\ prev.support # None => Eligible(prev.support, b.date)
        /\ \E low \in Supports(b), target \in Maybe(Targets(b)) :
             signal' = Emit(b.date, SetupOf(b, k), b, "B1_READY",
                            IF prev.support = None
                              THEN FrozenLevels(b.date, b, low, target)
                              ELSE Kept(prev),
                            prev.trigger, {},
                            EventFlags(prev, b.date, b, "B1_READY", FALSE, FALSE))

EvaluateWatch(b, k) ==
    LET prev == Inherited(b, k)
    IN  /\ Valid(b, k)
        /\ SetupOf(b, k) # b.date
        /\ prev.trigger = None
        /\ prev.stage # "B1_READY"
        /\ signal' = Emit(b.date, SetupOf(b, k), b, "WATCH_PULLBACK", Kept(prev),
                          prev.trigger, {},
                          EventFlags(prev, b.date, b, "WATCH_PULLBACK", FALSE, FALSE))

Evaluate(b, k) ==
    \/ EvaluateNormal(b, k)
    \/ EvaluateInvalid(b, k)
    \/ EvaluateAnchor(b, k)
    \/ EvaluateConfirmed(b, k)
    \/ EvaluateHeld(b, k)
    \/ EvaluateTriggered(b, k)
    \/ EvaluateB1(b, k)
    \/ EvaluateWatch(b, k)

Next == \E b \in Bars, k \in {"quiet", "anchor", "board"} : Evaluate(b, k)

Spec == Init /\ [][Next]_vars
-----------------------------------------------------------------------------
(* Properties *)

\* StrategySignal.validate_signal_invariants, on the fields modelled here.
Accepts(s) ==
    LET levels == {s.support, s.invalid, s.s1, s.trigger} \ {None}
    IN  /\ \A l \in levels : l.frozen <= s.date /\ l.frozen < l.eligible
        /\ s.stage \in Actionable <=> s.room # "NA"
        /\ s.stage \in Actionable =>
             s.setup # None /\ s.support # None /\ s.invalid # None
        /\ s.stage \in B2Stages => s.trigger # None
        /\ s.stage = "B2_CONFIRMED" =>
             s.trigger.frozen < s.date /\ s.trigger.eligible <= s.date
        /\ s.stage = "LIMIT_ANCHOR" => levels = {} /\ s.events = {}
        /\ "SUPPORT_WARNING" \in s.events => Eligible(s.support, s.date)
        /\ s.events \ {"SUPPORT_WARNING"} # {} => Eligible(s.s1, s.date)
        /\ s.expected # None /\ s.s1 # None => s.s1.price > s.expected
        /\ s.stage = "INVALID" <=> s.reasons # {}
        /\ s.stage = "INVALID" =>
             Eligible(s.support, s.date) /\ Eligible(s.invalid, s.date)

\* No sequence of days makes evaluate_strategy build a signal that its model
\* validator rejects, which would end the run of the code it was about.
SignalAccepted == Accepts(signal)

\* The levels of a signal were frozen in the order of the lifecycle: the
\* anchor, then the support on a later day, the trigger on a later day still,
\* and the trigger is never below the one that was expected on the B1 day.
FrozenInOrder ==
    /\ signal.support # None => signal.setup < signal.support.frozen
    /\ signal.trigger # None =>
         /\ signal.support # None
         /\ signal.support.frozen < signal.trigger.frozen
         /\ PlatformDays > 1 => signal.expected <= signal.trigger.price

\* A setup offered for entry has closed above its invalid price, also on the
\* day that freezes the price and does not yet test it.
EntryAboveInvalid ==
    signal.stage \in Actionable =>
        tape[Len(tape)].close > signal.invalid.price

\* A failed recovery of the support never ends a setup: the break it recovers
\* from had ended it the day before.
RecoveryNeverFirst ==
    "FAILED_SUPPORT_RECOVERY" \in signal.reasons => "SUPPORT_BREAK" \in signal.reasons

\* Only what was frozen before today acts on today's stage: a confirmation or
\* an invalidation is due to levels the previous signal already carried.
YesterdaysLevels ==
    [][/\ signal'.stage = "B2_CONFIRMED" =>
            signal.trigger # None /\ signal'.trigger = signal.trigger
       /\ signal'.stage = "INVALID" =>
            signal.support # None /\ signal'.support = signal.support]_vars

\* The reasons of an invalid setup are never withdrawn while it is the setup.
ReasonsOnlyGrow ==
    [][signal'.setup = signal.setup => signal.reasons \subseteq signal'.reasons]_vars

PhaseOf ==
    [NORMAL |-> "idle", LIMIT_ANCHOR |-> "watch", WATCH_PULLBACK |-> "watch",
     B1_READY |-> "b1", B2_READY |-> "b2", B2_CONFIRMED |-> "confirmed",
     INVALID |-> "dead"]

Lifecycle == INSTANCE SetupLifecycle WITH
    Anchors <- Days,
    Floors <- [support : Levels, invalid : Levels, s1 : Maybe(Levels),
               expected : Int],
    Triggers <- Levels,
    latest <- limitup.date,
    setup <- signal.setup,
    phase <- PhaseOf[signal.stage],
    floor <- IF signal.support = None THEN None ELSE Kept(signal),
    trigger <- signal.trigger

\* The evaluated days implement the lifecycle a reader of signals is promised.
RefinesLifecycle == Lifecycle!LCSpec
=============================================================================
