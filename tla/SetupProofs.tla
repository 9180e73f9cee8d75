---------------------------- MODULE SetupProofs ----------------------------
(***************************************************************************)
(* Proofs about SetupEngine and about the two programs that drive it, the  *)
(* replay of a stock and the outcome study, for any number of days and     *)
(* sessions, any prices, buffers and windows.                              *)
(*                                                                         *)
(* The inductive invariant of the engine says what a signal holds at each  *)
(* stage and how old it is; every step either loses the anchor, opens a    *)
(* setup or continues the one of the previous signal.  On it rest that of  *)
(* the replay, what a timeline is and how it goes on, and that of the      *)
(* study, what an event is and of which sessions its episode was read.     *)
(***************************************************************************)
EXTENDS SetupReplay, OutcomeStudy, WellFoundedInduction, TLAPS

\* The calendar of the variables: the signal is of the last bar's day, and of
\* the setup that the latest limit-up anchors.
Dated ==
    /\ signal.date = day
    /\ limitup.date <= day
    /\ limitup.kind = "anchor" => limitup.date \in Days
    /\ signal.setup = DetectAnchor(limitup)
    /\ day > 0 => tape # <<>>
    /\ tape # <<>> => tape[Len(tape)].date = day

FrozenBy(level, d) == level.frozen <= d /\ level.eligible = level.frozen + 1

\* A floor is frozen whole, on a day after the anchor.
FloorFrozen ==
    /\ signal.support # None /\ signal.invalid # None /\ signal.expected # None
    /\ signal.setup < signal.support.frozen
    /\ FrozenBy(signal.support, day)
    /\ FrozenBy(signal.invalid, day)
    /\ signal.invalid.frozen = signal.support.frozen
    /\ signal.s1 # None =>
         /\ FrozenBy(signal.s1, day)
         /\ signal.s1.frozen = signal.support.frozen
         /\ signal.s1.price > signal.expected

TriggerFrozen ==
    signal.trigger # None =>
        /\ FrozenBy(signal.trigger, day)
        /\ signal.support.frozen < signal.trigger.frozen
        /\ PlatformDays > 1 => signal.expected <= signal.trigger.price

\* A signal with nothing frozen.
Plain(d, a, stage) ==
    [date |-> d, setup |-> a, stage |-> stage,
     support |-> None, invalid |-> None, s1 |-> None, expected |-> None,
     trigger |-> None, reasons |-> {}, events |-> {}, room |-> "NA"]

Bare == signal = Plain(day, signal.setup, signal.stage)

\* What the stage of a signal says of everything else in it.
Staged ==
    /\ signal.stage = "NORMAL" <=> signal.setup = None
    /\ signal.stage \notin Actionable \cup {"INVALID"} => Bare
    /\ signal.stage \in Actionable \cup {"INVALID"} => FloorFrozen /\ TriggerFrozen
    /\ signal.stage = "B1_READY" =>
         /\ signal.trigger = None
         /\ signal.support.frozen = day
         /\ tape # <<>>
         /\ signal.expected = tape[Len(tape)].high + TriggerGap
    /\ signal.stage \in B2Stages \cup {"INVALID"} => signal.support.frozen < day
    /\ signal.stage \in B2Stages => signal.trigger # None
    /\ signal.stage = "B2_CONFIRMED" => signal.trigger.frozen < day
    /\ signal.stage = "INVALID" <=> signal.reasons # {}
    /\ signal.stage \in Actionable <=> signal.room # "NA"

\* Events are about levels frozen on an earlier day.
EventsDue ==
    /\ "SUPPORT_WARNING" \in signal.events =>
         signal.support # None /\ signal.support.frozen < day
    /\ signal.events \ {"SUPPORT_WARNING"} # {} =>
         signal.s1 # None /\ signal.s1.frozen < day

\* A close that broke an eligible support is among the reasons it left.
BreakRecorded ==
    signal.support # None /\ signal.support.frozen < day /\ tape # <<>>
        /\ tape[Len(tape)].close < signal.support.price - BreakGap
      => "SUPPORT_BREAK" \in signal.reasons

IInv ==
    /\ TypeOK
    /\ Dated
    /\ Staged
    /\ EventsDue
    /\ BreakRecorded
    /\ RecoveryNeverFirst
    /\ EntryAboveInvalid

USE DEF Actionable, B2Stages, Stages, Events, Reasons, Maybe, Days, Prices

----------------------------------------------------------------------------
\* The window keeps the bar that has just been added to it as its last one.
LEMMA WindowLast ==
    ASSUME TypeOK, NEW b \in Bars
    PROVE  /\ Window(b) \in Seq(Bars)
           /\ Window(b) # <<>>
           /\ Window(b)[Len(Window(b))] = b
  <1> DEFINE longer == Append(tape, b)
  <1>1. /\ longer \in Seq(Bars) /\ Len(longer) = Len(tape) + 1
        /\ Len(tape) \in Nat /\ longer[Len(longer)] = b
    BY DEF TypeOK
  <1>2. CASE Len(longer) > PlatformDays
    <2>1. Len(longer) > 1
      BY <1>1, <1>2, WindowAssumption
    <2>2. /\ Tail(longer) \in Seq(Bars) /\ Len(Tail(longer)) = Len(longer) - 1
          /\ \A i \in 1 .. Len(longer) - 1 : Tail(longer)[i] = longer[i + 1]
      BY <1>1, <2>1
    <2> HIDE DEF longer
    <2>3. Tail(longer)[Len(longer) - 1] = longer[Len(longer)]
      BY <1>1, <2>1, <2>2
    <2>4. Tail(longer) # <<>>
      BY <1>1, <2>1, <2>2
    <2> QED BY <1>1, <1>2, <2>2, <2>3, <2>4 DEF Window, longer
  <1>3. CASE ~(Len(longer) > PlatformDays)
    BY <1>1, <1>3 DEF Window
  <1> QED BY <1>2, <1>3

\* A window of two days or more also keeps the bar before.
LEMMA WindowPrevious ==
    ASSUME TypeOK, NEW b \in Bars, tape # <<>>, PlatformDays > 1
    PROVE  \E i \in DOMAIN Window(b) : Window(b)[i] = tape[Len(tape)]
  <1> DEFINE longer == Append(tape, b)
  <1>1. /\ longer \in Seq(Bars) /\ Len(longer) = Len(tape) + 1
        /\ Len(tape) \in Nat \ {0} /\ longer[Len(tape)] = tape[Len(tape)]
    BY DEF TypeOK
  <1>2. CASE Len(longer) > PlatformDays
    <2>1. Len(tape) > 1
      BY <1>1, <1>2, WindowAssumption
    <2>2. /\ Len(Tail(longer)) = Len(tape)
          /\ \A i \in 1 .. Len(tape) : Tail(longer)[i] = longer[i + 1]
          /\ DOMAIN Tail(longer) = 1 .. Len(tape)
      BY <1>1, <2>1
    <2> HIDE DEF longer
    <2>3. Tail(longer)[Len(tape) - 1] = tape[Len(tape)]
      BY <1>1, <2>1, <2>2
    <2>4. Len(tape) - 1 \in DOMAIN Tail(longer)
      BY <1>1, <2>1, <2>2
    <2> QED BY <1>2, <2>3, <2>4 DEF Window, longer
  <1>3. CASE ~(Len(longer) > PlatformDays)
    BY <1>1, <1>3 DEF Window
  <1> QED BY <1>2, <1>3
----------------------------------------------------------------------------
(* The three ways a day can go *)

\* A day that goes on with the setup of the previous signal.
Continued(b, k) ==
    /\ limitup' = [limitup EXCEPT !.age = @ + 1]
    /\ limitup.kind = "anchor"
    /\ signal.setup # None
    /\ signal.setup = limitup.date
    /\ DetectAnchor(limitup') = signal.setup
    /\ SetupOf(b, k) = signal.setup
    /\ Inherited(b, k) = signal
    /\ signal.setup < b.date

Lost(b) == signal' = Normal(b.date) /\ DetectAnchor(limitup') = None

Opening(b) ==
    /\ signal' = Plain(b.date, b.date, "LIMIT_ANCHOR")
    /\ limitup' = [date |-> b.date, kind |-> "anchor", age |-> 0]
    /\ DetectAnchor(limitup') = b.date

\* The fields of a bar are days and prices, and no bar is closed above its high.
LEMMA BarTypes ==
    ASSUME NEW b \in Bars
    PROVE  /\ b.date \in Nat /\ b.date \in Days /\ b.high \in Prices
           /\ b.close \in Prices /\ b.close <= b.high
           /\ b.date # None /\ b.close \in Int /\ b.high \in Int
  BY NoneAssumption, BoundsAssumption DEF Bars

\* No signal of an earlier setup is inherited from on the day of an anchor.
LEMMA NothingInherited ==
    ASSUME NEW b \in Bars, NEW structure \in BOOLEAN
    PROVE  /\ InvalidationReasons(Normal(0), b.date, b, structure) = {}
           /\ ~B2Mandatory(Normal(0), b.date, b)
           /\ EventFlags(Normal(0), b.date, b, "LIMIT_ANCHOR", FALSE, FALSE) = {}
  BY DEF InvalidationReasons, CurrentReasons, B2Mandatory, EventFlags, Eligible,
         Normal

\* Every day loses the anchor, opens the setup of that day, or continues one:
\* nothing of another setup is inherited.
LEMMA DayCases ==
    ASSUME IInv, NEW b \in Bars, NEW k \in {"quiet", "anchor", "board"},
           Evaluate(b, k)
    PROVE  /\ Observe(b, k)
           /\ Lost(b) \/ Opening(b) \/ Continued(b, k)
  <1> USE DEF IInv, TypeOK, Dated
  <1>1. Observe(b, k) /\ limitup' = Limit(b.date, k)
    BY DEF Evaluate, EvaluateNormal, EvaluateInvalid, EvaluateAnchor,
           EvaluateConfirmed, EvaluateHeld, EvaluateTriggered, EvaluateB1,
           EvaluateWatch, Valid, Observe
  <1>2. CASE SetupOf(b, k) = None
    BY <1>1, <1>2
    DEF Evaluate, EvaluateNormal, EvaluateInvalid, EvaluateAnchor,
        EvaluateConfirmed, EvaluateHeld, EvaluateTriggered, EvaluateB1,
        EvaluateWatch, Valid, SetupOf, Lost
  <1>3. CASE SetupOf(b, k) # None /\ k = "quiet"
    <2>1. limitup' = [limitup EXCEPT !.age = @ + 1]
      BY <1>1, <1>3 DEF Limit
    <2>2. limitup.kind = "anchor" /\ SetupOf(b, k) = limitup.date
          /\ DetectAnchor(limitup') = limitup.date
      BY <1>1, <1>3, <2>1 DEF SetupOf, DetectAnchor, Limit
    <2>3. signal.setup = limitup.date
      BY <1>3, <2>1, <2>2, WindowAssumption DEF SetupOf, DetectAnchor, Limit
    <2>4. Inherited(b, k) = signal
      BY <2>2, <2>3 DEF Inherited, PreviousSame
    <2>5. signal.setup # None /\ signal.setup < b.date
      BY <1>1, <1>3, <2>2, <2>3, BarTypes, BoundsAssumption DEF Observe
    <2> QED BY <1>1, <2>1, <2>2, <2>3, <2>4, <2>5 DEF Continued
  <1>4. CASE SetupOf(b, k) # None /\ k # "quiet"
    <2>1. k = "anchor" /\ SetupOf(b, k) = b.date
          /\ limitup' = [date |-> b.date, kind |-> "anchor", age |-> 0]
          /\ DetectAnchor(limitup') = b.date
      BY <1>1, <1>4 DEF SetupOf, DetectAnchor, Limit
    <2>2. signal.setup # b.date
      BY <1>1, BarTypes, BoundsAssumption DEF Observe, DetectAnchor
    <2>3. Inherited(b, k) = Normal(0)
      BY <2>1, <2>2 DEF Inherited, PreviousSame
    <2>4. EvaluateAnchor(b, k)
      BY <1>4, <2>1, <2>3, NothingInherited
      DEF Evaluate, EvaluateNormal, EvaluateInvalid, EvaluateConfirmed,
          EvaluateHeld, EvaluateTriggered, EvaluateB1, EvaluateWatch
    <2>5. signal' = Emit(b.date, b.date, b, "LIMIT_ANCHOR", Kept(Normal(0)), None,
                         {}, {})
      <3>1. Normal(0).trigger = None
        BY DEF Normal
      <3> QED BY <2>1, <2>3, <2>4, <3>1, NothingInherited DEF EvaluateAnchor
    <2>6. signal' = Plain(b.date, b.date, "LIMIT_ANCHOR")
      <3>1. EntryRoom("LIMIT_ANCHOR", b, None, None) = "NA"
        BY DEF EntryRoom
      <3> QED BY <2>5, <3>1 DEF Emit, NoLevels, Plain
    <2> QED BY <1>1, <2>1, <2>6 DEF Opening
  <1> QED BY <1>1, <1>2, <1>3, <1>4
----------------------------------------------------------------------------
(* What an evaluation that continues a setup emits *)

\* An actionable or invalid signal with the levels of the previous one.
Carried(b, stage, trigger, reasons, events) ==
    /\ signal'.date = b.date /\ signal'.setup = signal.setup
    /\ signal'.stage = stage
    /\ signal'.support = signal.support /\ signal'.invalid = signal.invalid
    /\ signal'.s1 = signal.s1 /\ signal'.expected = signal.expected
    /\ signal'.trigger = trigger /\ signal'.reasons = reasons
    /\ signal'.events = events
    /\ stage \in Actionable <=> signal'.room # "NA"

\* Emitting the kept levels at a stage that shows levels carries them unchanged.
LEMMA KeptIsCarried ==
    ASSUME NEW b \in Bars, NEW stage \in Actionable \cup {"INVALID"},
           NEW trigger, NEW reasons, NEW events,
           signal' = Emit(b.date, signal.setup, b, stage, Kept(signal), trigger,
                          reasons, events)
    PROVE  Carried(b, stage, trigger, reasons, events)
  <1>1. stage \in Actionable <=> EntryRoom(stage, b, trigger, signal.s1) # "NA"
    BY DEF EntryRoom
  <1> QED BY <1>1 DEF Emit, Kept, Carried

\* What Emit builds of well-typed parts is a signal.
LEMMA EmitType ==
    ASSUME NEW b \in Bars, NEW a \in Nat, NEW stage \in Stages,
           NEW levels \in [support : Maybe(Levels), invalid : Maybe(Levels),
                           s1 : Maybe(Levels), expected : Maybe(Int)],
           NEW trigger \in Maybe(Levels), NEW reasons \in SUBSET Reasons,
           NEW events \in SUBSET Events
    PROVE  Emit(b.date, a, b, stage, levels, trigger, reasons, events) \in Signals
  <1>1. \A s1 : EntryRoom(stage, b, trigger, s1)
                   \in {"NA", "OPEN_SPACE", "NONE", "ROOM"}
    BY DEF EntryRoom
  <1>2. NoLevels \in [support : Maybe(Levels), invalid : Maybe(Levels),
                      s1 : Maybe(Levels), expected : Maybe(Int)]
    BY DEF NoLevels
  <1>3. b.date \in Nat
    BY BarTypes
  <1> QED BY <1>1, <1>2, <1>3 DEF Emit, Signals

\* The levels of a signal are levels, or absent.
LEMMA KeptType ==
    ASSUME TypeOK
    PROVE  Kept(signal) \in [support : Maybe(Levels), invalid : Maybe(Levels),
                             s1 : Maybe(Levels), expected : Maybe(Int)]
  BY DEF TypeOK, Signals, Kept

\* Events are raised by levels that the previous signal carried.
LEMMA FlagsDue ==
    ASSUME NEW b \in Bars, NEW stage, NEW warned, NEW exhausted
    PROVE  LET flags == EventFlags(signal, b.date, b, stage, warned, exhausted)
           IN  /\ flags \in SUBSET Events
               /\ "SUPPORT_WARNING" \in flags => Eligible(signal.support, b.date)
               /\ flags \ {"SUPPORT_WARNING"} # {} => Eligible(signal.s1, b.date)
  BY DEF EventFlags

\* Eligibility is having been frozen on an earlier day.
LEMMA EligibleIsOlder ==
    ASSUME NEW level \in Levels, NEW d \in Nat, FrozenBy(level, day)
    PROVE  Eligible(level, d) <=> level.frozen < d
  BY NoneAssumption DEF FrozenBy, Eligible, Levels

\* The levels of a floor are levels.
LEMMA FloorTypes ==
    ASSUME TypeOK, FloorFrozen, TriggerFrozen
    PROVE  /\ signal.support \in Levels /\ signal.invalid \in Levels
           /\ signal.expected \in Int
           /\ signal.s1 # None => signal.s1 \in Levels
           /\ signal.trigger # None => signal.trigger \in Levels
  BY DEF TypeOK, FloorFrozen, Signals

\* The floor and the trigger a signal carries on stay what they were.
LEMMA FloorCarried ==
    ASSUME TypeOK, Dated, NEW b \in Bars, day < b.date, NEW stage, NEW trigger, NEW reasons, NEW events,
           day' = b.date, FloorFrozen, TriggerFrozen,
           Carried(b, stage, trigger, reasons, events)
    PROVE  /\ FloorFrozen'
           /\ signal'.support.frozen < day'
           /\ trigger = signal.trigger => TriggerFrozen'
  <1>1. day \in Nat /\ b.date \in Nat
    BY BarTypes, BoundsAssumption DEF TypeOK
  <1> QED BY <1>1, FloorTypes, WindowAssumption
      DEF FloorFrozen, TriggerFrozen, FrozenBy, Carried, Levels
----------------------------------------------------------------------------
(* The outcomes of a day that continues a setup *)

\* Events that some day may emit after the previous signal.
Due(b, events) ==
    /\ events \in SUBSET Events
    /\ "SUPPORT_WARNING" \in events => Eligible(signal.support, b.date)
    /\ events \ {"SUPPORT_WARNING"} # {} => Eligible(signal.s1, b.date)

Unbroken(b) == InvalidationReasons(signal, b.date, b, FALSE) = {}

Dying(b) ==
    \E structure \in BOOLEAN, events \in SUBSET Events :
        /\ Due(b, events)
        /\ InvalidationReasons(signal, b.date, b, structure) # {}
        /\ Carried(b, "INVALID", signal.trigger,
                   InvalidationReasons(signal, b.date, b, structure), events)

Confirming(b) ==
    /\ Unbroken(b) /\ B2Mandatory(signal, b.date, b)
    /\ \E events \in SUBSET Events : Due(b, events)
                  /\ Carried(b, "B2_CONFIRMED", signal.trigger, {}, events)

Waiting(b) ==
    /\ Unbroken(b) /\ signal.trigger # None
    /\ \E events \in SUBSET Events : Due(b, events)
                  /\ Carried(b, "B2_READY", signal.trigger, {}, events)

Triggering(b) ==
    /\ Unbroken(b) /\ signal.trigger = None /\ signal.stage = "B1_READY"
    /\ \E top \in {tape'[i].high : i \in DOMAIN tape'}, events \in SUBSET Events :
         /\ \A i \in DOMAIN tape' : tape'[i].high <= top
         /\ Due(b, events)
         /\ Carried(b, "B2_READY", Freeze(top + TriggerGap, b.date), {}, events)

Before == signal.stage \in {"LIMIT_ANCHOR", "WATCH_PULLBACK"}

Sealing(b) ==
    /\ Unbroken(b) /\ Before
    /\ \E low \in Supports(b), target \in Maybe(Targets(b)) :
         signal' = Emit(b.date, signal.setup, b, "B1_READY",
                        FrozenLevels(b.date, b, low, target), None, {}, {})

Watching(b) ==
    /\ Unbroken(b) /\ Before
    /\ signal' = Plain(b.date, signal.setup, "WATCH_PULLBACK")

\* The reasons of a day: those carried on, and what its own bar breaks.
LEMMA ReasonsMean ==
    ASSUME NEW b, NEW structure
    PROVE  LET reasons == InvalidationReasons(signal, b.date, b, structure)
               acting == Eligible(signal.support, b.date)
                           /\ Eligible(signal.invalid, b.date)
           IN  /\ signal.stage = "INVALID" => signal.reasons \subseteq reasons
               /\ acting /\ b.close <= signal.invalid.price =>
                    "HIT_INVALID_PRICE" \in reasons
               /\ acting /\ b.close < signal.support.price - BreakGap =>
                    "SUPPORT_BREAK" \in reasons
               /\ reasons \subseteq Reasons
                    \cup (IF signal.stage = "INVALID" THEN signal.reasons ELSE {})
               /\ signal.stage # "INVALID" /\ ~acting => reasons = {}
               /\ "FAILED_SUPPORT_RECOVERY" \in reasons =>
                    \/ signal.stage = "INVALID"
                         /\ "FAILED_SUPPORT_RECOVERY" \in signal.reasons
                    \/ /\ acting /\ Len(tape) > 0
                       /\ signal.support.eligible <= tape[Len(tape)].date
                       /\ tape[Len(tape)].close < signal.support.price - BreakGap
  BY DEF InvalidationReasons, CurrentReasons

\* An invalid setup stays so, and an unbroken one closed above its levels.
LEMMA UnbrokenMeans ==
    ASSUME IInv, NEW b \in Bars, day < b.date, Unbroken(b)
    PROVE  /\ signal.stage # "INVALID"
           /\ signal.stage \in Actionable =>
                /\ b.close > signal.invalid.price
                /\ b.close >= signal.support.price - BreakGap
  <1> USE DEF IInv, Staged
  <1>1. signal.stage # "INVALID"
    <2>1. signal.stage = "INVALID" => signal.reasons = {}
      BY ReasonsMean DEF Unbroken
    <2> QED BY <2>1
  <1>2. ASSUME signal.stage \in Actionable
        PROVE  /\ b.close > signal.invalid.price
               /\ b.close >= signal.support.price - BreakGap
    <2>0. TypeOK /\ FloorFrozen /\ TriggerFrozen
      BY <1>2
    <2>1. signal.support \in Levels /\ signal.invalid \in Levels
      BY <2>0, FloorTypes
    <2>2. signal.support.frozen < b.date /\ signal.invalid.frozen < b.date
      <3>1. day \in Nat /\ b.date \in Nat
        BY <2>0, BarTypes, BoundsAssumption DEF TypeOK
      <3> QED BY <2>0, <2>1, <3>1 DEF FloorFrozen, FrozenBy, Levels
    <2>3. Eligible(signal.support, b.date) /\ Eligible(signal.invalid, b.date)
      BY <2>0, <2>1, <2>2, EligibleIsOlder, BarTypes DEF FloorFrozen
    <2>4. /\ ~(b.close <= signal.invalid.price)
          /\ ~(b.close < signal.support.price - BreakGap)
      BY <2>3, ReasonsMean DEF Unbroken
    <2>5. /\ signal.invalid.price \in Int /\ signal.support.price \in Int
          /\ BreakGap \in Int /\ b.close \in Int
      BY <2>1, BarTypes, GapAssumption DEF Levels
    <2> QED BY <2>4, <2>5
  <1> QED BY <1>1, <1>2

\* Without a trigger and not the day after a B1, nothing is frozen yet.
LEMMA NothingFrozen ==
    ASSUME IInv, NEW b \in Bars, day < b.date, Unbroken(b), signal.setup # None,
           signal.trigger = None, signal.stage # "B1_READY"
    PROVE  Before /\ Bare
  BY UnbrokenMeans DEF IInv, Staged, Before, TypeOK, Signals

\* A continued day is one of the six outcomes above.
LEMMA ContinuedCases ==
    ASSUME IInv, NEW b \in Bars, NEW k \in {"quiet", "anchor", "board"},
           Evaluate(b, k), Observe(b, k), Continued(b, k)
    PROVE  \/ Dying(b) \/ Confirming(b) \/ Waiting(b)
           \/ Triggering(b) \/ Sealing(b) \/ Watching(b)
  <1>1. day < b.date /\ b.date \in Nat /\ day \in Nat
    BY BarTypes, BoundsAssumption DEF Observe, IInv, TypeOK
  <1>2. SetupOf(b, k) = signal.setup /\ Inherited(b, k) = signal
        /\ signal.setup # None /\ signal.setup # b.date
    BY <1>1 DEF Continued
  <1>3. Valid(b, k) => Unbroken(b)
    BY <1>2 DEF Valid, Unbroken
  <1>4. ASSUME EvaluateInvalid(b, k) PROVE Dying(b)
    <2> PICK structure \in BOOLEAN, exhausted \in BOOLEAN :
          /\ InvalidationReasons(signal, b.date, b, structure) # {}
          /\ signal' = Emit(b.date, signal.setup, b, "INVALID", Kept(signal),
                            signal.trigger,
                            InvalidationReasons(signal, b.date, b, structure),
                            EventFlags(signal, b.date, b, "INVALID", FALSE, exhausted))
      BY <1>2, <1>4 DEF EvaluateInvalid
    <2> QED BY KeptIsCarried, FlagsDue DEF Dying, Due
  <1>5. ASSUME EvaluateConfirmed(b, k) PROVE Confirming(b)
    <2>1. B2Mandatory(signal, b.date, b) /\ Unbroken(b)
      BY <1>2, <1>3, <1>5 DEF EvaluateConfirmed
    <2> PICK warned \in BOOLEAN, exhausted \in BOOLEAN :
          signal' = Emit(b.date, signal.setup, b, "B2_CONFIRMED", Kept(signal),
                         signal.trigger, {},
                         EventFlags(signal, b.date, b, "B2_CONFIRMED", warned,
                                    exhausted))
      BY <1>2, <1>5 DEF EvaluateConfirmed
    <2> QED BY <2>1, KeptIsCarried, FlagsDue DEF Confirming, Due
  <1>6. ASSUME EvaluateHeld(b, k) PROVE Waiting(b)
    <2>1. signal.trigger # None /\ Unbroken(b)
      BY <1>2, <1>3, <1>6 DEF EvaluateHeld
    <2> PICK warned \in BOOLEAN, exhausted \in BOOLEAN :
          signal' = Emit(b.date, signal.setup, b, "B2_READY", Kept(signal),
                         signal.trigger, {},
                         EventFlags(signal, b.date, b, "B2_READY", warned, exhausted))
      BY <1>2, <1>6 DEF EvaluateHeld
    <2> QED BY <2>1, KeptIsCarried, FlagsDue DEF Waiting, Due
  <1>7. ASSUME EvaluateTriggered(b, k) PROVE Triggering(b)
    <2>1. signal.trigger = None /\ signal.stage = "B1_READY" /\ Unbroken(b)
      BY <1>2, <1>3, <1>7 DEF EvaluateTriggered
    <2> PICK top \in {tape'[i].high : i \in DOMAIN tape'},
             warned \in BOOLEAN, exhausted \in BOOLEAN :
          /\ \A high \in {tape'[i].high : i \in DOMAIN tape'} : high <= top
          /\ signal' = Emit(b.date, signal.setup, b, "B2_READY", Kept(signal),
                            Freeze(top + TriggerGap, b.date), {},
                            EventFlags(signal, b.date, b, "B2_READY", warned,
                                       exhausted))
      BY <1>2, <1>7 DEF EvaluateTriggered
    <2> QED BY <2>1, KeptIsCarried, FlagsDue DEF Triggering, Due
  <1>8. ASSUME EvaluateB1(b, k) PROVE Sealing(b)
    <2>1. signal.trigger = None /\ signal.stage # "B1_READY" /\ Unbroken(b)
      BY <1>2, <1>3, <1>8 DEF EvaluateB1
    <2>2. Before /\ Bare
      BY <1>1, <1>2, <2>1, NothingFrozen
    <2>3. EventFlags(signal, b.date, b, "B1_READY", FALSE, FALSE) = {}
      BY <2>2 DEF EventFlags, Bare, Plain, Eligible
    <2>4. signal.support = None
      BY <2>2 DEF Bare, Plain
    <2> QED BY <1>2, <1>8, <2>1, <2>2, <2>3, <2>4 DEF EvaluateB1, Sealing
  <1>9. ASSUME EvaluateWatch(b, k) PROVE Watching(b)
    <2>1. signal.trigger = None /\ signal.stage # "B1_READY" /\ Unbroken(b)
      BY <1>2, <1>3, <1>9 DEF EvaluateWatch
    <2>2. Before /\ Bare
      BY <1>1, <1>2, <2>1, NothingFrozen
    <2>3. EventFlags(signal, b.date, b, "WATCH_PULLBACK", FALSE, FALSE) = {}
      BY <2>2 DEF EventFlags, Bare, Plain, Eligible
    <2>4. signal' = Emit(b.date, signal.setup, b, "WATCH_PULLBACK", Kept(signal),
                         None, {}, {})
      BY <1>2, <1>9, <2>1, <2>3 DEF EvaluateWatch
    <2>5. EntryRoom("WATCH_PULLBACK", b, None, None) = "NA"
      BY DEF EntryRoom
    <2> QED BY <2>1, <2>2, <2>4, <2>5 DEF Emit, NoLevels, Watching, Plain
  <1>10. ~EvaluateNormal(b, k) /\ ~EvaluateAnchor(b, k)
    BY <1>2 DEF EvaluateNormal, EvaluateAnchor
  <1> QED BY <1>4, <1>5, <1>6, <1>7, <1>8, <1>9, <1>10 DEF Evaluate
----------------------------------------------------------------------------
(* The invariant is inductive *)

\* The empty history satisfies the invariant.
LEMMA Initial == Init => IInv
  <1> SUFFICES ASSUME Init PROVE IInv
    OBVIOUS
  <1>1. TypeOK
    BY BoundsAssumption DEF Init, TypeOK, Normal, Signals
  <1>2. Dated
    BY <1>1 DEF Init, Dated, Normal, DetectAnchor
  <1>3. Staged
    BY DEF Init, Staged, Normal, Bare, Plain
  <1>4. EventsDue /\ BreakRecorded /\ RecoveryNeverFirst /\ EntryAboveInvalid
    BY DEF Init, EventsDue, BreakRecorded, RecoveryNeverFirst, EntryAboveInvalid,
           Normal
  <1> QED BY <1>1, <1>2, <1>3, <1>4 DEF IInv

\* What the calendar, the limit-ups and the window become, whatever is emitted.
LEMMA ObservedState ==
    ASSUME IInv, NEW b \in Bars, NEW k \in {"quiet", "anchor", "board"},
           Observe(b, k)
    PROVE  /\ day' = b.date /\ day < b.date /\ day \in Nat /\ b.date \in Nat
           /\ day' \in 0 .. MaxDay
           /\ limitup' \in [date : 0 .. MaxDay, kind : {"anchor", "board"}, age : Nat]
           /\ limitup'.date <= day'
           /\ limitup'.kind = "anchor" => limitup'.date \in Days
           /\ tape' \in Seq(Bars) /\ tape' # <<>>
           /\ tape'[Len(tape')] = b
  <1>1. /\ day' = b.date /\ day < b.date /\ day \in Nat /\ b.date \in Nat
        /\ day' \in 0 .. MaxDay
    BY BarTypes, BoundsAssumption DEF Observe, IInv, TypeOK
  <1>2. /\ tape' \in Seq(Bars) /\ tape' # <<>> /\ tape'[Len(tape')] = b
    BY WindowLast DEF IInv, Observe
  <1>3. CASE k = "quiet"
    <2>1. limitup' = [limitup EXCEPT !.age = @ + 1]
      BY <1>3 DEF Observe, Limit
    <2>2. limitup \in [date : 0 .. MaxDay, kind : {"anchor", "board"}, age : Nat]
          /\ limitup.date <= day /\ (limitup.kind = "anchor" => limitup.date \in Days)
      BY DEF IInv, TypeOK, Dated
    <2>3. limitup' \in [date : 0 .. MaxDay, kind : {"anchor", "board"}, age : Nat]
      BY <2>1, <2>2
    <2>4. limitup'.date = limitup.date /\ limitup'.kind = limitup.kind
      BY <2>1, <2>2
    <2> QED BY <1>1, <1>2, <2>2, <2>3, <2>4, BoundsAssumption
  <1>4. CASE k # "quiet"
    <2>1. limitup' = [date |-> b.date, kind |-> k, age |-> 0]
      BY <1>4 DEF Observe, Limit
    <2> QED BY <1>1, <1>2, <1>4, <2>1, BarTypes, BoundsAssumption
  <1> QED BY <1>3, <1>4

\* The reasons of an evaluation are reasons.
LEMMA ReasonsType ==
    ASSUME IInv, NEW b, NEW structure, NEW prev \in {signal, Normal(0)}
    PROVE  InvalidationReasons(prev, b.date, b, structure) \in SUBSET Reasons
  <1>1. prev.reasons \in SUBSET Reasons
    BY DEF IInv, TypeOK, Signals, Normal
  <1> QED BY <1>1 DEF InvalidationReasons, CurrentReasons

\* Every outcome emits a signal.
LEMMA TypeKept ==
    ASSUME IInv, NEW b \in Bars, NEW k \in {"quiet", "anchor", "board"},
           Evaluate(b, k), Observe(b, k)
    PROVE  TypeOK'
  <1>1. Lost(b) \/ Opening(b) \/ Continued(b, k)
    BY DayCases
  <1>2. CASE Lost(b)
    <2>1. signal' \in Signals
      BY <1>2, BarTypes DEF Lost, Normal, Signals
    <2> QED BY <2>1, ObservedState DEF TypeOK
  <1>3. CASE Opening(b)
    <2>1. signal' \in Signals
      BY <1>3, BarTypes DEF Opening, Plain, Signals
    <2> QED BY <2>1, ObservedState DEF TypeOK
  <1>4. CASE Continued(b, k)
    <2>1. Inherited(b, k) = signal /\ SetupOf(b, k) = signal.setup
          /\ signal.setup # None /\ signal.setup # b.date
      BY <1>4, ObservedState DEF Continued
    <2>2. signal.setup \in Nat /\ signal.trigger \in Maybe(Levels)
      BY <2>1 DEF IInv, TypeOK, Signals
    <2>3. Kept(signal) \in [support : Maybe(Levels), invalid : Maybe(Levels),
                            s1 : Maybe(Levels), expected : Maybe(Int)]
      BY KeptType DEF IInv
    <2>4. \A stage, warned, exhausted :
            EventFlags(signal, b.date, b, stage, warned, exhausted) \in SUBSET Events
      BY FlagsDue
    <2>5. CASE EvaluateInvalid(b, k)
      <3> PICK structure \in BOOLEAN, exhausted \in BOOLEAN :
            signal' = Emit(b.date, signal.setup, b, "INVALID", Kept(signal),
                           signal.trigger,
                           InvalidationReasons(signal, b.date, b, structure),
                           EventFlags(signal, b.date, b, "INVALID", FALSE, exhausted))
        BY <2>1, <2>5 DEF EvaluateInvalid
      <3>1. InvalidationReasons(signal, b.date, b, structure) \in SUBSET Reasons
        BY ReasonsType
      <3> QED BY <2>2, <2>3, <2>4, <3>1, EmitType, ObservedState DEF TypeOK
    <2>6. CASE EvaluateConfirmed(b, k)
      <3> PICK warned \in BOOLEAN, exhausted \in BOOLEAN :
            signal' = Emit(b.date, signal.setup, b, "B2_CONFIRMED", Kept(signal),
                           signal.trigger, {},
                           EventFlags(signal, b.date, b, "B2_CONFIRMED", warned,
                                      exhausted))
        BY <2>1, <2>6 DEF EvaluateConfirmed
      <3> QED BY <2>2, <2>3, <2>4, EmitType, ObservedState DEF TypeOK
    <2>7. CASE EvaluateHeld(b, k)
      <3> PICK warned \in BOOLEAN, exhausted \in BOOLEAN :
            signal' = Emit(b.date, signal.setup, b, "B2_READY", Kept(signal),
                           signal.trigger, {},
                           EventFlags(signal, b.date, b, "B2_READY", warned,
                                      exhausted))
        BY <2>1, <2>7 DEF EvaluateHeld
      <3> QED BY <2>2, <2>3, <2>4, EmitType, ObservedState DEF TypeOK
    <2>8. CASE EvaluateTriggered(b, k)
      <3> PICK top \in {tape'[i].high : i \in DOMAIN tape'},
               warned \in BOOLEAN, exhausted \in BOOLEAN :
            signal' = Emit(b.date, signal.setup, b, "B2_READY", Kept(signal),
                           Freeze(top + TriggerGap, b.date), {},
                           EventFlags(signal, b.date, b, "B2_READY", warned,
                                      exhausted))
        BY <2>1, <2>8 DEF EvaluateTriggered
      <3>1. top \in Prices
        <4>1. PICK i \in DOMAIN tape' : top = tape'[i].high
          OBVIOUS
        <4>2. tape'[i] \in Bars
          BY ObservedState
        <4> QED BY <4>1, <4>2, BarTypes
      <3>2. Freeze(top + TriggerGap, b.date) \in Levels
        BY <3>1, BarTypes, GapAssumption DEF Freeze, Levels
      <3> QED BY <2>2, <2>3, <2>4, <3>2, EmitType, ObservedState DEF TypeOK
    <2>9. CASE EvaluateB1(b, k)
      <3> PICK low \in Supports(b), target \in Maybe(Targets(b)) :
            signal' = Emit(b.date, signal.setup, b, "B1_READY",
                           IF signal.support = None
                             THEN FrozenLevels(b.date, b, low, target)
                             ELSE Kept(signal),
                           signal.trigger, {},
                           EventFlags(signal, b.date, b, "B1_READY", FALSE, FALSE))
        BY <2>1, <2>9 DEF EvaluateB1
      <3>1. FrozenLevels(b.date, b, low, target)
              \in [support : Maybe(Levels), invalid : Maybe(Levels),
                   s1 : Maybe(Levels), expected : Maybe(Int)]
        BY BarTypes, GapAssumption
        DEF FrozenLevels, Freeze, Levels, Supports, Targets
      <3> QED BY <2>2, <2>3, <2>4, <3>1, EmitType, ObservedState DEF TypeOK
    <2>10. CASE EvaluateWatch(b, k)
      <3>1. signal' = Emit(b.date, signal.setup, b, "WATCH_PULLBACK", Kept(signal),
                           signal.trigger, {},
                           EventFlags(signal, b.date, b, "WATCH_PULLBACK", FALSE,
                                      FALSE))
        BY <2>1, <2>10 DEF EvaluateWatch
      <3> QED BY <2>2, <2>3, <2>4, <3>1, EmitType, ObservedState DEF TypeOK
    <2>11. ~EvaluateNormal(b, k) /\ ~EvaluateAnchor(b, k)
      BY <2>1 DEF EvaluateNormal, EvaluateAnchor
    <2> QED BY <2>5, <2>6, <2>7, <2>8, <2>9, <2>10, <2>11 DEF Evaluate
  <1> QED BY <1>1, <1>2, <1>3, <1>4
\* The calendar follows from the three ways a day can go.
LEMMA DatedKept ==
    ASSUME IInv, NEW b \in Bars, NEW k \in {"quiet", "anchor", "board"},
           Evaluate(b, k), Observe(b, k)
    PROVE  Dated'
  <1>1. Lost(b) \/ Opening(b) \/ Continued(b, k)
    BY DayCases
  <1>2. CASE Lost(b)
    BY <1>2, ObservedState DEF Lost, Normal, Dated
  <1>3. CASE Opening(b)
    BY <1>3, ObservedState DEF Opening, Plain, Dated
  <1>4. CASE Continued(b, k)
    <2>1. Dying(b) \/ Confirming(b) \/ Waiting(b)
            \/ Triggering(b) \/ Sealing(b) \/ Watching(b)
      BY <1>4, ContinuedCases
    <2>2. signal'.date = b.date /\ signal'.setup = signal.setup
      BY <2>1 DEF Dying, Confirming, Waiting, Triggering, Sealing, Watching,
                  Carried, Emit, Plain
    <2> QED BY <1>4, <2>2, ObservedState DEF Continued, Dated
  <1> QED BY <1>1, <1>2, <1>3, <1>4

\* A bare signal of an earlier stage satisfies everything said of signals.
LEMMA BareKept ==
    ASSUME NEW b, NEW a, NEW stage \in {"NORMAL", "LIMIT_ANCHOR", "WATCH_PULLBACK"},
           signal' = Plain(b.date, a, stage), day' = b.date,
           stage = "NORMAL" <=> a = None
    PROVE  Staged' /\ EventsDue' /\ BreakRecorded' /\ RecoveryNeverFirst'
             /\ EntryAboveInvalid'
  BY DEF Plain, Bare, Staged, EventsDue, BreakRecorded, RecoveryNeverFirst,
         EntryAboveInvalid

\* The floor and the trigger of a signal that has any.
LEMMA FloorOf ==
    ASSUME IInv,
           \/ signal.stage \in Actionable \cup {"INVALID"}
           \/ signal.trigger # None
           \/ signal.support # None
    PROVE  FloorFrozen /\ TriggerFrozen
             /\ signal.stage \in Actionable \cup {"INVALID"}
  BY DEF IInv, Staged, Bare, Plain

\* Events that were due are about levels the day keeps.
LEMMA EventsKept ==
    ASSUME IInv, NEW b \in Bars, NEW stage, NEW trigger, NEW reasons, NEW events,
           Due(b, events), Carried(b, stage, trigger, reasons, events),
           FloorFrozen, TriggerFrozen, day' = b.date
    PROVE  EventsDue'
  <1>1. signal.support \in Levels /\ FrozenBy(signal.support, day)
    BY FloorTypes DEF IInv, FloorFrozen
  <1>2. signal.s1 # None => signal.s1 \in Levels /\ FrozenBy(signal.s1, day)
    BY FloorTypes DEF IInv, FloorFrozen
  <1>3. "SUPPORT_WARNING" \in events => signal.support.frozen < b.date
    BY <1>1, EligibleIsOlder, BarTypes DEF Due
  <1>4. events \ {"SUPPORT_WARNING"} # {} =>
          signal.s1 # None /\ signal.s1.frozen < b.date
    BY <1>2, EligibleIsOlder, BarTypes DEF Due, Eligible
  <1> QED BY <1>1, <1>3, <1>4, NoneAssumption DEF EventsDue, Carried
\* A setup that dies had its floor before, and left a break among its reasons.
LEMMA DyingKeeps ==
    ASSUME IInv, NEW b \in Bars, NEW k \in {"quiet", "anchor", "board"},
           Observe(b, k), Continued(b, k), Dying(b)
    PROVE  Staged' /\ EventsDue' /\ BreakRecorded' /\ RecoveryNeverFirst'
             /\ EntryAboveInvalid' /\ FloorFrozen
  <1> PICK structure \in BOOLEAN, events \in SUBSET Events :
        /\ Due(b, events)
        /\ InvalidationReasons(signal, b.date, b, structure) # {}
        /\ Carried(b, "INVALID", signal.trigger,
                   InvalidationReasons(signal, b.date, b, structure), events)
    BY DEF Dying
  <1> DEFINE reasons == InvalidationReasons(signal, b.date, b, structure)
  <1> HIDE DEF reasons
  <1>0. Carried(b, "INVALID", signal.trigger, reasons, events) /\ reasons # {}
    BY DEF reasons
  <1>1. FloorFrozen /\ TriggerFrozen
    <2>1. signal.stage = "INVALID" \/ signal.support # None
      BY ReasonsMean DEF Eligible
    <2> QED BY <2>1, FloorOf
  <1>2. /\ signal.support \in Levels /\ signal.invalid \in Levels
        /\ FrozenBy(signal.support, day) /\ FrozenBy(signal.invalid, day)
        /\ day < b.date /\ day \in Nat /\ b.date \in Nat /\ day' = b.date
    BY <1>1, FloorTypes, ObservedState DEF IInv, FloorFrozen
  <1>3. Eligible(signal.support, b.date) /\ Eligible(signal.invalid, b.date)
    <2>1. signal.support.frozen < b.date /\ signal.invalid.frozen < b.date
      BY <1>2 DEF FrozenBy, Levels
    <2> QED BY <1>2, <2>1, EligibleIsOlder
  <1>4. FloorFrozen' /\ TriggerFrozen' /\ signal'.support.frozen < day'
    BY <1>0, <1>1, <1>2, FloorCarried DEF IInv
  <1>5. Staged'
    BY <1>0, <1>4, ObservedState DEF Staged, Carried, Continued
  <1>6. EventsDue'
    BY <1>0, <1>1, <1>2, EventsKept
  <1>7. BreakRecorded'
    <2>1. b.close < signal.support.price - BreakGap => "SUPPORT_BREAK" \in reasons
      BY <1>3, ReasonsMean DEF reasons
    <2> QED BY <1>0, <2>1, ObservedState DEF BreakRecorded, Carried
  <1>8. RecoveryNeverFirst'
    <2> SUFFICES ASSUME "FAILED_SUPPORT_RECOVERY" \in reasons
                 PROVE  "SUPPORT_BREAK" \in reasons
      BY <1>0 DEF RecoveryNeverFirst, Carried
    <2>1. CASE signal.stage = "INVALID" /\ "FAILED_SUPPORT_RECOVERY" \in signal.reasons
      <3>1. "SUPPORT_BREAK" \in signal.reasons
        BY <2>1 DEF IInv, RecoveryNeverFirst
      <3> QED BY <2>1, <3>1, ReasonsMean DEF reasons
    <2>2. CASE /\ Len(tape) > 0
               /\ signal.support.eligible <= tape[Len(tape)].date
               /\ tape[Len(tape)].close < signal.support.price - BreakGap
      <3>1. tape # <<>> /\ tape[Len(tape)].date = day
        BY <2>2 DEF IInv, Dated
      <3>2. signal.support.frozen < day /\ signal.support # None
        BY <1>1, <1>2, <2>2, <3>1 DEF FrozenBy, Levels, FloorFrozen
      <3>3. "SUPPORT_BREAK" \in signal.reasons
        BY <2>2, <3>1, <3>2 DEF IInv, BreakRecorded
      <3>4. signal.stage = "INVALID"
        BY <3>3 DEF IInv, Staged
      <3> QED BY <3>3, <3>4, ReasonsMean DEF reasons
    <2> QED BY <2>1, <2>2, ReasonsMean DEF reasons
  <1>9. EntryAboveInvalid'
    BY <1>0 DEF EntryAboveInvalid, Carried
  <1> QED BY <1>1, <1>5, <1>6, <1>7, <1>8, <1>9

\* An unbroken day that carries an actionable floor keeps what is said of the
\* floor, whatever becomes of the trigger.
LEMMA UnbrokenKeeps ==
    ASSUME IInv, NEW b \in Bars, NEW k \in {"quiet", "anchor", "board"},
           Observe(b, k), Unbroken(b), signal.stage \in Actionable,
           NEW stage \in B2Stages, NEW trigger, NEW events, Due(b, events),
           Carried(b, stage, trigger, {}, events)
    PROVE  EventsDue' /\ BreakRecorded' /\ RecoveryNeverFirst' /\ EntryAboveInvalid'
  <1>1. FloorFrozen /\ TriggerFrozen
    BY FloorOf
  <1>2. /\ b.close > signal.invalid.price
        /\ ~(b.close < signal.support.price - BreakGap)
    <2>1. signal.support.price \in Int /\ BreakGap \in Int /\ b.close \in Int
      BY <1>1, FloorTypes, BarTypes, GapAssumption DEF Levels, IInv
    <2> QED BY <2>1, UnbrokenMeans, ObservedState
  <1>3. EventsDue'
    BY <1>1, ObservedState, EventsKept
  <1>4. BreakRecorded'
    BY <1>2, ObservedState DEF BreakRecorded, Carried
  <1>5. RecoveryNeverFirst'
    BY DEF RecoveryNeverFirst, Carried
  <1>6. EntryAboveInvalid'
    BY <1>2, ObservedState DEF EntryAboveInvalid, Carried
  <1> QED BY <1>3, <1>4, <1>5, <1>6

\* A trigger that is carried on: confirmed today, or held.
LEMMA ArmedKeeps ==
    ASSUME IInv, NEW b \in Bars, NEW k \in {"quiet", "anchor", "board"},
           Observe(b, k), Continued(b, k), Confirming(b) \/ Waiting(b)
    PROVE  /\ Staged' /\ EventsDue' /\ BreakRecorded' /\ RecoveryNeverFirst'
           /\ EntryAboveInvalid'
           /\ FloorFrozen /\ signal.trigger # None /\ signal.stage \in B2Stages
  <1>1. signal.trigger # None /\ Unbroken(b)
    BY DEF Confirming, Waiting, B2Mandatory, Eligible
  <1>2. FloorFrozen /\ TriggerFrozen /\ signal.stage \in B2Stages
    <2>1. FloorFrozen /\ TriggerFrozen /\ signal.stage \in Actionable \cup {"INVALID"}
      BY <1>1, FloorOf
    <2>2. signal.stage # "INVALID" /\ signal.stage # "B1_READY"
      BY <1>1, UnbrokenMeans, ObservedState DEF IInv, Staged
    <2> QED BY <2>1, <2>2
  <1>3. PICK stage \in B2Stages, events \in SUBSET Events :
          /\ Due(b, events)
          /\ Carried(b, stage, signal.trigger, {}, events)
          /\ stage = "B2_CONFIRMED" => B2Mandatory(signal, b.date, b)
    BY DEF Confirming, Waiting
  <1>4. EventsDue' /\ BreakRecorded' /\ RecoveryNeverFirst' /\ EntryAboveInvalid'
    BY <1>1, <1>2, <1>3, UnbrokenKeeps
  <1>5. FloorFrozen' /\ TriggerFrozen' /\ signal'.support.frozen < day'
    BY <1>2, <1>3, ObservedState, FloorCarried DEF IInv
  <1>6. stage = "B2_CONFIRMED" => signal.trigger.frozen < b.date
    <2>1. signal.trigger \in Levels /\ FrozenBy(signal.trigger, day)
      BY <1>1, <1>2, FloorTypes DEF IInv, TriggerFrozen
    <2> QED BY <1>3, <2>1, EligibleIsOlder, ObservedState DEF B2Mandatory
  <1>7. Staged'
    BY <1>1, <1>3, <1>5, <1>6, ObservedState DEF Staged, Carried, Continued
  <1> QED BY <1>1, <1>2, <1>4, <1>7

\* The first B2 day tops the high of the B1 day before it.
LEMMA TriggeringKeeps ==
    ASSUME IInv, NEW b \in Bars, NEW k \in {"quiet", "anchor", "board"},
           Observe(b, k), Continued(b, k), Triggering(b)
    PROVE  /\ Staged' /\ EventsDue' /\ BreakRecorded' /\ RecoveryNeverFirst'
           /\ EntryAboveInvalid' /\ FloorFrozen /\ signal'.trigger \in Levels
  <1> PICK top \in {tape'[i].high : i \in DOMAIN tape'}, events \in SUBSET Events :
        /\ \A i \in DOMAIN tape' : tape'[i].high <= top
        /\ Due(b, events)
        /\ Carried(b, "B2_READY", Freeze(top + TriggerGap, b.date), {}, events)
    BY DEF Triggering
  <1> DEFINE fresh == Freeze(top + TriggerGap, b.date)
  <1>1. signal.stage = "B1_READY" /\ Unbroken(b)
    BY DEF Triggering
  <1>2. FloorFrozen /\ TriggerFrozen
    BY <1>1, FloorOf
  <1>3. top \in Prices
    <2>1. PICK i \in DOMAIN tape' : top = tape'[i].high
      OBVIOUS
    <2>2. tape'[i] \in Bars
      BY ObservedState
    <2> QED BY <2>1, <2>2, BarTypes
  <1>4. fresh \in Levels /\ fresh # None /\ fresh.frozen = b.date
        /\ fresh.eligible = b.date + 1 /\ fresh.price = top + TriggerGap
    BY <1>3, BarTypes, GapAssumption, NoneAssumption DEF Freeze, Levels
  <1>5. EventsDue' /\ BreakRecorded' /\ RecoveryNeverFirst' /\ EntryAboveInvalid'
    BY <1>1, UnbrokenKeeps
  <1>6. FloorFrozen' /\ signal'.support.frozen < day'
    BY <1>2, ObservedState, FloorCarried DEF IInv
  <1>7. PlatformDays > 1 => signal.expected <= top + TriggerGap
    <2> SUFFICES ASSUME PlatformDays > 1 PROVE signal.expected <= top + TriggerGap
      OBVIOUS
    <2>1. tape # <<>> /\ signal.expected = tape[Len(tape)].high + TriggerGap
      BY <1>1 DEF IInv, Staged
    <2>2. PICK i \in DOMAIN tape' : tape'[i] = tape[Len(tape)]
      BY <2>1, WindowPrevious DEF IInv, Observe
    <2>3. tape[Len(tape)].high <= top
      BY <2>2
    <2>4. tape[Len(tape)].high \in Int
      <3>1. tape'[i] \in Bars
        BY ObservedState
      <3> QED BY <2>2, <3>1, BarTypes
    <2> QED BY <1>3, <2>1, <2>3, <2>4, GapAssumption
  <1> HIDE DEF fresh
  <1>8. Carried(b, "B2_READY", fresh, {}, events)
    BY DEF fresh
  <1>9. TriggerFrozen'
    BY <1>4, <1>6, <1>7, <1>8, ObservedState DEF TriggerFrozen, FrozenBy, Carried
  <1>10. Staged'
    BY <1>4, <1>6, <1>8, <1>9, ObservedState DEF Staged, Carried, Continued
  <1> QED BY <1>2, <1>4, <1>5, <1>8, <1>10 DEF Carried

\* The first B1 day freezes a floor below its close.
LEMMA SealingKeeps ==
    ASSUME IInv, NEW b \in Bars, NEW k \in {"quiet", "anchor", "board"},
           Observe(b, k), Continued(b, k), Sealing(b)
    PROVE  /\ Staged' /\ EventsDue' /\ BreakRecorded' /\ RecoveryNeverFirst'
           /\ EntryAboveInvalid' /\ FloorFrozen' /\ signal'.trigger = None
  <1> PICK low \in Supports(b), target \in Maybe(Targets(b)) :
        signal' = Emit(b.date, signal.setup, b, "B1_READY",
                       FrozenLevels(b.date, b, low, target), None, {}, {})
    BY DEF Sealing
  <1>1. /\ signal'.date = b.date /\ signal'.setup = signal.setup
        /\ signal'.stage = "B1_READY"
        /\ signal'.support = Freeze(low, b.date)
        /\ signal'.invalid = Freeze(low - InvalidGap, b.date)
        /\ signal'.s1 = IF target = None THEN None ELSE Freeze(target, b.date)
        /\ signal'.expected = b.high + TriggerGap
        /\ signal'.trigger = None /\ signal'.reasons = {} /\ signal'.events = {}
    BY DEF Emit, FrozenLevels
  <1>2. signal'.room # "NA"
    <2>1. \A s1 : EntryRoom("B1_READY", b, None, s1) # "NA"
      BY DEF EntryRoom
    <2> QED BY <2>1 DEF Emit
  <1>3. /\ low \in Int /\ b.close \in Int /\ b.high \in Int /\ b.date \in Nat
        /\ low <= b.close + AboveGap
        /\ InvalidGap \in Nat /\ AboveGap \in Nat /\ AboveGap < InvalidGap
        /\ TriggerGap \in Nat /\ BreakGap \in Nat
    BY BarTypes, GapAssumption DEF Supports
  <1>4. target # None => target \in Int /\ target > b.high + TriggerGap
    BY DEF Targets
  <1>5. \A p \in Int : /\ Freeze(p, b.date) # None
                       /\ Freeze(p, b.date).price = p
                       /\ Freeze(p, b.date).frozen = b.date
                       /\ Freeze(p, b.date).eligible = b.date + 1
    BY <1>3, NoneAssumption DEF Freeze, Levels
  <1>6. day' = b.date /\ signal.setup < b.date /\ signal.setup # None
        /\ tape' # <<>> /\ tape'[Len(tape')] = b
    BY ObservedState DEF Continued
  <1>7. FloorFrozen'
    <2>1. /\ signal'.support # None /\ signal'.support.frozen = b.date
          /\ signal'.support.eligible = b.date + 1
          /\ signal'.invalid # None /\ signal'.invalid.frozen = b.date
          /\ signal'.invalid.eligible = b.date + 1
      BY <1>1, <1>3, <1>5
    <2>2. signal'.s1 # None =>
            /\ signal'.s1.frozen = b.date /\ signal'.s1.eligible = b.date + 1
            /\ signal'.s1.price > signal'.expected
      BY <1>1, <1>4, <1>5
    <2>3. signal'.expected # None
      BY <1>1, <1>3, NoneAssumption
    <2> QED BY <1>1, <1>3, <1>6, <2>1, <2>2, <2>3 DEF FloorFrozen, FrozenBy
  <1>8. TriggerFrozen'
    BY <1>1 DEF TriggerFrozen
  <1>9. Staged'
    BY <1>1, <1>2, <1>3, <1>5, <1>6, <1>7, <1>8 DEF Staged
  <1>10. EventsDue' /\ RecoveryNeverFirst'
    BY <1>1 DEF EventsDue, RecoveryNeverFirst
  <1>11. BreakRecorded'
    BY <1>1, <1>3, <1>5, <1>6 DEF BreakRecorded
  <1>12. EntryAboveInvalid'
    <2>1. signal'.invalid.price = low - InvalidGap
      BY <1>1, <1>3, <1>5
    <2> QED BY <1>3, <1>6, <2>1 DEF EntryAboveInvalid
  <1> QED BY <1>1, <1>7, <1>9, <1>10, <1>11, <1>12

\* Every step keeps the invariant.
LEMMA Inductive == IInv /\ [Next]_vars => IInv'
  <1> SUFFICES ASSUME IInv, [Next]_vars PROVE IInv'
    OBVIOUS
  <1>1. CASE UNCHANGED vars
    BY <1>1 DEF vars, IInv, TypeOK, Dated, Staged, FloorFrozen, TriggerFrozen, Bare,
                EventsDue, BreakRecorded, RecoveryNeverFirst, EntryAboveInvalid
  <1>2. CASE Next
    <2> PICK b \in Bars, k \in {"quiet", "anchor", "board"} : Evaluate(b, k)
      BY <1>2 DEF Next
    <2>1. Observe(b, k) /\ (Lost(b) \/ Opening(b) \/ Continued(b, k))
      BY DayCases
    <2>2. TypeOK' /\ Dated'
      BY <2>1, TypeKept, DatedKept
    <2>3. CASE Lost(b)
      <3>1. signal' = Plain(b.date, None, "NORMAL")
        BY <2>3 DEF Lost, Normal, Plain
      <3> QED BY <2>1, <2>2, <3>1, ObservedState, BareKept DEF IInv
    <2>4. CASE Opening(b)
      BY <2>1, <2>2, <2>4, ObservedState, BarTypes, BareKept DEF IInv, Opening
    <2>5. CASE Continued(b, k)
      <3>1. Dying(b) \/ Confirming(b) \/ Waiting(b)
              \/ Triggering(b) \/ Sealing(b) \/ Watching(b)
        BY <2>1, <2>5, ContinuedCases
      <3>2. CASE Watching(b)
        BY <2>1, <2>2, <2>5, <3>2, ObservedState, BareKept
        DEF IInv, Watching, Continued
      <3> QED BY <2>1, <2>2, <2>5, <3>1, <3>2, DyingKeeps, ArmedKeeps,
                 TriggeringKeeps, SealingKeeps DEF IInv
    <2> QED BY <2>1, <2>3, <2>4, <2>5
  <1> QED BY <1>1, <1>2
\* In every reachable state the invariant holds.
LEMMA Invariance == Spec => []IInv
  <1>1. Init => IInv
    BY Initial
  <1>2. IInv /\ [Next]_vars => IInv'
    BY Inductive
  <1> QED BY <1>1, <1>2, PTL DEF Spec
----------------------------------------------------------------------------
(* The properties *)

\* The state of an evaluation always has the types of StrategySignal.
THEOREM TypeCorrect == Spec => []TypeOK
  <1>1. IInv => TypeOK
    BY DEF IInv
  <1> QED BY <1>1, Invariance, PTL

\* Whatever the days bring, validate_signal_invariants accepts the signal that
\* evaluate_strategy builds of them: no code is lost to its own validator.
THEOREM AlwaysAccepted == Spec => []SignalAccepted
  <1>1. IInv => SignalAccepted
    <2> SUFFICES ASSUME IInv PROVE Accepts(signal)
      BY DEF SignalAccepted
    <2>0. signal.date = day /\ day \in Nat
      BY BoundsAssumption DEF IInv, Dated, TypeOK
    <2>1. CASE signal.stage \notin Actionable \cup {"INVALID"}
      <3>1. Bare
        BY <2>1 DEF IInv, Staged
      <3> QED BY <2>1, <3>1 DEF Bare, Plain, Accepts
    <2>2. CASE signal.stage \in Actionable \cup {"INVALID"}
      <3>1. FloorFrozen /\ TriggerFrozen
        BY <2>2, FloorOf
      <3>2. /\ signal.support \in Levels /\ signal.invalid \in Levels
            /\ signal.s1 # None => signal.s1 \in Levels
            /\ signal.trigger # None => signal.trigger \in Levels
        BY <3>1, FloorTypes DEF IInv
      <3>3. \A l \in {signal.support, signal.invalid, signal.s1, signal.trigger}
                       \ {None} :
              /\ l \in Levels /\ FrozenBy(l, day)
              /\ l.frozen <= day /\ l.frozen < l.eligible
        BY <2>0, <3>1, <3>2 DEF FloorFrozen, TriggerFrozen, FrozenBy, Levels
      <3>4. /\ "SUPPORT_WARNING" \in signal.events => Eligible(signal.support, day)
            /\ signal.events \ {"SUPPORT_WARNING"} # {} => Eligible(signal.s1, day)
            /\ signal.stage = "INVALID" =>
                 Eligible(signal.support, day) /\ Eligible(signal.invalid, day)
        BY <2>0, <3>1, <3>2, <3>3, EligibleIsOlder
        DEF IInv, EventsDue, Staged, FloorFrozen
      <3>5. signal.stage = "B2_CONFIRMED" =>
              signal.trigger.frozen < day /\ signal.trigger.eligible <= day
        BY <2>0, <3>2, <3>3 DEF IInv, Staged, FrozenBy, Levels
      <3>6. /\ signal.stage \in Actionable <=> signal.room # "NA"
            /\ signal.stage \in Actionable => signal.setup # None
            /\ signal.stage \in B2Stages => signal.trigger # None
            /\ signal.stage = "INVALID" <=> signal.reasons # {}
        BY DEF IInv, Staged
      <3>7. signal.s1 # None => signal.s1.price > signal.expected
        BY <3>1 DEF FloorFrozen
      <3>8. signal.support # None /\ signal.invalid # None
        BY <3>1 DEF FloorFrozen
      <3> HIDE DEF Actionable, B2Stages
      <3>9. signal.stage # "LIMIT_ANCHOR"
        BY <2>2 DEF Actionable
      <3> QED BY <2>0, <3>3, <3>4, <3>5, <3>6, <3>7, <3>8, <3>9 DEF Accepts
    <2> QED BY <2>1, <2>2
  <1> QED BY <1>1, Invariance, PTL

\* The anchor, the support and the trigger are of three days in this order,
\* and the trigger covers the one expected when the support was frozen.
THEOREM FreezingOrder == Spec => []FrozenInOrder
  <1>1. IInv => FrozenInOrder
    BY FloorOf DEF FrozenInOrder, FloorFrozen, TriggerFrozen
  <1> QED BY <1>1, Invariance, PTL

\* A signal offered for entry is of a day that closed above its invalid price.
THEOREM EntriesAreValid == Spec => []EntryAboveInvalid
  <1>1. IInv => EntryAboveInvalid
    BY DEF IInv
  <1> QED BY <1>1, Invariance, PTL

\* The reason FAILED_SUPPORT_RECOVERY never stands without SUPPORT_BREAK.
THEOREM RecoveryIsNeverFirst == Spec => []RecoveryNeverFirst
  <1>1. IInv => RecoveryNeverFirst
    BY DEF IInv
  <1> QED BY <1>1, Invariance, PTL

\* A confirmation and an invalidation are due to levels of an earlier day.
THEOREM YesterdayDecides == Spec => YesterdaysLevels
  <1>1. IInv /\ [Next]_vars =>
          [/\ signal'.stage = "B2_CONFIRMED" =>
                signal.trigger # None /\ signal'.trigger = signal.trigger
           /\ signal'.stage = "INVALID" =>
                signal.support # None /\ signal'.support = signal.support]_vars
    <2> SUFFICES ASSUME IInv, Next
                 PROVE  /\ signal'.stage = "B2_CONFIRMED" =>
                             signal.trigger # None /\ signal'.trigger = signal.trigger
                        /\ signal'.stage = "INVALID" =>
                             /\ signal.support # None
                             /\ signal'.support = signal.support
      OBVIOUS
    <2> PICK b \in Bars, k \in {"quiet", "anchor", "board"} : Evaluate(b, k)
      BY DEF Next
    <2>1. Observe(b, k) /\ (Lost(b) \/ Opening(b) \/ Continued(b, k))
      BY DayCases
    <2>2. CASE Lost(b) \/ Opening(b)
      BY <2>2 DEF Lost, Opening, Normal, Plain
    <2>3. CASE Continued(b, k)
      <3>1. CASE Dying(b)
        <4>1. FloorFrozen
          BY <2>1, <2>3, <3>1, DyingKeeps
        <4> QED BY <3>1, <4>1 DEF Dying, Carried, FloorFrozen
      <3>2. CASE Confirming(b) \/ Waiting(b)
        <4>1. signal.trigger # None
          BY <2>1, <2>3, <3>2, ArmedKeeps
        <4> QED BY <3>2, <4>1 DEF Confirming, Waiting, Carried
      <3>3. CASE Triggering(b) \/ Sealing(b) \/ Watching(b)
        BY <3>3 DEF Triggering, Sealing, Watching, Carried, Emit, Plain
      <3> QED BY <2>1, <2>3, <3>1, <3>2, <3>3, ContinuedCases
    <2> QED BY <2>1, <2>2, <2>3
  <1> QED BY <1>1, Invariance, PTL DEF Spec, YesterdaysLevels

\* While a setup is the setup, the reasons that ended it are not withdrawn.
THEOREM ReasonsStand == Spec => ReasonsOnlyGrow
  <1>1. IInv /\ [Next]_vars =>
          [signal'.setup = signal.setup => signal.reasons \subseteq signal'.reasons]_vars
    <2> SUFFICES ASSUME IInv, Next, signal'.setup = signal.setup
                 PROVE  signal.reasons \subseteq signal'.reasons
      OBVIOUS
    <2> PICK b \in Bars, k \in {"quiet", "anchor", "board"} : Evaluate(b, k)
      BY DEF Next
    <2>1. Observe(b, k) /\ (Lost(b) \/ Opening(b) \/ Continued(b, k))
      BY DayCases
    <2>2. signal.stage # "INVALID" => signal.reasons = {}
      BY DEF IInv, Staged
    <2>3. CASE Lost(b)
      <3>1. signal.setup = None
        BY <2>3 DEF Lost, Normal
      <3> QED BY <2>2, <3>1 DEF IInv, Staged
    <2>4. CASE Opening(b)
      <3>1. signal.setup # b.date
        BY <2>1, ObservedState, BarTypes DEF IInv, Dated, DetectAnchor, TypeOK
      <3> QED BY <2>4, <3>1 DEF Opening, Plain
    <2>5. CASE Continued(b, k)
      <3>1. CASE Dying(b)
        <4>1. PICK structure \in BOOLEAN :
                signal'.reasons = InvalidationReasons(signal, b.date, b, structure)
          BY <3>1 DEF Dying, Carried
        <4>2. signal.stage = "INVALID" => signal.reasons \subseteq signal'.reasons
          BY <4>1, ReasonsMean
        <4> QED BY <2>2, <4>2
      <3>2. ~Dying(b) => Unbroken(b)
        BY <2>1, <2>5, ContinuedCases
        DEF Confirming, Waiting, Triggering, Sealing, Watching
      <3> QED BY <2>1, <2>2, <3>1, <3>2, ObservedState, UnbrokenMeans
    <2> QED BY <2>1, <2>3, <2>4, <2>5
  <1> QED BY <1>1, Invariance, PTL DEF Spec, ReasonsOnlyGrow
----------------------------------------------------------------------------
(* The days implement the lifecycle *)

\* What a signal of no setup and of an opened one is to the lifecycle.
LEMMA PhaseMeans ==
    /\ PhaseOf["NORMAL"] = "idle" /\ PhaseOf["LIMIT_ANCHOR"] = "watch"
    /\ PhaseOf["WATCH_PULLBACK"] = "watch" /\ PhaseOf["B1_READY"] = "b1"
    /\ PhaseOf["B2_READY"] = "b2" /\ PhaseOf["B2_CONFIRMED"] = "confirmed"
    /\ PhaseOf["INVALID"] = "dead"
  BY DEF PhaseOf

MappedFloor == IF signal.support = None THEN None ELSE Kept(signal)

\* A lost anchor is the lifecycle going idle, a new one the opening of a setup.
LEMMA OutsideMapped ==
    ASSUME IInv, NEW b \in Bars, NEW k \in {"quiet", "anchor", "board"},
           Observe(b, k), Lost(b) \/ Opening(b)
    PROVE  Lifecycle!LCIdle \/ Lifecycle!LCOpen
  <1>1. limitup'.date >= limitup.date /\ limitup.date \in Int /\ limitup.date <= day
        /\ day < b.date /\ b.date \in Days /\ day \in Nat /\ b.date \in Nat
    <2>1. limitup'.date = limitup.date \/ limitup'.date = b.date
      BY DEF Observe, Limit, IInv, TypeOK
    <2> QED BY <2>1, ObservedState, BarTypes, BoundsAssumption DEF IInv, TypeOK, Dated
  <1>2. CASE Lost(b)
    <2>1. signal'.setup = None /\ signal'.support = None /\ signal'.trigger = None
          /\ signal'.stage = "NORMAL"
      BY <1>2 DEF Lost, Normal
    <2> QED BY <1>1, <2>1, PhaseMeans DEF Lifecycle!LCIdle
  <1>3. CASE Opening(b)
    <2>1. /\ signal'.setup = b.date /\ signal'.support = None /\ signal'.trigger = None
          /\ signal'.stage = "LIMIT_ANCHOR" /\ limitup'.date = b.date
      BY <1>3 DEF Opening, Plain
    <2> QED BY <1>1, <2>1, PhaseMeans DEF Lifecycle!LCOpen
  <1> QED BY <1>2, <1>3

\* A day that continues a setup is one step of its life, or none.
LEMMA ContinuedMapped ==
    ASSUME IInv, NEW b \in Bars, NEW k \in {"quiet", "anchor", "board"},
           Evaluate(b, k), Observe(b, k), Continued(b, k)
    PROVE  [Lifecycle!LCNext]_(Lifecycle!lcVars)
  <1>1. limitup'.date = limitup.date
    BY DEF Continued, IInv, TypeOK
  <1>2. ASSUME NEW stage \in Actionable \cup {"INVALID"}, NEW trigger, NEW reasons,
               NEW events, Carried(b, stage, trigger, reasons, events)
        PROVE  MappedFloor' = MappedFloor /\ signal'.setup = signal.setup
                 /\ signal'.trigger = trigger /\ signal'.stage = stage
    BY <1>2 DEF Carried, MappedFloor, Kept
  <1>3. CASE Dying(b)
    <2>1. FloorFrozen /\ signal.stage \in Actionable \cup {"INVALID"}
      BY <1>3, DyingKeeps, FloorOf DEF FloorFrozen
    <2>2. MappedFloor' = MappedFloor /\ signal'.setup = signal.setup
            /\ signal'.trigger = signal.trigger /\ signal'.stage = "INVALID"
      BY <1>2, <1>3 DEF Dying
    <2>3. Lifecycle!LCKill
      BY <1>1, <2>1, <2>2, PhaseMeans DEF Lifecycle!LCKill, MappedFloor
    <2> QED BY <2>3 DEF Lifecycle!LCNext
  <1>4. CASE Confirming(b)
    <2>1. signal.stage \in B2Stages
      BY <1>4, ArmedKeeps
    <2>2. MappedFloor' = MappedFloor /\ signal'.setup = signal.setup
            /\ signal'.trigger = signal.trigger /\ signal'.stage = "B2_CONFIRMED"
      BY <1>2, <1>4 DEF Confirming
    <2>3. Lifecycle!LCConfirm
      BY <1>1, <2>1, <2>2, PhaseMeans DEF Lifecycle!LCConfirm, MappedFloor
    <2> QED BY <2>3 DEF Lifecycle!LCNext
  <1>5. CASE Waiting(b)
    <2>1. signal.stage \in B2Stages
      BY <1>5, ArmedKeeps
    <2>2. MappedFloor' = MappedFloor /\ signal'.setup = signal.setup
            /\ signal'.trigger = signal.trigger /\ signal'.stage = "B2_READY"
      BY <1>2, <1>5 DEF Waiting
    <2>3. CASE signal.stage = "B2_CONFIRMED"
      <3>1. Lifecycle!LCLapse
        BY <1>1, <2>2, <2>3, PhaseMeans DEF Lifecycle!LCLapse, MappedFloor
      <3> QED BY <3>1 DEF Lifecycle!LCNext
    <2>4. CASE signal.stage = "B2_READY"
      BY <1>1, <2>2, <2>4 DEF Lifecycle!lcVars, MappedFloor
    <2> QED BY <2>1, <2>3, <2>4
  <1>6. CASE Triggering(b)
    <2>1. FloorFrozen /\ signal'.trigger \in Levels /\ signal.stage = "B1_READY"
      BY <1>6, TriggeringKeeps DEF Triggering
    <2>2. MappedFloor' = MappedFloor /\ signal'.setup = signal.setup
            /\ signal'.stage = "B2_READY"
      BY <1>2, <1>6 DEF Triggering
    <2>3. Lifecycle!LCArm
      BY <1>1, <2>1, <2>2, PhaseMeans DEF Lifecycle!LCArm, MappedFloor
    <2> QED BY <2>3 DEF Lifecycle!LCNext
  <1>7. CASE Sealing(b)
    <2>1. Before /\ Bare
      BY <1>7 DEF Sealing, Before, IInv, Staged
    <2>2. signal'.setup = signal.setup /\ signal'.stage = "B1_READY"
      BY <1>7 DEF Sealing, Emit
    <2>3. FloorFrozen' /\ signal'.trigger = None /\ TypeOK'
      BY <1>7, SealingKeeps, TypeKept
    <2>4. Kept(signal)' \in [support : Levels, invalid : Levels, s1 : Maybe(Levels),
                             expected : Int]
      BY <2>3 DEF FloorFrozen, TypeOK, Signals, Kept
    <2>5. Lifecycle!LCSeal
      BY <1>1, <2>1, <2>2, <2>3, <2>4, PhaseMeans
      DEF Lifecycle!LCSeal, Before, Bare, Plain, FloorFrozen
    <2> QED BY <2>5 DEF Lifecycle!LCNext
  <1>8. CASE Watching(b)
    <2>1. Before /\ Bare
      BY <1>8 DEF Watching, Before, IInv, Staged
    <2> QED BY <1>1, <1>8, <2>1, PhaseMeans
        DEF Watching, Before, Bare, Plain, Lifecycle!lcVars
  <1> QED BY <1>3, <1>4, <1>5, <1>6, <1>7, <1>8, ContinuedCases

\* The signals of any sequence of days are a life of setups: each opened once
\* by a later limit-up, its floor and its trigger sealed once and in order.
THEOREM LifecycleImplemented == Spec => RefinesLifecycle
  <1>1. Init => Lifecycle!LCInit
    BY PhaseMeans DEF Init, Normal, Lifecycle!LCInit
  <1>2. IInv /\ [Next]_vars => [Lifecycle!LCNext]_(Lifecycle!lcVars)
    <2> SUFFICES ASSUME IInv, [Next]_vars
                 PROVE  [Lifecycle!LCNext]_(Lifecycle!lcVars)
      OBVIOUS
    <2>1. CASE UNCHANGED vars
      BY <2>1 DEF vars, Lifecycle!lcVars, Kept
    <2>2. CASE Next
      <3> PICK b \in Bars, k \in {"quiet", "anchor", "board"} : Evaluate(b, k)
        BY <2>2 DEF Next
      <3>1. Observe(b, k) /\ (Lost(b) \/ Opening(b) \/ Continued(b, k))
        BY DayCases
      <3>2. CASE Lost(b) \/ Opening(b)
        BY <3>1, <3>2, OutsideMapped DEF Lifecycle!LCNext
      <3> QED BY <3>1, <3>2, ContinuedMapped
    <2> QED BY <2>1, <2>2
  <1> QED BY <1>1, <1>2, Invariance, PTL DEF Spec, RefinesLifecycle, Lifecycle!LCSpec

-----------------------------------------------------------------------------
(* The replay.  What a timeline is whatever it was made of, and how it     *)
(* hangs together with the engine that makes it.                           *)

Entries == [date : Days, setup : Maybe(Nat), stage : Stages]

\* Days in order, their setups in order too, each one there on its anchor day.
Story(t) ==
    /\ t \in Seq(Entries)
    /\ \A i, j \in 1..Len(t) : i < j =>
         /\ t[i].date < t[j].date
         /\ t[i].setup # None /\ t[j].setup # None => t[i].setup <= t[j].setup
    /\ \A i \in 1..Len(t) : t[i].setup # None =>
         /\ t[i].setup <= t[i].date
         /\ \E j \in 1..Len(t) : t[j].setup = t[i].setup /\ t[j].date = t[i].setup

\* The last day is the signal's, and no setup is of a later limit-up than the
\* latest, nor of one that anchors nothing.
Current ==
    /\ timeline = <<>> => signal.setup = None
    /\ timeline # <<>> =>
         /\ timeline[Len(timeline)].setup = signal.setup
         /\ timeline[Len(timeline)].date = day
    /\ \A i \in 1..Len(timeline) :
         /\ timeline[i].date <= day
         /\ timeline[i].setup # None => timeline[i].setup <= limitup.date
         /\ timeline[i].setup = limitup.date => limitup.kind = "anchor"

RInv == IInv /\ Story(timeline) /\ Current

\* The setup of a day is the one of the latest limit-up, new on that day or the
\* one of the day before.
LEMMA SetupMoves ==
    ASSUME IInv, NEW b \in Bars, NEW k \in {"quiet", "anchor", "board"},
           Evaluate(b, k)
    PROVE  /\ IInv' /\ day < b.date /\ day' = b.date
           /\ day \in Nat /\ limitup.date \in Nat /\ limitup'.date \in Nat
           /\ limitup.date <= day
           /\ \/ limitup'.date = b.date
              \/ limitup'.date = limitup.date /\ limitup'.kind = limitup.kind
           /\ signal'.setup # None =>
                /\ signal'.setup = limitup'.date /\ limitup'.kind = "anchor"
                /\ signal'.setup # b.date =>
                     signal'.setup = signal.setup /\ limitup'.date = limitup.date
           /\ signal'.setup \in Maybe(Nat) /\ signal'.stage \in Stages
  <1>1. Observe(b, k)
    BY DayCases
  <1>2. IInv'
    BY Inductive DEF Next
  <1>3. /\ day < b.date /\ day' = b.date /\ day \in Nat /\ limitup.date \in Nat
        /\ limitup'.date \in Nat /\ limitup.date <= day
    BY <1>1, ObservedState, BoundsAssumption DEF IInv, TypeOK, Dated
  <1>4. limitup' = Limit(b.date, k)
    BY <1>1 DEF Observe
  <1>5. \/ limitup'.date = b.date
        \/ /\ limitup'.date = limitup.date /\ limitup'.kind = limitup.kind
           /\ limitup'.age = limitup.age + 1
    BY <1>4 DEF Limit, IInv, TypeOK
  <1>6. signal'.setup = DetectAnchor(limitup') /\ signal.setup = DetectAnchor(limitup)
    BY <1>2 DEF IInv, Dated
  <1>7. ASSUME signal'.setup # None
        PROVE  /\ signal'.setup = limitup'.date /\ limitup'.kind = "anchor"
               /\ signal'.setup # b.date =>
                    signal'.setup = signal.setup /\ limitup'.date = limitup.date
    <2>1. signal'.setup = limitup'.date /\ limitup'.kind = "anchor"
          /\ limitup'.age < Lookback
      BY <1>6, <1>7 DEF DetectAnchor
    <2>2. ASSUME signal'.setup # b.date
          PROVE  signal'.setup = signal.setup /\ limitup'.date = limitup.date
      <3>1. limitup.age < Lookback
        BY <1>5, <2>1, <2>2, WindowAssumption DEF IInv, TypeOK
      <3> QED
        BY <1>5, <1>6, <2>1, <2>2, <3>1 DEF DetectAnchor
    <2> QED
      BY <2>1, <2>2
  <1>8. signal'.setup \in Maybe(Nat) /\ signal'.stage \in Stages
    BY <1>2 DEF IInv, TypeOK, Signals
  <1> QED
    BY <1>2, <1>3, <1>5, <1>7, <1>8

\* A nonempty set of naturals has a least element.
LEMMA LeastExists ==
    ASSUME NEW T \in SUBSET Nat, T # {}
    PROVE  \E t \in T : \A u \in T : t <= u
  <1> DEFINE R == OpToRel(<, Nat)
  <1>1. IsWellFoundedOn(R, Nat)
    BY NatLessThanWellFounded
  <1>2. \A x, y \in Nat : x < y => <<x, y>> \in R
    BY DEF OpToRel
  <1> HIDE DEF R
  <1>3. PICK t \in T : \A u \in T : ~(<<u, t>> \in R)
    BY <1>1, WFMin
  <1>4. ASSUME NEW u \in T PROVE t <= u
    <2>1. t \in Nat /\ u \in Nat /\ ~(u < t)
      BY <1>2, <1>3
    <2> QED BY <2>1
  <1> QED BY <1>4

\* Min is that element, and the only one that none is below.
LEMMA MinIsLeast ==
    ASSUME NEW S \in SUBSET Nat, S # {}
    PROVE  /\ Min(S) \in S /\ \A x \in S : Min(S) <= x
           /\ \A m \in S : (\A x \in S : m <= x) => Min(S) = m
  <1>1. Min(S) \in S /\ \A x \in S : Min(S) <= x
    BY LeastExists DEF Min
  <1>2. ASSUME NEW m \in S, \A x \in S : m <= x PROVE Min(S) = m
    <2>1. m <= Min(S) /\ Min(S) <= m /\ m \in Nat /\ Min(S) \in Nat
      BY <1>1, <1>2
    <2> QED BY <2>1
  <1> QED BY <1>1, <1>2

\* Max is the last element of a set of days.
LEMMA MaxIsLast ==
    ASSUME NEW S \in SUBSET Days, S # {}
    PROVE  Max(S) \in S /\ \A x \in S : x <= Max(S)
  <1> DEFINE T == {MaxDay - x : x \in S}
  <1>1. T \in SUBSET Nat /\ T # {}
    <2>1. \A x \in S : x \in 1..MaxDay
      BY DEF Days
    <2>2. \A x \in 1..MaxDay : MaxDay - x \in Nat
      BY BoundsAssumption
    <2> QED BY <2>1, <2>2
  <1>2. PICK t \in T : \A u \in T : t <= u
    <2> HIDE DEF T
    <2> QED BY <1>1, LeastExists
  <1>3. PICK m \in S : t = MaxDay - m
    BY <1>2
  <1>4. ASSUME NEW x \in S PROVE m >= x
    <2>1. MaxDay - x \in T
      OBVIOUS
    <2>2. MaxDay - m <= MaxDay - x
      BY <1>2, <1>3, <2>1
    <2> QED BY <2>2, BoundsAssumption DEF Days
  <1>5. \E y \in S : \A x \in S : y >= x
    BY <1>4
  <1>6. Max(S) \in S /\ \A x \in S : Max(S) >= x
    BY <1>5 DEF Max
  <1> QED BY <1>6, BoundsAssumption DEF Days

StageDays(t, s, stage) ==
    {i.date : i \in {j \in Items(t) : j.setup = s /\ j.stage = stage}}

\* A story read by its items: a day is replayed once and setups come in order.
LEMMA ItemsOfStory ==
    ASSUME NEW t, Story(t)
    PROVE  /\ Items(t) \subseteq Entries
           /\ \A i, j \in Items(t) :
                /\ i.date = j.date => i = j
                /\ i.date < j.date /\ i.setup # None /\ j.setup # None
                     => i.setup <= j.setup
           /\ \A i \in Items(t) : i.setup # None =>
                /\ i.setup <= i.date
                /\ \E j \in Items(t) : j.setup = i.setup /\ j.date = i.setup
  <1>1. /\ t \in Seq(Entries) /\ DOMAIN t = 1..Len(t)
        /\ \A i \in 1..Len(t) : t[i] \in Entries /\ t[i].date \in Nat
    <2>1. Days \subseteq Nat
      BY BoundsAssumption DEF Days
    <2>2. t \in Seq(Entries)
      BY DEF Story
    <2>3. DOMAIN t = 1..Len(t) /\ \A i \in 1..Len(t) : t[i] \in Entries
      BY <2>2
    <2>4. \A e \in Entries : e.date \in Nat
      BY <2>1 DEF Entries
    <2> QED BY <2>2, <2>3, <2>4
  <1>2. Items(t) \subseteq Entries
    BY <1>1 DEF Items
  <1>3. ASSUME NEW i \in Items(t), NEW j \in Items(t)
        PROVE  /\ i.date = j.date => i = j
               /\ i.date < j.date /\ i.setup # None /\ j.setup # None
                    => i.setup <= j.setup
    <2>1. PICK x \in 1..Len(t) : i = t[x]
      BY <1>1 DEF Items
    <2>2. PICK y \in 1..Len(t) : j = t[y]
      BY <1>1 DEF Items
    <2>3. x < y \/ x = y \/ y < x
      OBVIOUS
    <2>4. x < y => i.date < j.date /\ (i.setup # None /\ j.setup # None => i.setup <= j.setup)
      BY <2>1, <2>2 DEF Story
    <2>5. y < x => j.date < i.date
      BY <2>1, <2>2 DEF Story
    <2>6. i.date \in Nat /\ j.date \in Nat
      BY <1>1, <2>1, <2>2
    <2> QED BY <2>1, <2>2, <2>3, <2>4, <2>5, <2>6
  <1>4. ASSUME NEW i \in Items(t), i.setup # None
        PROVE  /\ i.setup <= i.date
               /\ \E j \in Items(t) : j.setup = i.setup /\ j.date = i.setup
    <2>1. PICK x \in 1..Len(t) : i = t[x]
      BY <1>1 DEF Items
    <2>2. i.setup <= i.date
          /\ \E y \in 1..Len(t) : t[y].setup = i.setup /\ t[y].date = i.setup
      BY <1>4, <2>1 DEF Story
    <2> QED BY <1>1, <2>2 DEF Items
  <1> QED BY <1>2, <1>3, <1>4

\* A setup is named by the first of its days.
LEMMA OpensOnItsDay ==
    ASSUME NEW t, Story(t), NEW s \in Setups(t)
    PROVE  /\ s \in Nat /\ s # None
           /\ DatesOf(t, s) \subseteq Days /\ DatesOf(t, s) # {}
           /\ Min(DatesOf(t, s)) = s
  <1>1. PICK i \in Items(t) : i.setup = s /\ s # None
    BY DEF Setups
  <1>2. s \in Nat
    BY <1>1, ItemsOfStory DEF Entries
  <1>3. DatesOf(t, s) \subseteq Days
    BY ItemsOfStory DEF DatesOf, Entries
  <1>4. s \in DatesOf(t, s)
    BY <1>1, ItemsOfStory DEF DatesOf
  <1>5. \A x \in DatesOf(t, s) : s <= x
    BY <1>1, ItemsOfStory DEF DatesOf
  <1>6. DatesOf(t, s) \in SUBSET Nat
    BY <1>3, BoundsAssumption DEF Days
  <1>7. Min(DatesOf(t, s)) = s
    BY <1>4, <1>5, <1>6, MinIsLeast
  <1> QED BY <1>1, <1>2, <1>3, <1>4, <1>7

\* The setups that came after one are those of a later anchor.
LEMMA SuccessorsAreLater ==
    ASSUME NEW t, Story(t), NEW s \in Setups(t)
    PROVE  /\ Successors(t, s) = {r \in Setups(t) : r > s}
           /\ Successors(t, s) \in SUBSET Nat
  <1>1. \A r \in Setups(t) : Min(DatesOf(t, r)) = r /\ r \in Nat
    BY OpensOnItsDay
  <1> QED BY <1>1 DEF Successors

\* A setup has no day once another has come after it.
LEMMA NoReturn ==
    ASSUME NEW t, Story(t), NEW s \in Setups(t), NEW r \in Setups(t), s < r,
           NEW i \in Items(t), i.setup = s
    PROVE  i.date < r
  <1>1. /\ s \in Nat /\ r \in Nat /\ s # None /\ r # None /\ i.date \in Nat
    BY OpensOnItsDay, ItemsOfStory, BoundsAssumption DEF Entries, Days
  <1>2. PICK j \in Items(t) : j.setup = r /\ j.date = r
    BY ItemsOfStory DEF Setups
  <1>3. i.date # j.date
    BY <1>1, <1>2, ItemsOfStory
  <1>4. ~(j.date < i.date)
    BY <1>1, <1>2, ItemsOfStory
  <1> QED BY <1>1, <1>2, <1>3, <1>4

\* The first day of a stage of a setup, if it was ever at it.
LEMMA FirstOfStage ==
    ASSUME NEW t, Story(t), NEW s, NEW stage
    PROVE  /\ StageDays(t, s, stage) \in SUBSET Nat
           /\ FirstStage(t, s, stage) =
                IF StageDays(t, s, stage) = {} THEN None
                ELSE Min(StageDays(t, s, stage))
           /\ FirstStage(t, s, stage) = None <=> StageDays(t, s, stage) = {}
           /\ FirstStage(t, s, stage) # None =>
                \E i \in Items(t) : /\ i.setup = s /\ i.stage = stage
                                    /\ i.date = FirstStage(t, s, stage)
  <1>1. StageDays(t, s, stage) \in SUBSET Nat
    BY ItemsOfStory, BoundsAssumption DEF StageDays, Entries, Days
  <1>2. FirstStage(t, s, stage) =
          IF StageDays(t, s, stage) = {} THEN None ELSE Min(StageDays(t, s, stage))
    BY DEF FirstStage, MinOrNone, StageDays
  <1>3. StageDays(t, s, stage) # {} => Min(StageDays(t, s, stage)) \in StageDays(t, s, stage)
    BY <1>1, MinIsLeast
  <1>4. FirstStage(t, s, stage) = None <=> StageDays(t, s, stage) = {}
    BY <1>1, <1>2, <1>3, NoneAssumption
  <1>5. FirstStage(t, s, stage) # None =>
          \E i \in Items(t) : /\ i.setup = s /\ i.stage = stage
                              /\ i.date = FirstStage(t, s, stage)
    BY <1>2, <1>3 DEF StageDays
  <1> QED BY <1>1, <1>2, <1>4, <1>5

\* What a day adds to the timeline.
Added(b) == [date |-> b.date, setup |-> signal'.setup, stage |-> signal'.stage]

\* A replayed day joins the items, later than each of them.
LEMMA DayJoins ==
    ASSUME RInv, NEW b \in Bars, NEW k \in {"quiet", "anchor", "board"},
           ReplayDay(b, k)
    PROVE  /\ Added(b) \in Entries /\ timeline' = Append(timeline, Added(b))
           /\ Items(timeline') = Items(timeline) \cup {Added(b)}
           /\ \A i \in Items(timeline) :
                /\ i.date \in Nat /\ i.date <= day /\ i.date < b.date
                /\ i.setup # None => i.setup <= limitup.date
                /\ i.setup = limitup.date => limitup.kind = "anchor"
           /\ timeline # <<>> =>
                \E i \in Items(timeline) : i.date = day /\ i.setup = signal.setup
  <1>1. Evaluate(b, k) /\ timeline' = Append(timeline, Added(b))
    BY DEF ReplayDay, Added
  <1>2. Added(b) \in Entries
    BY <1>1, SetupMoves, BarTypes DEF RInv, Added, Entries
  <1>3. timeline \in Seq(Entries) /\ DOMAIN timeline = 1..Len(timeline)
        /\ Len(timeline) \in Nat
    BY DEF RInv, Story
  <1>4. Items(timeline') = Items(timeline) \cup {Added(b)}
    <2>1. /\ Len(timeline') = Len(timeline) + 1
          /\ DOMAIN timeline' = 1..(Len(timeline) + 1)
          /\ \A i \in 1..Len(timeline) : timeline'[i] = timeline[i]
          /\ timeline'[Len(timeline) + 1] = Added(b)
      BY <1>1, <1>2, <1>3
    <2>2. 1..(Len(timeline) + 1) = 1..Len(timeline) \cup {Len(timeline) + 1}
      BY <1>3
    <2> QED BY <1>3, <2>1, <2>2 DEF Items
  <1>5. ASSUME NEW i \in Items(timeline)
        PROVE  /\ i.date \in Nat /\ i.date <= day /\ i.date < b.date
               /\ i.setup # None => i.setup <= limitup.date
               /\ i.setup = limitup.date => limitup.kind = "anchor"
    <2>1. PICK x \in 1..Len(timeline) : i = timeline[x]
      BY <1>3 DEF Items
    <2>2. /\ i.date <= day
          /\ i.setup # None => i.setup <= limitup.date
          /\ i.setup = limitup.date => limitup.kind = "anchor"
      BY <2>1 DEF RInv, Current
    <2>3. i.date \in Nat
      BY ItemsOfStory, BoundsAssumption DEF RInv, Entries, Days
    <2> QED BY <1>1, <2>2, <2>3, SetupMoves, BarTypes DEF RInv
  <1>6. timeline # <<>> =>
          \E i \in Items(timeline) : i.date = day /\ i.setup = signal.setup
    <2>1. SUFFICES ASSUME timeline # <<>>
                   PROVE  timeline[Len(timeline)] \in Items(timeline)
      BY DEF RInv, Current
    <2> QED BY <1>3, <2>1 DEF Items
  <1> QED BY <1>1, <1>2, <1>4, <1>5, <1>6

\* The evaluated days keep making a story.
LEMMA StoryGoesOn ==
    ASSUME RInv, NEW b \in Bars, NEW k \in {"quiet", "anchor", "board"},
           ReplayDay(b, k)
    PROVE  RInv'
  <1> DEFINE n == Len(timeline)
             e == Added(b)
  <1>1. Evaluate(b, k)
    BY DEF ReplayDay
  <1>2. /\ timeline \in Seq(Entries) /\ timeline' \in Seq(Entries) /\ n \in Nat
        /\ Len(timeline') = n + 1 /\ e \in Entries
        /\ \A i \in 1..n : timeline'[i] = timeline[i] /\ timeline[i] \in Items(timeline)
        /\ timeline'[n + 1] = e
    <2>1. timeline \in Seq(Entries) /\ e \in Entries /\ timeline' = Append(timeline, e)
      BY DayJoins DEF RInv, Story
    <2> HIDE DEF e
    <2>2. \A i \in 1..n : timeline[i] \in Items(timeline)
      <3>1. DOMAIN timeline = 1..n
        BY <2>1
      <3> QED BY <3>1 DEF Items
    <2> QED BY <2>1, <2>2
  <1>3. \A i \in 1..(n + 1) : i \in 1..n \/ i = n + 1
    BY <1>2
  <1>4. e.date = b.date /\ e.setup = signal'.setup
    BY DEF Added
  <1>5. IInv /\ Story(timeline) /\ Current
    BY DEF RInv
  <1>6. \A i \in 1..n :
          /\ timeline[i].date <= day /\ timeline[i].date < b.date
          /\ timeline[i].setup # None => timeline[i].setup <= limitup.date
          /\ timeline[i].setup \in Maybe(Nat) /\ timeline[i].date \in Nat
    BY <1>2, DayJoins, ItemsOfStory, <1>5 DEF Entries
  <1> HIDE DEF n, e
  <1>7. limitup.date <= limitup'.date /\ limitup.date \in Nat /\ limitup'.date \in Nat
        /\ (e.setup # None => e.setup = limitup'.date /\ e.setup <= b.date)
        /\ b.date \in Nat /\ day \in Nat
    BY <1>1, <1>4, <1>5, SetupMoves, BarTypes
  <1>8. \A i, j \in 1..(n + 1) : i < j =>
          /\ timeline'[i].date < timeline'[j].date
          /\ timeline'[i].setup # None /\ timeline'[j].setup # None
               => timeline'[i].setup <= timeline'[j].setup
    <2> SUFFICES ASSUME NEW i \in 1..(n + 1), NEW j \in 1..(n + 1), i < j
                 PROVE  /\ timeline'[i].date < timeline'[j].date
                        /\ timeline'[i].setup # None /\ timeline'[j].setup # None
                             => timeline'[i].setup <= timeline'[j].setup
      OBVIOUS
    <2>1. i \in 1..n
      BY <1>2
    <2>2. CASE j \in 1..n
      BY <1>2, <1>5, <2>1, <2>2 DEF Story, n
    <2>3. CASE j = n + 1
      <3>1. timeline'[i].date < timeline'[j].date
        BY <1>2, <1>4, <1>6, <2>1, <2>3
      <3>2. ASSUME timeline[i].setup # None, e.setup # None
            PROVE  timeline[i].setup <= e.setup
        <4>1. timeline[i].setup \in Nat /\ timeline[i].setup <= limitup.date
          BY <1>6, <2>1, <3>2
        <4> QED BY <1>7, <3>2, <4>1
      <3> QED BY <1>2, <2>1, <2>3, <3>1, <3>2
    <2> QED BY <1>3, <2>2, <2>3
  <1>9. \A i \in 1..(n + 1) : timeline'[i].setup # None =>
          /\ timeline'[i].setup <= timeline'[i].date
          /\ \E j \in 1..(n + 1) : /\ timeline'[j].setup = timeline'[i].setup
                                   /\ timeline'[j].date = timeline'[i].setup
    <2> SUFFICES ASSUME NEW i \in 1..(n + 1), timeline'[i].setup # None
                 PROVE  /\ timeline'[i].setup <= timeline'[i].date
                        /\ \E j \in 1..(n + 1) :
                             /\ timeline'[j].setup = timeline'[i].setup
                             /\ timeline'[j].date = timeline'[i].setup
      OBVIOUS
    <2>1. \A j \in 1..n : j \in 1..(n + 1)
      BY <1>2
    <2>2. ASSUME NEW x \in 1..n, timeline[x].setup # None
          PROVE  /\ timeline[x].setup <= timeline[x].date
                 /\ \E j \in 1..(n + 1) : /\ timeline'[j].setup = timeline[x].setup
                                          /\ timeline'[j].date = timeline[x].setup
      <3>1. /\ timeline[x].setup <= timeline[x].date
            /\ \E j \in 1..n : /\ timeline[j].setup = timeline[x].setup
                               /\ timeline[j].date = timeline[x].setup
        BY <1>5, <2>2 DEF Story, n
      <3> QED BY <1>2, <2>1, <3>1
    <2>3. CASE i \in 1..n
      BY <1>2, <2>2, <2>3
    <2>4. CASE i = n + 1
      <3>1. e.setup # None /\ e.setup <= e.date
        BY <1>2, <1>4, <1>7, <2>4
      <3>2. CASE e.setup = b.date
        BY <1>2, <1>4, <2>4, <3>1, <3>2
      <3>3. CASE e.setup # b.date
        <4>1. signal.setup = e.setup
          BY <1>1, <1>4, <1>5, <3>1, <3>3, SetupMoves
        <4>2. timeline # <<>>
          BY <1>5, <3>1, <4>1 DEF Current
        <4>3. n \in 1..n /\ timeline[n].setup = e.setup
          BY <1>2, <1>5, <4>1, <4>2 DEF Current, n
        <4> QED BY <1>2, <2>2, <2>4, <3>1, <4>3
      <3> QED BY <3>2, <3>3
    <2> QED BY <1>3, <2>3, <2>4
  <1>10. Story(timeline')
    BY <1>2, <1>8, <1>9 DEF Story
  <1>11. Current'
    <2>1. timeline' # <<>> /\ timeline'[Len(timeline')] = e
      BY <1>2
    <2>2. e.setup = signal'.setup /\ e.date = day' /\ day' = b.date
      BY <1>1, <1>4, <1>5, SetupMoves
    <2>3. ASSUME NEW i \in 1..(n + 1)
          PROVE  /\ timeline'[i].date <= day'
                 /\ timeline'[i].setup # None => timeline'[i].setup <= limitup'.date
                 /\ timeline'[i].setup = limitup'.date => limitup'.kind = "anchor"
      <3>1. CASE i \in 1..n
        <4>1. timeline'[i].date <= day'
          BY <1>2, <1>6, <1>7, <2>2, <3>1
        <4>2. timeline'[i] = timeline[i] /\ timeline[i].setup \in Maybe(Nat)
          BY <1>2, <1>6, <3>1
        <4>3. timeline[i].setup # None => timeline[i].setup <= limitup'.date
          <5>1. ASSUME timeline[i].setup # None PROVE timeline[i].setup <= limitup'.date
            <6>1. timeline[i].setup \in Nat /\ timeline[i].setup <= limitup.date
              BY <1>6, <3>1, <5>1
            <6> QED BY <1>7, <6>1
          <5> QED BY <5>1
        <4>4. ASSUME timeline[i].setup = limitup'.date
              PROVE  limitup'.kind = "anchor"
          <5>1. timeline[i].setup # None /\ timeline[i].setup <= day /\ limitup'.date # b.date
            <6>1. timeline[i].setup # None
              BY <1>7, <4>4, NoneAssumption
            <6>2. timeline[i].setup <= limitup.date /\ limitup.date <= day /\ day < b.date
              BY <1>1, <1>5, <1>6, <3>1, <6>1, SetupMoves
            <6> QED BY <1>7, <4>4, <6>1, <6>2
          <5>2. limitup'.date = limitup.date /\ limitup'.kind = limitup.kind
            BY <1>1, <1>5, <5>1, SetupMoves
          <5>3. timeline[i].setup = limitup.date
            BY <4>4, <5>2
          <5> QED BY <1>2, <1>5, <3>1, <5>2, <5>3 DEF Current, n
        <4> QED BY <4>1, <4>2, <4>3, <4>4
      <3>2. CASE i = n + 1
        <4>1. e.date <= day'
          BY <1>7, <2>2
        <4>2. e.setup # None => e.setup <= limitup'.date
          BY <1>7
        <4>3. e.setup = limitup'.date => limitup'.kind = "anchor"
          BY <1>1, <1>4, <1>5, <1>7, SetupMoves, NoneAssumption
        <4> QED BY <1>2, <3>2, <4>1, <4>2, <4>3
      <3> QED BY <1>3, <3>1, <3>2
    <2> QED BY <1>2, <2>1, <2>2, <2>3 DEF Current
  <1>12. IInv'
    BY <1>1, <1>5, SetupMoves
  <1> QED BY <1>10, <1>11, <1>12 DEF RInv

\* In every state of a replay the invariant of its timeline holds.
LEMMA ReplayInvariance == ReplaySpec => []RInv
  <1>1. ReplayInit => RInv
    <2> SUFFICES ASSUME ReplayInit PROVE RInv
      OBVIOUS
    <2>1. IInv
      BY Initial DEF ReplayInit
    <2>2. timeline = <<>> /\ Len(timeline) = 0 /\ timeline \in Seq(Entries)
      BY DEF ReplayInit
    <2>3. 1..Len(timeline) = {}
      BY <2>2
    <2>4. signal.setup = None
      BY DEF ReplayInit, Init, Normal
    <2> QED BY <2>1, <2>2, <2>3, <2>4 DEF RInv, Story, Current
  <1>2. RInv /\ [ReplayNext]_replayVars => RInv'
    <2> SUFFICES ASSUME RInv, [ReplayNext]_replayVars PROVE RInv'
      OBVIOUS
    <2>1. CASE ReplayNext
      BY <2>1, StoryGoesOn DEF ReplayNext
    <2>2. CASE UNCHANGED replayVars
      <3>1. UNCHANGED vars /\ timeline' = timeline
        BY <2>2 DEF replayVars
      <3>2. IInv'
        BY <3>1, Inductive DEF RInv
      <3> QED BY <3>1, <3>2 DEF RInv, Current, Story, vars
    <2> QED BY <2>1, <2>2
  <1> QED BY <1>1, <1>2, PTL DEF ReplaySpec

\* The lives of two setups of a replay do not overlap: a setup is over when the
\* next one begins, and the one reported as active is that of the last day.
THEOREM OneLifeAtATime == ReplaySpec => []LivesDisjoint
  <1>1. RInv => LivesDisjoint
    <2> SUFFICES ASSUME RInv, NEW s \in Setups(timeline)
                 PROVE  LET end == Termination(timeline, s)
                        IN  /\ \A r \in Successors(timeline, s) :
                                 end.closed # None /\ end.closed <= r
                            /\ end.reason = "ACTIVE" =>
                                 signal.setup = s /\ Successors(timeline, s) = {}
      BY DEF LivesDisjoint
    <2> DEFINE end == Termination(timeline, s)
               invalid == FirstStage(timeline, s, "INVALID")
               later == Successors(timeline, s)
               after == Aftermath(timeline, s)
    <2>0. Story(timeline) /\ s \in Nat /\ s # None
      BY OpensOnItsDay DEF RInv
    <2>1. /\ invalid # None => end = [reason |-> "INVALIDATED", closed |-> invalid]
          /\ invalid = None /\ later # {} =>
               end = [reason |-> "SUPERSEDED_BY_NEW_ANCHOR", closed |-> Min(later)]
          /\ invalid = None /\ later = {} /\ after # {} =>
               end = [reason |-> "EXPIRED", closed |-> Min(after)]
      BY DEF Termination
    <2>2. later = {r \in Setups(timeline) : r > s} /\ later \in SUBSET Nat
      BY <2>0, SuccessorsAreLater
    <2>3. invalid # None => \E i \in Items(timeline) : i.setup = s /\ i.date = invalid
      BY <2>0, FirstOfStage
    <2> HIDE DEF end, invalid, later
    <2>4. ASSUME NEW r \in later PROVE end.closed # None /\ end.closed <= r
      <3>1. CASE invalid # None
        <4>1. PICK i \in Items(timeline) : i.setup = s /\ i.date = invalid
          BY <2>3, <3>1
        <4>2. i.date < r /\ i.date \in Nat /\ r \in Nat
          <5>1. r \in Setups(timeline) /\ s < r /\ r \in Nat
            BY <2>0, <2>2
          <5>2. i.date \in Nat
            BY <2>0, ItemsOfStory, BoundsAssumption DEF Entries, Days
          <5> QED BY <2>0, <4>1, <5>1, <5>2, NoReturn
        <4> QED BY <2>1, <3>1, <4>1, <4>2
      <3>2. CASE invalid = None
        <4>1. Min(later) \in Nat /\ Min(later) <= r
          BY <2>2, MinIsLeast
        <4> QED BY <2>1, <3>2, <4>1, NoneAssumption
      <3> QED BY <3>1, <3>2
    <2>5. ASSUME end.reason = "ACTIVE" PROVE signal.setup = s /\ later = {}
      <3>1. invalid = None /\ later = {} /\ after = {}
        BY <2>1, <2>5
      <3> DEFINE last == timeline[Len(timeline)]
      <3>2. timeline # <<>> /\ last \in Items(timeline)
        <4>1. timeline \in Seq(Entries) /\ DOMAIN timeline = 1..Len(timeline)
              /\ Items(timeline) # {}
          BY <2>0 DEF Story, Setups
        <4> QED BY <4>1 DEF Items
      <3>3. last.setup = signal.setup /\ last.date = day
        BY <3>2 DEF RInv, Current
      <3> HIDE DEF last
      <3>4. PICK i \in Items(timeline) :
              i.setup = s /\ i.date = Max(DatesOf(timeline, s))
        <4>1. Max(DatesOf(timeline, s)) \in DatesOf(timeline, s)
          BY <2>0, OpensOnItsDay, MaxIsLast
        <4> QED BY <4>1 DEF DatesOf
      <3>5. ~(last.date > i.date)
        BY <3>1, <3>2, <3>4 DEF Aftermath
      <3>6. i.date <= last.date /\ i.date \in Nat /\ last.date \in Nat
        <4>1. i.date <= day
          <5>1. PICK x \in 1..Len(timeline) : i = timeline[x]
            BY <2>0 DEF Story, Items
          <5> QED BY <5>1 DEF RInv, Current
        <4> QED BY <2>0, <3>2, <3>3, <4>1, ItemsOfStory, BoundsAssumption DEF Entries, Days
      <3>7. i = last
        BY <2>0, <3>2, <3>5, <3>6, ItemsOfStory
      <3> QED BY <3>1, <3>3, <3>4, <3>7
    <2> QED BY <2>4, <2>5 DEF end, later
  <1> QED BY <1>1, ReplayInvariance, PTL

\* The days of a stage that a setup was at stay, and a day that is not the
\* setup's adds none to them.
LEMMA FirstStageStays ==
    ASSUME RInv, NEW b \in Bars, NEW k \in {"quiet", "anchor", "board"},
           ReplayDay(b, k), NEW s, NEW stage
    PROVE  /\ FirstStage(timeline, s, stage) # None =>
                FirstStage(timeline', s, stage) = FirstStage(timeline, s, stage)
           /\ FirstStage(timeline, s, stage) = None /\ signal'.setup # s =>
                FirstStage(timeline', s, stage) = None
  <1> DEFINE old == StageDays(timeline, s, stage)
             new == StageDays(timeline', s, stage)
  <1>1. Story(timeline) /\ Story(timeline')
    BY StoryGoesOn DEF RInv
  <1>2. old \subseteq new /\ new \subseteq old \cup {b.date}
    <2>1. Added(b).date = b.date
      BY DEF Added
    <2>2. Items(timeline') = Items(timeline) \cup {Added(b)}
      BY DayJoins
    <2> QED BY <2>1, <2>2 DEF StageDays
  <1>3. signal'.setup # s => new = old
    <2>1. Added(b).setup = signal'.setup
      BY DEF Added
    <2> QED BY <2>1, DayJoins DEF StageDays
  <1>4. \A x \in old : x < b.date /\ x \in Nat
    BY DayJoins DEF StageDays
  <1>5. /\ old \in SUBSET Nat /\ new \in SUBSET Nat
        /\ FirstStage(timeline, s, stage) = IF old = {} THEN None ELSE Min(old)
        /\ FirstStage(timeline', s, stage) = IF new = {} THEN None ELSE Min(new)
        /\ FirstStage(timeline, s, stage) = None <=> old = {}
    BY <1>1, FirstOfStage
  <1> HIDE DEF old, new
  <1>6. ASSUME old # {} PROVE Min(new) = Min(old)
    <2>1. Min(old) \in old /\ \A x \in old : Min(old) <= x
      BY <1>5, <1>6, MinIsLeast
    <2>2. Min(old) \in new /\ \A x \in new : Min(old) <= x
      <3>1. Min(old) < b.date /\ Min(old) \in Nat /\ b.date \in Nat
        BY <1>4, <2>1, BarTypes
      <3> QED BY <1>2, <2>1, <3>1
    <2> QED BY <1>5, <2>2, MinIsLeast
  <1> QED BY <1>2, <1>3, <1>5, <1>6

\* A set of days that only a later day joins keeps its first.
LEMMA MinStays ==
    ASSUME NEW S \in SUBSET Nat, S # {}, NEW T \in SUBSET Nat, NEW d \in Nat,
           S \subseteq T, T \subseteq S \cup {d}, \A x \in S : x <= d
    PROVE  Min(T) = Min(S)
  <1>1. Min(S) \in S /\ \A x \in S : Min(S) <= x
    BY MinIsLeast
  <1>2. Min(S) \in T /\ \A x \in T : Min(S) <= x
    BY <1>1
  <1> QED BY <1>2, MinIsLeast

\* A setup over which another has come is not the setup of a day again, nor is
\* one that the replay has gone past.
LEMMA NotAgain ==
    ASSUME RInv, NEW b \in Bars, NEW k \in {"quiet", "anchor", "board"},
           ReplayDay(b, k), NEW s \in Setups(timeline),
           Successors(timeline, s) # {} \/ Aftermath(timeline, s) # {}
    PROVE  signal'.setup # s
  <1> SUFFICES ASSUME signal'.setup = s PROVE FALSE
    OBVIOUS
  <1>1. Evaluate(b, k) /\ Story(timeline) /\ IInv
    BY DEF ReplayDay, RInv
  <1>2. s \in Nat /\ s # None
    BY <1>1, OpensOnItsDay
  <1>3. PICK i \in Items(timeline) : i.setup = s
    BY DEF Setups
  <1>4. /\ limitup.date <= day /\ day < b.date /\ s <= limitup.date
        /\ limitup.date \in Nat /\ day \in Nat /\ b.date \in Nat
    BY <1>1, <1>2, <1>3, SetupMoves, DayJoins, BarTypes
  <1>5. s # b.date
    BY <1>2, <1>4
  <1>6. signal.setup = s /\ s = limitup.date
    BY <1>1, <1>2, <1>5, SetupMoves
  <1>7. CASE Successors(timeline, s) # {}
    <2>1. PICK r \in Setups(timeline) : r > s /\ r \in Nat
      BY <1>1, <1>7, SuccessorsAreLater
    <2>2. r <= limitup.date
      BY DayJoins DEF Setups
    <2> QED BY <1>2, <1>4, <1>6, <2>1, <2>2
  <1>8. CASE Aftermath(timeline, s) # {}
    <2>1. PICK j \in Items(timeline) : j.date > Max(DatesOf(timeline, s))
      BY <1>8 DEF Aftermath
    <2>2. PICK l \in Items(timeline) : l.date = day /\ l.setup = s
      <3>1. timeline # <<>>
        BY <1>2, <1>6 DEF RInv, Current
      <3> QED BY <1>6, <3>1, DayJoins
    <2>3. day \in DatesOf(timeline, s)
      BY <2>2 DEF DatesOf
    <2>4. DatesOf(timeline, s) \in SUBSET Days /\ DatesOf(timeline, s) # {}
      BY <1>1, OpensOnItsDay
    <2>5. day <= Max(DatesOf(timeline, s)) /\ Max(DatesOf(timeline, s)) \in DatesOf(timeline, s)
      BY <2>3, <2>4, MaxIsLast
    <2>6. Max(DatesOf(timeline, s)) \in Nat
      BY <2>4, <2>5, BoundsAssumption DEF Days
    <2>7. j.date <= day /\ j.date \in Nat
      BY DayJoins
    <2> QED BY <1>4, <2>1, <2>5, <2>6, <2>7
  <1> QED BY <1>7, <1>8

\* When a setup that the days have gone past is not that of the new day, the
\* sets its end is read from gain at most the new day.
LEMMA LaterDays ==
    ASSUME RInv, NEW b \in Bars, NEW k \in {"quiet", "anchor", "board"},
           ReplayDay(b, k), NEW s \in Setups(timeline), signal'.setup # s
    PROVE  /\ s \in Setups(timeline')
           /\ Successors(timeline, s) \subseteq Successors(timeline', s)
           /\ Successors(timeline', s) \subseteq Successors(timeline, s) \cup {b.date}
           /\ \A r \in Successors(timeline, s) : r < b.date
           /\ Aftermath(timeline', s) = Aftermath(timeline, s) \cup {b.date}
           /\ \A d \in Aftermath(timeline, s) : d < b.date /\ d \in Nat
  <1>1. Evaluate(b, k) /\ Story(timeline) /\ IInv /\ Story(timeline')
    BY StoryGoesOn DEF ReplayDay, RInv
  <1>2. Added(b).setup = signal'.setup /\ Added(b).date = b.date
    BY DEF Added
  <1>3. Setups(timeline') = (Setups(timeline) \cup {signal'.setup}) \ {None}
    BY <1>2, DayJoins DEF Setups
  <1>4. s \in Nat /\ s # None /\ s \in Setups(timeline')
    BY <1>1, <1>3, OpensOnItsDay
  <1>5. /\ Successors(timeline, s) = {r \in Setups(timeline) : r > s}
        /\ Successors(timeline', s) = {r \in Setups(timeline') : r > s}
    BY <1>1, <1>4, SuccessorsAreLater
  <1>6. \A r \in Setups(timeline) : r \in Nat /\ r < b.date
    <2> SUFFICES ASSUME NEW r \in Setups(timeline) PROVE r \in Nat /\ r < b.date
      OBVIOUS
    <2>1. r \in Nat
      BY <1>1, OpensOnItsDay
    <2>2. r <= limitup.date
      BY DayJoins DEF Setups
    <2> QED BY <1>1, <2>1, <2>2, SetupMoves, BarTypes
  <1>7. \A r \in Setups(timeline') : r \in Setups(timeline) \/ r = b.date
    <2> SUFFICES ASSUME signal'.setup # None, signal'.setup # b.date
                 PROVE  signal'.setup \in Setups(timeline)
      BY <1>3
    <2>1. signal.setup = signal'.setup
      BY <1>1, SetupMoves
    <2>2. timeline # <<>>
      BY <2>1 DEF RInv, Current
    <2> QED BY <2>1, <2>2, DayJoins DEF Setups
  <1>8. DatesOf(timeline', s) = DatesOf(timeline, s)
    BY <1>2, DayJoins DEF DatesOf
  <1>9. Max(DatesOf(timeline, s)) < b.date
    <2>1. Max(DatesOf(timeline, s)) \in DatesOf(timeline, s)
      BY <1>1, OpensOnItsDay, MaxIsLast
    <2> QED BY <2>1, DayJoins DEF DatesOf
  <1>10. Aftermath(timeline', s) = Aftermath(timeline, s) \cup {b.date}
    <2>1. b.date > Max(DatesOf(timeline, s))
      <3>1. Max(DatesOf(timeline, s)) \in DatesOf(timeline, s)
        BY <1>1, OpensOnItsDay, MaxIsLast
      <3>2. Max(DatesOf(timeline, s)) \in Nat
        BY <3>1, DayJoins DEF DatesOf
      <3> QED BY <1>9, <3>2, BarTypes
    <2> QED BY <1>2, <1>8, <2>1, DayJoins DEF Aftermath
  <1>11. \A d \in Aftermath(timeline, s) : d < b.date /\ d \in Nat
    BY DayJoins DEF Aftermath
  <1>12. Successors(timeline, s) \subseteq Successors(timeline', s)
    <2>1. Setups(timeline) \subseteq Setups(timeline')
      BY <1>3 DEF Setups
    <2> QED BY <1>5, <2>1
  <1>13. Successors(timeline', s) \subseteq Successors(timeline, s) \cup {b.date}
    BY <1>5, <1>7
  <1>14. \A r \in Successors(timeline, s) : r < b.date
    BY <1>5, <1>6
  <1> QED BY <1>4, <1>10, <1>11, <1>12, <1>13, <1>14

\* A replay of more days leaves a setup reported as closed closed, and its end
\* where it was; a setup given up as expired may only turn out superseded later.
THEOREM EndsAreFinal == ReplaySpec => ClosedStaysClosed
  <1>1. ASSUME RInv, NEW b \in Bars, NEW k \in {"quiet", "anchor", "board"},
               ReplayDay(b, k), NEW s \in Setups(timeline),
               Termination(timeline, s).reason # "ACTIVE"
        PROVE  \/ Termination(timeline', s) = Termination(timeline, s)
               \/ /\ Termination(timeline, s).reason = "EXPIRED"
                  /\ Termination(timeline', s).reason = "SUPERSEDED_BY_NEW_ANCHOR"
                  /\ Termination(timeline', s).closed >= Termination(timeline, s).closed
    <2> DEFINE before == Termination(timeline, s)
               after == Termination(timeline', s)
               invalid == FirstStage(timeline, s, "INVALID")
               later == Successors(timeline, s)
               past == Aftermath(timeline, s)
               later2 == Successors(timeline', s)
               past2 == Aftermath(timeline', s)
    <2>1. /\ invalid # None => before = [reason |-> "INVALIDATED", closed |-> invalid]
          /\ invalid = None /\ later # {} =>
               before = [reason |-> "SUPERSEDED_BY_NEW_ANCHOR", closed |-> Min(later)]
          /\ invalid = None /\ later = {} /\ past # {} =>
               before = [reason |-> "EXPIRED", closed |-> Min(past)]
          /\ invalid = None /\ later = {} /\ past = {} => before.reason = "ACTIVE"
      BY DEF Termination
    <2>2. FirstStage(timeline', s, "INVALID") = invalid =>
            /\ invalid # None => after = [reason |-> "INVALIDATED", closed |-> invalid]
            /\ invalid = None /\ later2 # {} =>
                 after = [reason |-> "SUPERSEDED_BY_NEW_ANCHOR", closed |-> Min(later2)]
            /\ invalid = None /\ later2 = {} /\ past2 # {} =>
                 after = [reason |-> "EXPIRED", closed |-> Min(past2)]
      BY DEF Termination
    <2>3. CASE invalid # None
      <3>1. FirstStage(timeline', s, "INVALID") = invalid
        BY <1>1, <2>3, FirstStageStays
      <3> QED BY <2>1, <2>2, <2>3, <3>1
    <2>4. CASE invalid = None /\ (later # {} \/ past # {})
      <3>1. signal'.setup # s
        BY <1>1, <2>4, NotAgain
      <3>2. FirstStage(timeline', s, "INVALID") = None
        BY <1>1, <2>4, <3>1, FirstStageStays
      <3>3. /\ later \subseteq later2 /\ later2 \subseteq later \cup {b.date}
            /\ \A r \in later : r < b.date
            /\ past2 = past \cup {b.date}
            /\ \A d \in past : d < b.date /\ d \in Nat
        BY <1>1, <3>1, LaterDays
      <3>4. Story(timeline) /\ Story(timeline') /\ s \in Setups(timeline')
        BY <1>1, <3>1, StoryGoesOn, LaterDays DEF RInv
      <3>5. later \in SUBSET Nat /\ later2 \in SUBSET Nat /\ b.date \in Nat
        BY <1>1, <3>4, SuccessorsAreLater, BarTypes
      <3> HIDE DEF before, after, invalid, later, past, later2, past2
      <3>6. CASE later # {}
        <4>1. Min(later2) = Min(later) /\ later2 # {}
          <5>1. \A r \in later : r <= b.date
            BY <3>3, <3>5
          <5> QED BY <3>3, <3>5, <3>6, <5>1, MinStays
        <4> QED BY <2>1, <2>2, <2>4, <3>2, <3>6, <4>1 DEF before, after
      <3>7. CASE later = {}
        <4>1. past # {} /\ past \in SUBSET Nat /\ past2 \in SUBSET Nat /\ past2 # {}
          BY <2>4, <3>3, <3>5, <3>7
        <4>2. before = [reason |-> "EXPIRED", closed |-> Min(past)]
          BY <2>1, <2>4, <3>7, <4>1
        <4>3. CASE later2 = {}
          <5>1. Min(past2) = Min(past)
            <6>1. \A d \in past : d <= b.date
              BY <3>3, <3>5
            <6> QED BY <3>3, <3>5, <4>1, <6>1, MinStays
          <5> QED BY <2>2, <2>4, <3>2, <4>1, <4>2, <4>3, <5>1 DEF before, after
        <4>4. CASE later2 # {}
          <5>1. Min(later2) = b.date
            <6>1. later2 = {b.date}
              BY <3>3, <3>7, <4>4
            <6> QED BY <3>5, <6>1, MinIsLeast
          <5>2. Min(past) \in Nat /\ Min(past) < b.date
            BY <3>3, <4>1, MinIsLeast
          <5>3. after = [reason |-> "SUPERSEDED_BY_NEW_ANCHOR", closed |-> b.date]
            BY <2>2, <2>4, <3>2, <4>4, <5>1
          <5>4. after.closed >= before.closed
            BY <3>5, <4>2, <5>2, <5>3
          <5> QED BY <4>2, <5>3, <5>4 DEF before, after
        <4> QED BY <4>3, <4>4
      <3> QED BY <3>6, <3>7
    <2> QED BY <1>1, <2>1, <2>3, <2>4
  <1>2. RInv /\ [ReplayNext]_replayVars =>
          [\A s \in Setups(timeline) :
             LET before == Termination(timeline, s)
                 after == Termination(timeline', s)
             IN  before.reason # "ACTIVE" =>
                   \/ after = before
                   \/ /\ before.reason = "EXPIRED"
                      /\ after.reason = "SUPERSEDED_BY_NEW_ANCHOR"
                      /\ after.closed >= before.closed]_replayVars
    <2> SUFFICES ASSUME RInv, ReplayNext
                 PROVE  \A s \in Setups(timeline) :
                          Termination(timeline, s).reason # "ACTIVE" =>
                            \/ Termination(timeline', s) = Termination(timeline, s)
                            \/ /\ Termination(timeline, s).reason = "EXPIRED"
                               /\ Termination(timeline', s).reason = "SUPERSEDED_BY_NEW_ANCHOR"
                               /\ Termination(timeline', s).closed >= Termination(timeline, s).closed
      OBVIOUS
    <2>1. PICK b \in Bars, k \in {"quiet", "anchor", "board"} : ReplayDay(b, k)
      BY DEF ReplayNext
    <2> QED BY <1>1, <2>1
  <1> QED BY <1>2, ReplayInvariance, PTL DEF ReplaySpec, ClosedStaysClosed

\* The days of a replay are days of the engine: what is proved of the signals
\* it evaluates holds of those a timeline is made of.
THEOREM ReplayIsEngine == ReplaySpec => Spec
  <1>1. ReplayInit => Init
    BY DEF ReplayInit
  <1>2. [ReplayNext]_replayVars => [Next]_vars
    BY DEF ReplayNext, ReplayDay, Next, replayVars
  <1> QED BY <1>1, <1>2, PTL DEF ReplaySpec, Spec

-----------------------------------------------------------------------------
(* The study of a code.  An event is sound when the plan it was frozen     *)
(* from is, and an episode says what the labelling says of the event and   *)
(* of the sessions that were read.                                         *)

\* A candidate is bought below its target, unless at the middle of its zone.
RoomBelowTarget(e) ==
    e.candidate /\ e.s1 # None =>
        /\ e.label = "B2_READY" => e.trigger < e.s1
        /\ e.label \in {"B1_READY", "B2_CONFIRMED"} =>
             \/ e.preferred < e.s1
             \/ e.label = "B1_READY" /\ e.preferred = e.zone.center

EventSound(e) ==
    /\ e.label \in Actionable \cup {"B1_PREP"}
    /\ e.preferred \in Int /\ e.invalid \in Int
    /\ e.s1 \in Maybe(Int)
    /\ e.trigger \in Maybe(Int)
    /\ e.label = "B2_READY" => e.trigger \in Int /\ e.preferred = e.trigger
    /\ ValidPlan(e)
    /\ RoomBelowTarget(e)

EpisodeFollows ==
    artifact # "none" =>
        /\ event # None
        /\ episode.patterns = Patterns(event, SessionsRead)
        /\ episode.conversions = Conversions(event, SessionsRead)
        /\ artifact # "baseline" \/ event.label # "B2_READY" =>
             episode.outcome = CompleteEvent(event, SessionsRead)

SInv ==
    /\ IInv
    /\ event # None => EventSound(event)
    /\ future \in Seq(SessionBars)
    /\ studied \in 0 .. Len(future)
    /\ artifact = "none" => episode = None
    /\ EpisodeFollows

-----------------------------------------------------------------------------
(* What fewer sessions decide, more do not change *)

\* p is what was there of f when fewer sessions had been published.
Begins(p, f) ==
    /\ p \in Seq(SessionBars) /\ f \in Seq(SessionBars)
    /\ Len(p) <= Len(f)
    /\ \A i \in 1 .. Len(p) : p[i] = f[i]

\* First is the least element of a nonempty set of naturals.
LEMMA FirstIsLeast ==
    ASSUME NEW S \in SUBSET Nat, S # {}
    PROVE  /\ First(S) \in S /\ \A x \in S : First(S) <= x
           /\ \A m \in S : (\A x \in S : m <= x) => First(S) = m
  <1>1. First(S) \in S /\ \A x \in S : First(S) <= x
    BY LeastExists DEF First
  <1>2. ASSUME NEW m \in S, \A x \in S : m <= x PROVE First(S) = m
    <2>1. m <= First(S) /\ First(S) <= m /\ m \in Nat /\ First(S) \in Nat
      BY <1>1, <1>2
    <2> QED BY <2>1
  <1> QED BY <1>1, <1>2

\* The sessions of a horizon, one by one.
LEMMA SessionsAre ==
    ASSUME NEW f \in Seq(SessionBars), NEW n \in Nat
    PROVE  /\ Sessions(f, n) \in Seq(SessionBars)
           /\ Len(Sessions(f, n)) = IF n < Len(f) THEN n ELSE Len(f)
           /\ Len(Sessions(f, n)) <= n
           /\ DOMAIN Sessions(f, n) = 1 .. Len(Sessions(f, n))
           /\ \A i \in 1 .. Len(Sessions(f, n)) : Sessions(f, n)[i] = f[i]
           /\ Begins(Sessions(f, n), f)
  <1> DEFINE m == IF n < Len(f) THEN n ELSE Len(f)
  <1>1. m \in Nat /\ m <= Len(f) /\ Len(f) \in Nat
    OBVIOUS
  <1>2. Sessions(f, n) = SubSeq(f, 1, m)
    BY DEF Sessions
  <1> HIDE DEF m
  <1>3. /\ SubSeq(f, 1, m) \in Seq(SessionBars)
        /\ Len(SubSeq(f, 1, m)) = m
        /\ \A i \in 1 .. m : SubSeq(f, 1, m)[i] = f[i]
    BY <1>1
  <1> QED BY <1>1, <1>2, <1>3 DEF m, Begins

\* The sessions of a horizon only grow, and once it is over they stay.
LEMMA HorizonGrows ==
    ASSUME NEW p, NEW f, Begins(p, f), NEW n \in Nat
    PROVE  /\ Begins(Sessions(p, n), Sessions(f, n))
           /\ Len(p) >= n => Sessions(p, n) = Sessions(f, n)
  <1>1. p \in Seq(SessionBars) /\ f \in Seq(SessionBars) /\ Len(p) <= Len(f)
        /\ Len(p) \in Nat /\ Len(f) \in Nat /\ \A i \in 1 .. Len(p) : p[i] = f[i]
    BY DEF Begins
  <1> DEFINE u == Sessions(p, n)
             v == Sessions(f, n)
  <1>2. /\ u \in Seq(SessionBars) /\ v \in Seq(SessionBars)
        /\ Len(u) = IF n < Len(p) THEN n ELSE Len(p)
        /\ Len(v) = IF n < Len(f) THEN n ELSE Len(f)
        /\ \A i \in 1 .. Len(u) : u[i] = p[i]
        /\ \A i \in 1 .. Len(v) : v[i] = f[i]
    BY <1>1, SessionsAre
  <1> HIDE DEF u, v
  <1>3. Len(u) <= Len(v) /\ \A i \in 1 .. Len(u) : i \in 1 .. Len(p) /\ i \in 1 .. Len(v)
    BY <1>1, <1>2
  <1>4. \A i \in 1 .. Len(u) : u[i] = v[i]
    BY <1>1, <1>2, <1>3
  <1>5. Len(p) >= n => u = v
    <2>1. Len(p) >= n => Len(u) = Len(v)
      BY <1>1, <1>2
    <2> QED BY <1>2, <1>4, <2>1
  <1> QED BY <1>2, <1>3, <1>4, <1>5 DEF Begins, u, v

\* A race that is decided, or over, stays so when its window grows.
LEMMA RaceStays ==
    ASSUME NEW e, NEW u, NEW v, Begins(u, v), NEW length \in Nat,
           Len(v) <= length, Race(e, u, length).result # "CENSORED"
    PROVE  Race(e, v, length) = Race(e, u, length)
  <1> DEFINE hits(w) == {i \in DOMAIN w : HitsTarget(e, w[i]) \/ HitsInvalid(e, w[i])}
  <1>1. /\ u \in Seq(SessionBars) /\ v \in Seq(SessionBars) /\ Len(u) <= Len(v)
        /\ DOMAIN u = 1 .. Len(u) /\ DOMAIN v = 1 .. Len(v)
        /\ Len(u) \in Nat /\ Len(v) \in Nat /\ \A i \in 1 .. Len(u) : u[i] = v[i]
    BY DEF Begins
  <1>2. hits(u) \in SUBSET Nat /\ hits(v) \in SUBSET Nat
    BY <1>1
  <1>3. \A i \in DOMAIN v : i \in hits(u) <=> i \in hits(v) /\ i <= Len(u)
    BY <1>1
  <1>4. CASE hits(u) # {}
    <2>1. First(hits(u)) \in hits(u) /\ \A x \in hits(u) : First(hits(u)) <= x
      BY <1>2, <1>4, FirstIsLeast
    <2>2. First(hits(u)) \in hits(v) /\ First(hits(u)) <= Len(u)
          /\ First(hits(u)) \in 1 .. Len(u)
      BY <1>1, <2>1
    <2>3. ASSUME NEW x \in hits(v) PROVE First(hits(u)) <= x
      <3>1. x \in Nat /\ x \in DOMAIN v
        BY <1>1, <2>3
      <3>2. CASE x <= Len(u)
        BY <1>3, <2>1, <3>1, <3>2
      <3> QED BY <1>1, <2>2, <3>1, <3>2
    <2>4. First(hits(v)) = First(hits(u))
      <3> HIDE DEF hits
      <3> QED BY <1>2, <2>2, <2>3, FirstIsLeast
    <2>5. v[First(hits(v))] = u[First(hits(u))]
      BY <1>1, <2>2, <2>4
    <2>6. hits(v) # {}
      BY <2>2
    <2> QED BY <1>4, <2>4, <2>5, <2>6 DEF Race
  <1>5. CASE hits(u) = {}
    <2>1. ~(Len(u) < length)
      BY <1>5 DEF Race
    <2>2. Len(u) = Len(v)
      <3>1. \A x, y, z \in Nat : x <= y /\ y <= z /\ ~(x < z) => x = y
        OBVIOUS
      <3>2. Len(u) \in Nat /\ Len(v) \in Nat /\ Len(u) <= Len(v)
        BY <1>1
      <3> QED BY <2>1, <3>1, <3>2
    <2>3. u = v
      BY <1>1, <2>2
    <2> QED BY <2>3
  <1> QED BY <1>4, <1>5

\* What a race can decide, and when.
LEMMA RaceDecides ==
    ASSUME NEW e, NEW w \in Seq(SessionBars), NEW length \in Nat
    PROVE  LET r == Race(e, w, length)
           IN  /\ r.result \in {"CENSORED", "TIMEOUT", "AMBIGUOUS", "WIN", "LOSS"}
               /\ r.at = None <=> r.result = "CENSORED"
               /\ r.at # None => r.at \in Nat
               /\ r = [result |-> r.result, at |-> r.at]
  <1> DEFINE hits == {i \in DOMAIN w : HitsTarget(e, w[i]) \/ HitsInvalid(e, w[i])}
             r == Race(e, w, length)
  <1>1. hits \in SUBSET Nat /\ Len(w) \in Nat
    OBVIOUS
  <1>2. hits # {} => First(hits) \in Nat
    <2> HIDE DEF hits
    <2> QED BY <1>1, FirstIsLeast
  <1>3. /\ hits = {} /\ Len(w) < length => r = [result |-> "CENSORED", at |-> None]
        /\ hits = {} /\ ~(Len(w) < length) => r = [result |-> "TIMEOUT", at |-> Len(w)]
        /\ hits # {} => \E result \in {"AMBIGUOUS", "WIN", "LOSS"} :
                           r = [result |-> result, at |-> First(hits)]
    BY DEF Race
  <1> HIDE DEF hits, r
  <1>4. /\ r.result \in {"CENSORED", "TIMEOUT", "AMBIGUOUS", "WIN", "LOSS"}
        /\ r.at = None <=> r.result = "CENSORED"
        /\ r.at # None => r.at \in Nat
        /\ r = [result |-> r.result, at |-> r.at]
    <2>1. CASE hits = {} /\ Len(w) < length
      BY <1>3, <2>1
    <2>2. CASE hits = {} /\ ~(Len(w) < length)
      <3>1. Len(w) # None
        BY <1>1, NoneAssumption
      <3> QED BY <1>1, <1>3, <2>2, <3>1
    <2>3. CASE hits # {}
      <3>1. First(hits) # None
        BY <1>2, <2>3, NoneAssumption
      <3> QED BY <1>2, <1>3, <2>3, <3>1
    <2> QED BY <2>1, <2>2, <2>3
  <1> QED BY <1>4 DEF r

\* The position that an entry opens: its race over the holding sessions, and
\* over the ones after the first.
LEMMA HoldingStays ==
    ASSUME NEW e, NEW p, NEW f, Begins(p, f), p # <<>>
    PROVE  /\ Holding(e, p).result # "CENSORED" => Holding(e, f) = Holding(e, p)
           /\ HoldingOn(e, p).result # "CENSORED" => HoldingOn(e, f) = HoldingOn(e, p)
  <1>1. /\ p \in Seq(SessionBars) /\ f \in Seq(SessionBars) /\ f # <<>>
        /\ MaxHoldingSessions \in Nat /\ MaxHoldingSessions - 1 \in Nat
    BY HoldingAssumption DEF Begins
  <1>2. Begins(Tail(p), Tail(f))
    <2>1. /\ Len(p) \in Nat \ {0} /\ Len(f) \in Nat \ {0}
          /\ Tail(p) \in Seq(SessionBars) /\ Len(Tail(p)) = Len(p) - 1
          /\ Tail(f) \in Seq(SessionBars) /\ Len(Tail(f)) = Len(f) - 1
          /\ \A i \in 1 .. (Len(p) - 1) : Tail(p)[i] = p[i + 1]
          /\ \A i \in 1 .. (Len(f) - 1) : Tail(f)[i] = f[i + 1]
      BY <1>1
    <2>2. Len(p) <= Len(f) /\ \A i \in 1 .. Len(p) : p[i] = f[i]
      BY DEF Begins
    <2>3. \A i \in 1 .. (Len(p) - 1) : i + 1 \in 1 .. Len(p) /\ i \in 1 .. (Len(f) - 1)
      BY <2>1, <2>2
    <2> QED BY <2>1, <2>2, <2>3 DEF Begins
  <1>3. /\ Begins(Sessions(p, MaxHoldingSessions), Sessions(f, MaxHoldingSessions))
        /\ Len(Sessions(f, MaxHoldingSessions)) <= MaxHoldingSessions
    <2>1. Begins(Sessions(p, MaxHoldingSessions), Sessions(f, MaxHoldingSessions))
      BY <1>1, HorizonGrows
    <2>2. Len(Sessions(f, MaxHoldingSessions)) <= MaxHoldingSessions
      BY <1>1, SessionsAre
    <2> QED BY <2>1, <2>2
  <1>4. Holding(e, p).result # "CENSORED" => Holding(e, f) = Holding(e, p)
    BY <1>1, <1>3, RaceStays DEF Holding
  <1> DEFINE length == MaxHoldingSessions - 1
             ru == Race(e, Sessions(Tail(p), length), length)
             rv == Race(e, Sessions(Tail(f), length), length)
  <1>5. /\ Begins(Sessions(Tail(p), length), Sessions(Tail(f), length))
        /\ Len(Sessions(Tail(f), length)) <= length
        /\ Sessions(Tail(p), length) \in Seq(SessionBars)
    <2>1. Tail(p) \in Seq(SessionBars) /\ Tail(f) \in Seq(SessionBars) /\ length \in Nat
      BY <1>1, <1>2 DEF Begins
    <2> HIDE DEF length
    <2>2. Begins(Sessions(Tail(p), length), Sessions(Tail(f), length))
      BY <1>2, <2>1, HorizonGrows
    <2>3. /\ Len(Sessions(Tail(f), length)) <= length
          /\ Sessions(Tail(p), length) \in Seq(SessionBars)
      BY <2>1, SessionsAre
    <2> QED BY <2>2, <2>3
  <1>6. ru.result # "CENSORED" => rv = ru
    BY <1>1, <1>5, RaceStays
  <1>7. /\ HoldingOn(e, p) = IF ru.at = None THEN ru ELSE [ru EXCEPT !.at = @ + 1]
        /\ HoldingOn(e, f) = IF rv.at = None THEN rv ELSE [rv EXCEPT !.at = @ + 1]
    BY DEF HoldingOn
  <1>8. ru = [result |-> ru.result, at |-> ru.at]
    BY <1>1, <1>5, RaceDecides
  <1> HIDE DEF ru, rv
  <1>9. HoldingOn(e, p).result = ru.result
    BY <1>7, <1>8
  <1> QED BY <1>4, <1>6, <1>7, <1>9

\* A decided outcome is final, and so are the kind and the price of a fill.
LEMMA OutcomeStays ==
    ASSUME NEW e, NEW p, NEW f, Begins(p, f)
    PROVE  LET old == CompleteEvent(e, p)
               new == CompleteEvent(e, f)
           IN  /\ old.result # "CENSORED" => new = old
               /\ old.fill = "FILLED" => new.type = old.type /\ new.price = old.price
  <1> DEFINE old == CompleteEvent(e, p)
             new == CompleteEvent(e, f)
  <1>1. CASE ~Tradable(e)
    BY <1>1 DEF CompleteEvent
  <1>2. CASE Tradable(e) /\ p = <<>>
    BY <1>2 DEF CompleteEvent, Unfilled
  <1>3. CASE Tradable(e) /\ p # <<>>
    <2>1. f # <<>> /\ p[1] = f[1]
      <3>1. Len(p) \in Nat \ {0} /\ Len(f) \in Nat /\ Len(p) <= Len(f)
            /\ \A i \in 1 .. Len(p) : p[i] = f[i]
        BY <1>3 DEF Begins
      <3> QED BY <3>1
    <2> DEFINE first == p[1]
               cancelled == first.open <= e.invalid
    <2>2. /\ cancelled => old = new /\ old = Unfilled("CANCEL_GAP_INVALID")
          /\ ~cancelled => old = Entry(e, p) /\ new = Entry(e, f)
      BY <1>3, <2>1 DEF CompleteEvent
    <2>3. /\ Holding(e, p).result # "CENSORED" => Holding(e, f) = Holding(e, p)
          /\ HoldingOn(e, p).result # "CENSORED" => HoldingOn(e, f) = HoldingOn(e, p)
      BY <1>3, HoldingStays
    <2>4. /\ Entry(e, p).result # "CENSORED" => Entry(e, f) = Entry(e, p)
          /\ Entry(e, p).fill = "FILLED" =>
               Entry(e, f).type = Entry(e, p).type /\ Entry(e, f).price = Entry(e, p).price
      <3>1. CASE e.label = "B2_READY"
        <4>1. Entry(e, p) = BreakoutEntry(e, p) /\ Entry(e, f) = BreakoutEntry(e, f)
          BY <3>1 DEF Entry
        <4>2. CASE first.open >= e.s1
          BY <2>1, <4>1, <4>2 DEF BreakoutEntry
        <4>3. CASE ~(first.open >= e.s1) /\ first.open >= e.trigger
          BY <2>1, <2>3, <4>1, <4>3 DEF BreakoutEntry, Filled
        <4>4. CASE ~(first.open >= e.s1) /\ ~(first.open >= e.trigger)
                     /\ first.high < e.trigger
          BY <2>1, <4>1, <4>4 DEF BreakoutEntry
        <4>5. CASE ~(first.open >= e.s1) /\ ~(first.open >= e.trigger)
                     /\ ~(first.high < e.trigger)
          BY <2>1, <2>3, <4>1, <4>5 DEF BreakoutEntry, Filled, OnFirst
        <4> QED BY <4>2, <4>3, <4>4, <4>5
      <3>2. CASE e.label # "B2_READY"
        <4>1. Entry(e, p) = LimitEntry(e, p) /\ Entry(e, f) = LimitEntry(e, f)
          BY <3>2 DEF Entry
        <4>2. CASE first.open <= e.preferred
          BY <2>1, <2>3, <4>1, <4>2 DEF LimitEntry, Filled
        <4>3. CASE ~(first.open <= e.preferred) /\ first.low > e.preferred
          BY <2>1, <4>1, <4>3 DEF LimitEntry
        <4>4. CASE ~(first.open <= e.preferred) /\ ~(first.low > e.preferred)
          BY <2>1, <2>3, <4>1, <4>4 DEF LimitEntry, Filled, OnFirst
        <4> QED BY <4>2, <4>3, <4>4
      <3> QED BY <3>1, <3>2
    <2> QED BY <2>2, <2>4 DEF Unfilled
  <1> QED BY <1>1, <1>2, <1>3

-----------------------------------------------------------------------------
(* What a day's plan is, of any signal the engine evaluates *)

\* The room of an emitted signal is that of the levels it shows.
LEMMA EmittedRoom ==
    ASSUME NEW b, NEW a, NEW stage, NEW levels, NEW trigger, NEW reasons, NEW events,
           signal' = Emit(b.date, a, b, stage, levels, trigger, reasons, events)
    PROVE  signal'.room = EntryRoom(signal'.stage, b, signal'.trigger, signal'.s1)
  BY DEF Emit

\* So the room of a signal is always read from what the signal itself carries.
LEMMA RoomOfSignal ==
    ASSUME NEW b, NEW k, Evaluate(b, k)
    PROVE  signal'.room = EntryRoom(signal'.stage, b, signal'.trigger, signal'.s1)
  <1>1. CASE EvaluateNormal(b, k)
    BY <1>1 DEF EvaluateNormal, Normal, EntryRoom, Actionable
  <1>2. CASE EvaluateInvalid(b, k)
    BY <1>2, EmittedRoom DEF EvaluateInvalid
  <1>3. CASE EvaluateAnchor(b, k)
    BY <1>3, EmittedRoom DEF EvaluateAnchor
  <1>4. CASE EvaluateConfirmed(b, k)
    BY <1>4, EmittedRoom DEF EvaluateConfirmed
  <1>5. CASE EvaluateHeld(b, k)
    BY <1>5, EmittedRoom DEF EvaluateHeld
  <1>6. CASE EvaluateTriggered(b, k)
    BY <1>6, EmittedRoom DEF EvaluateTriggered
  <1>7. CASE EvaluateB1(b, k)
    BY <1>7, EmittedRoom DEF EvaluateB1
  <1>8. CASE EvaluateWatch(b, k)
    BY <1>8, EmittedRoom DEF EvaluateWatch
  <1> QED BY <1>1, <1>2, <1>3, <1>4, <1>5, <1>6, <1>7, <1>8 DEF Evaluate

\* The plan of an entry has its prices, and room below the target whenever the
\* signal is a candidate.
LEMMA EntryPlanSound ==
    ASSUME IInv, NEW b \in Bars, NEW k \in {"quiet", "anchor", "board"},
           Evaluate(b, k), signal'.stage \in Actionable, NEW usable \in BOOLEAN
    PROVE  EventSound(FreezeEvent(signal', EntryPlan(signal', b, usable), usable))
  <1> DEFINE s == signal'
             plan == EntryPlan(s, b, usable)
             e == FreezeEvent(s, plan, usable)
             zone == Zone(s.support.price)
  <1>1. IInv'
    BY SetupMoves
  <1>2. /\ s.support \in Levels /\ s.invalid \in Levels
        /\ s.s1 \in Maybe(Levels) /\ s.trigger \in Maybe(Levels)
        /\ s.stage \in B2Stages => s.trigger \in Levels
    <2>1. s \in Signals /\ s.support # None /\ s.invalid # None
          /\ (s.stage \in B2Stages => s.trigger # None)
      BY <1>1 DEF IInv, TypeOK, Staged, FloorFrozen
    <2> QED BY <2>1 DEF Signals
  <1>3. /\ \A l \in Levels : l.price \in Int /\ PriceOf(l) = l.price
        /\ PriceOf(None) = None /\ None \notin Int
    BY NoneAssumption DEF Levels, PriceOf
  <1>4. s.room = EntryRoom(s.stage, b, s.trigger, s.s1)
    BY RoomOfSignal
  <1>5. b.close \in Int /\ HalfZone \in Nat
    BY BarTypes, PlanAssumption
  <1> HIDE DEF s
  <1>6. zone.low \in Int /\ zone.center \in zone.low .. zone.high /\ zone.center \in Int
    BY <1>2, <1>3, <1>5 DEF Zone
  <1>7. PreferredInBuyZone(b.close, zone) \in {b.close, zone.center}
        /\ PreferredInBuyZone(b.close, zone) \in zone.low .. zone.high
    BY <1>6 DEF PreferredInBuyZone
  <1>8. /\ plan.label = s.stage /\ plan.zone = zone
        /\ plan.invalid = s.invalid.price /\ plan.s1 = PriceOf(s.s1)
        /\ plan.trigger = IF s.stage \in B2Stages THEN s.trigger.price ELSE None
        /\ plan.actionable => IsEntryCandidate(s, usable)
        /\ s.stage = "B1_READY" => plan.preferred = PreferredInBuyZone(b.close, zone)
        /\ s.stage = "B2_READY" => plan.preferred = s.trigger.price
        /\ s.stage = "B2_CONFIRMED" => plan.preferred = b.close
    BY DEF EntryPlan, B2Stages
  <1> HIDE DEF plan, zone
  <1>9. /\ e.label = s.stage /\ e.zone = zone /\ e.preferred = plan.preferred
        /\ e.invalid = plan.invalid /\ e.s1 = plan.s1 /\ e.trigger = plan.trigger
        /\ e.actionable = plan.actionable /\ e.usable = usable
        /\ e.candidate => IsEntryCandidate(s, usable)
    BY <1>8 DEF FreezeEvent
  <1> HIDE DEF e
  <1>10. e.label \in Actionable /\ e.label \in {"B1_READY", "B2_READY", "B2_CONFIRMED"}
    BY <1>9 DEF s, Actionable
  <1>11. /\ e.invalid \in Int /\ e.s1 \in Maybe(Int) /\ e.trigger \in Maybe(Int)
         /\ e.label = "B2_READY" =>
              e.trigger \in Int /\ e.trigger = s.trigger.price /\ e.preferred = e.trigger
    BY <1>2, <1>3, <1>8, <1>9 DEF B2Stages
  <1>12. e.preferred \in Int
    BY <1>2, <1>3, <1>5, <1>6, <1>7, <1>8, <1>9, <1>10 DEF B2Stages
  <1>13. ValidPlan(e)
    <2>1. e.label = "B1_READY" => e.preferred \in e.zone.low .. e.zone.high
      BY <1>7, <1>8, <1>9
    <2>2. e.actionable => e.usable
      BY <1>8, <1>9 DEF IsEntryCandidate
    <2> QED BY <1>10, <2>1, <2>2 DEF ValidPlan
  <1>14. RoomBelowTarget(e)
    <2> SUFFICES ASSUME e.candidate, e.s1 # None
                 PROVE  /\ e.label = "B2_READY" => e.trigger < e.s1
                        /\ e.label \in {"B1_READY", "B2_CONFIRMED"} =>
                             \/ e.preferred < e.s1
                             \/ e.label = "B1_READY" /\ e.preferred = e.zone.center
      BY DEF RoomBelowTarget
    <2>1. s.room # "NONE" /\ s.s1 \in Levels /\ e.s1 = s.s1.price /\ s.s1 # None
          /\ s.s1.price \in Int
      BY <1>2, <1>3, <1>8, <1>9 DEF IsEntryCandidate
    <2> DEFINE reference == IF s.stage = "B2_READY" /\ s.trigger.price > b.close
                            THEN s.trigger.price ELSE b.close
    <2>2. s.s1.price > reference
      <3>1. s.stage \in Actionable
        BY <1>9, <1>10
      <3>2. reference \in Int
        BY <1>2, <1>3, <1>5 DEF B2Stages
      <3>3. ~(s.s1.price <= reference)
        BY <1>4, <2>1, <3>1 DEF EntryRoom
      <3> QED BY <2>1, <3>2, <3>3
    <2>3. CASE s.stage = "B2_READY"
      <3>1. s.trigger.price \in Int
        BY <1>2, <1>3, <2>3 DEF B2Stages
      <3> QED BY <1>5, <1>9, <1>11, <2>1, <2>2, <2>3, <3>1
    <2>4. CASE s.stage # "B2_READY"
      BY <1>5, <1>7, <1>8, <1>9, <1>10, <2>1, <2>2, <2>4
    <2> QED BY <2>3, <2>4
  <1> QED BY <1>10, <1>11, <1>12, <1>13, <1>14 DEF EventSound, e, plan, s

\* Whatever the day's bars show, the event frozen from its plan is sound.
LEMMA PlanSound ==
    ASSUME IInv, NEW b \in Bars, NEW k \in {"quiet", "anchor", "board"},
           Evaluate(b, k), NEW support \in ComputedSupports(signal', b),
           NEW usable \in BOOLEAN, NEW fit \in BOOLEAN,
           BuildTradePlan(signal', b, support, usable, fit).label # "WATCH_ONLY"
    PROVE  EventSound(FreezeEvent(signal', BuildTradePlan(signal', b, support, usable, fit),
                                  usable))
  <1> DEFINE plan == BuildTradePlan(signal', b, support, usable, fit)
             prepared == Prepared(signal', b, support, usable, fit)
  <1>1. CASE prepared
    <2>1. plan = PrepPlan(b, support)
      BY <1>1 DEF BuildTradePlan, Label
    <2>2. signal'.stage = "WATCH_PULLBACK" /\ usable /\ support # None
      BY <1>1 DEF Prepared, NearSupport
    <2>3. support \in Int
      BY <2>2 DEF ComputedSupports, Supports, Prices
    <2> DEFINE e == FreezeEvent(signal', plan, usable)
    <2>4. /\ e.label = "B1_PREP" /\ e.zone = Zone(support)
          /\ e.preferred = support + HalfZone /\ e.invalid = support - InvalidGap
          /\ e.s1 = None /\ e.trigger = None /\ e.usable = usable
      BY <2>1 DEF FreezeEvent, PrepPlan, Zone
    <2>5. HalfZone \in Nat /\ InvalidGap \in Nat
      BY PlanAssumption, GapAssumption
    <2> HIDE DEF e
    <2>6. e.preferred \in Int /\ e.invalid \in Int
          /\ e.preferred \in e.zone.low .. e.zone.high
      BY <2>3, <2>4, <2>5 DEF Zone
    <2> QED BY <2>2, <2>4, <2>6 DEF EventSound, ValidPlan, RoomBelowTarget, e
  <1>2. CASE ~prepared
    <2>1. signal'.stage \in Actionable
      <3>1. Label(signal', prepared) = IF signal'.stage \in Actionable THEN signal'.stage
                                       ELSE "WATCH_ONLY"
        BY <1>2 DEF Label
      <3>2. Label(signal', prepared) = "WATCH_ONLY" => plan.label = "WATCH_ONLY"
        BY DEF BuildTradePlan, WatchOnly
      <3> QED BY <3>1, <3>2
    <2>2. plan = EntryPlan(signal', b, usable)
      <3>1. Label(signal', prepared) \notin {"B1_PREP", "WATCH_ONLY"}
        BY <1>2, <2>1 DEF Label, Actionable
      <3> QED BY <3>1 DEF BuildTradePlan
    <2> QED BY <2>1, <2>2, EntryPlanSound
  <1> QED BY <1>1, <1>2

-----------------------------------------------------------------------------
(* The invariant of the study *)

LEMMA StudyStarts == StudyInit => SInv
  <1> SUFFICES ASSUME StudyInit PROVE SInv
    OBVIOUS
  <1>1. IInv
    BY Initial DEF StudyInit
  <1>2. future \in Seq(SessionBars) /\ Len(future) = 0
    BY DEF StudyInit
  <1> QED BY <1>1, <1>2 DEF StudyInit, SInv, EpisodeFollows

\* A day is evaluated and planned while no event is followed.
LEMMA DayKeepsStudy ==
    ASSUME SInv, NEW b \in Bars, NEW k \in {"quiet", "anchor", "board"},
           ReplayCode(b, k)
    PROVE  SInv'
  <1>1. /\ event = None /\ Evaluate(b, k) /\ IInv
        /\ UNCHANGED <<future, artifact, studied, episode, execution>>
    BY DEF ReplayCode, SInv
  <1>2. IInv'
    BY <1>1, SetupMoves
  <1>3. event' # None => EventSound(event')
    <2> SUFFICES ASSUME event' # None PROVE EventSound(event')
      OBVIOUS
    <2>1. PICK support \in ComputedSupports(signal', b), usable \in BOOLEAN,
               fit \in BOOLEAN :
            LET plan == BuildTradePlan(signal', b, support, usable, fit)
                key == <<signal'.setup, plan.label>>
            IN  IF b.date < start \/ plan.label = "WATCH_ONLY" \/ key \in seen
                  THEN UNCHANGED <<seen, event>>
                ELSE /\ seen' = seen \cup {key}
                     /\ event' \in {None, FreezeEvent(signal', plan, usable)}
      BY DEF ReplayCode
    <2> DEFINE plan == BuildTradePlan(signal', b, support, usable, fit)
    <2>2. plan.label # "WATCH_ONLY" /\ event' = FreezeEvent(signal', plan, usable)
      BY <1>1, <2>1
    <2> QED BY <1>1, <2>2, PlanSound
  <1>4. artifact = "none"
    BY <1>1 DEF SInv, EpisodeFollows
  <1> QED BY <1>1, <1>2, <1>3, <1>4 DEF SInv, EpisodeFollows

\* The sessions that an episode was read from stay what they were.
LEMMA SessionKeepsStudy ==
    ASSUME SInv, NEW bar \in SessionBars, PublishSession(bar)
    PROVE  SInv'
  <1>1. /\ event # None /\ future' = Append(future, bar) /\ UNCHANGED vars
        /\ UNCHANGED <<event, artifact, studied, episode>>
    BY DEF PublishSession
  <1>2. future \in Seq(SessionBars) /\ Len(future) \in Nat /\ studied \in 0 .. Len(future)
        /\ studied \in Nat
    BY DEF SInv
  <1>3. /\ future' \in Seq(SessionBars) /\ Len(future') = Len(future) + 1
        /\ \A i \in 1 .. Len(future) : future'[i] = future[i]
    BY <1>1, <1>2
  <1>4. Begins(future, future')
    BY <1>2, <1>3 DEF Begins
  <1>5. Sessions(future, studied) = Sessions(future', studied)
    BY <1>2, <1>4, HorizonGrows
  <1>6. IInv'
    <2>1. UNCHANGED vars /\ IInv
      BY <1>1 DEF SInv
    <2> QED BY <2>1, Inductive
  <1>7. studied' \in 0 .. Len(future')
    BY <1>1, <1>2, <1>3
  <1> QED BY <1>1, <1>3, <1>5, <1>6, <1>7
      DEF SInv, EpisodeFollows, SessionsRead

\* All the sessions, read as those up to the last.
LEMMA AllSessions ==
    ASSUME NEW f \in Seq(SessionBars)
    PROVE  Sessions(f, Len(f)) = f
  <1>1. Sessions(f, Len(f)) \in Seq(SessionBars) /\ Len(f) \in Nat
        /\ Len(Sessions(f, Len(f))) = Len(f)
        /\ \A i \in 1 .. Len(f) : Sessions(f, Len(f))[i] = f[i]
    <2>1. Len(f) \in Nat
      OBVIOUS
    <2>2. ~(Len(f) < Len(f))
      BY <2>1
    <2> QED BY <2>1, <2>2, SessionsAre
  <1> QED BY <1>1

\* An episode that is written of some of the sessions follows from them.
LEMMA WritingKeepsStudy ==
    ASSUME SInv, event # None, NEW kind \in {"baseline", "study", "corrected"},
           NEW outcome, NEW n \in 0 .. Len(future),
           WriteEpisode(kind, outcome, Sessions(future, n)),
           kind # "baseline" \/ event.label # "B2_READY" =>
             outcome = CompleteEvent(event, Sessions(future, n))
    PROVE  SInv'
  <1>1. future \in Seq(SessionBars) /\ Len(future) \in Nat /\ n \in Nat
    BY DEF SInv
  <1>2. Len(Sessions(future, n)) = n
    <2>1. Len(Sessions(future, n)) = IF n < Len(future) THEN n ELSE Len(future)
      BY <1>1, SessionsAre
    <2> QED BY <1>1, <2>1
  <1>3. /\ artifact' = kind /\ studied' = n
        /\ episode' = Labels(outcome, Sessions(future, n))
        /\ UNCHANGED vars /\ UNCHANGED <<event, future>>
    BY <1>2 DEF WriteEpisode
  <1>4. /\ episode'.outcome = outcome
        /\ episode'.patterns = Patterns(event, Sessions(future, n))
        /\ episode'.conversions = Conversions(event, Sessions(future, n))
    BY <1>3 DEF Labels
  <1>5. IInv'
    BY <1>3, Inductive DEF SInv
  <1>6. EpisodeFollows'
    BY <1>3, <1>4 DEF EpisodeFollows, SessionsRead
  <1> QED BY <1>3, <1>5, <1>6 DEF SInv

\* The three runs that write episodes, and the one that reads its exits.
LEMMA RunsKeepStudy ==
    ASSUME SInv, BaselineStudy \/ Study \/ Relabel \/ Execute
    PROVE  SInv'
  <1>0. /\ future \in Seq(SessionBars) /\ Len(future) \in Nat
        /\ Sessions(future, Len(future)) = future /\ Len(future) \in 0 .. Len(future)
        /\ studied \in 0 .. Len(future)
    BY AllSessions DEF SInv
  <1>1. CASE BaselineStudy
    <2> DEFINE outcome == IF ~Complete(event) \/ event.preferred <= event.invalid
                            THEN Unfilled("NO_FILL")
                          ELSE IF future = <<>> THEN Unfilled("CENSORED")
                          ELSE IF future[1].open <= event.invalid
                            THEN Unfilled("CANCEL_GAP_INVALID")
                          ELSE LimitEntry(event, future)
    <2>1. event # None /\ WriteEpisode("baseline", outcome, future)
      BY <1>1 DEF BaselineStudy
    <2>2. EventSound(event)
      BY <2>1 DEF SInv
    <2>3. ASSUME event.label # "B2_READY" PROVE outcome = CompleteEvent(event, future)
      <3>1. Tradable(event) <=> Complete(event) /\ event.preferred > event.invalid
        BY <2>3 DEF Tradable
      <3>2. ~(event.preferred > event.invalid) <=> event.preferred <= event.invalid
        BY <2>2 DEF EventSound
      <3>3. Entry(event, future) = LimitEntry(event, future)
        BY <2>3 DEF Entry
      <3> QED BY <3>1, <3>2, <3>3 DEF CompleteEvent
    <2> HIDE DEF outcome
    <2>4. "baseline" # "baseline" \/ event.label # "B2_READY" =>
            outcome = CompleteEvent(event, Sessions(future, Len(future)))
      BY <1>0, <2>3
    <2>5. WriteEpisode("baseline", outcome, Sessions(future, Len(future)))
      BY <1>0, <2>1
    <2> QED BY <1>0, <2>1, <2>4, <2>5, WritingKeepsStudy
  <1>2. CASE Study
    <2>1. event # None /\ WriteEpisode("study", CompleteEvent(event, future),
                                       Sessions(future, Len(future)))
      BY <1>0, <1>2 DEF Study
    <2> QED BY <1>0, <2>1, WritingKeepsStudy
  <1>3. CASE Relabel
    <2>1. artifact = "baseline" /\ event # None
          /\ WriteEpisode("corrected", Relabelled(SessionsRead), Sessions(future, studied))
      BY <1>3 DEF Relabel, SInv, EpisodeFollows, SessionsRead
    <2>2. Relabelled(SessionsRead) = CompleteEvent(event, Sessions(future, studied))
      BY <2>1 DEF Relabelled, SInv, EpisodeFollows, SessionsRead
    <2> QED BY <1>0, <2>1, <2>2, WritingKeepsStudy
  <1>4. CASE Execute
    <2>1. UNCHANGED <<vars, event, future, artifact, studied, episode>>
      BY <1>4 DEF Execute
    <2>2. IInv'
      BY <2>1, Inductive DEF SInv
    <2> QED BY <2>1, <2>2 DEF SInv, EpisodeFollows, SessionsRead
  <1> QED BY <1>1, <1>2, <1>3, <1>4

LEMMA StudyInductive == SInv /\ [StudyNext]_studyVars => SInv'
  <1> SUFFICES ASSUME SInv, [StudyNext]_studyVars PROVE SInv'
    OBVIOUS
  <1>1. CASE StudyNext
    BY <1>1, DayKeepsStudy, SessionKeepsStudy, RunsKeepStudy DEF StudyNext
  <1>2. CASE UNCHANGED studyVars
    <2>1. UNCHANGED <<vars, event, future, artifact, studied, episode>>
      BY <1>2 DEF studyVars, followed
    <2>2. IInv'
      BY <2>1, Inductive DEF SInv
    <2> QED BY <2>1, <2>2 DEF SInv, EpisodeFollows, SessionsRead
  <1> QED BY <1>1, <1>2

LEMMA StudyInvariance == StudySpec => []SInv
  BY StudyStarts, StudyInductive, PTL DEF StudySpec

-----------------------------------------------------------------------------
(* The properties of the study *)

\* No event of any days, supports and conditions makes the study raise: its
\* plan is valid, and an actionable breakout has room up to its target.
THEOREM NoStudyRaises == StudySpec => []StudyCompletes
  <1>1. SInv => StudyCompletes
    <2> SUFFICES ASSUME SInv, event # None PROVE ValidPlan(event) /\ ~Aborts(event)
      BY DEF StudyCompletes
    <2>1. EventSound(event)
      BY DEF SInv
    <2>2. ASSUME Aborts(event) PROVE FALSE
      <3>1. event.candidate /\ event.s1 # None /\ event.trigger < event.s1
        BY <2>1, <2>2 DEF Aborts, Complete, EventSound, RoomBelowTarget
      <3>2. event.s1 \in Int /\ event.trigger \in Int /\ event.s1 <= event.trigger
        BY <2>1, <2>2, <3>1 DEF Aborts, EventSound
      <3> QED BY <3>1, <3>2
    <2> QED BY <2>1, <2>2 DEF EventSound
  <1> QED BY <1>1, StudyInvariance, PTL

\* A candidate that wins was bought below its target, whichever way the first
\* session filled it.
LEMMA WinIsPaid ==
    ASSUME NEW e, EventSound(e), NEW f \in Seq(SessionBars),
           CompleteEvent(e, f).result = "WIN", e.candidate
    PROVE  \/ CompleteEvent(e, f).price < e.s1
           \/ e.label = "B1_READY" /\ e.preferred = e.zone.center
  <1>1. Tradable(e) /\ f # <<>> /\ CompleteEvent(e, f) = Entry(e, f)
    BY DEF CompleteEvent, Unfilled
  <1>2. f[1] \in SessionBars
    BY <1>1
  <1> DEFINE first == f[1]
  <1>3. first.open \in Int
    BY <1>2, SessionAssumption
  <1> HIDE DEF first
  <1>4. e.s1 # None /\ e.s1 \in Int /\ e.preferred \in Int /\ e.label # "B1_PREP"
    BY <1>1 DEF Tradable, Complete, EventSound
  <1>5. CASE e.label = "B2_READY"
    <2>1. e.trigger < e.s1
      BY <1>4, <1>5 DEF EventSound, RoomBelowTarget
    <2>2. CompleteEvent(e, f) = BreakoutEntry(e, f)
      BY <1>1, <1>5 DEF Entry
    <2>3. \/ CompleteEvent(e, f).price = first.open /\ ~(first.open >= e.s1)
          \/ CompleteEvent(e, f).price = e.trigger
      BY <2>2 DEF BreakoutEntry, Filled, Unfilled, first
    <2> QED BY <1>3, <1>4, <2>1, <2>3
  <1>6. CASE e.label # "B2_READY"
    <2>1. CompleteEvent(e, f) = LimitEntry(e, f)
      BY <1>1, <1>6 DEF Entry
    <2>2. \/ CompleteEvent(e, f).price = first.open /\ first.open <= e.preferred
          \/ CompleteEvent(e, f).price = e.preferred
      BY <2>1 DEF LimitEntry, Filled, Unfilled, first
    <2>3. e.label \in {"B1_READY", "B2_CONFIRMED"}
      BY <1>4, <1>6 DEF EventSound, Actionable
    <2>4. \/ e.preferred < e.s1
          \/ e.label = "B1_READY" /\ e.preferred = e.zone.center
      BY <1>4, <2>3 DEF EventSound, RoomBelowTarget
    <2> QED BY <1>3, <1>4, <2>2, <2>4
  <1> QED BY <1>5, <1>6

\* An actionable event that won was paid less than its target, unless it was a
\* B1 whose zone ends above the close of its day.
THEOREM WinsArePaid == StudySpec => []PaidWins
  <1>1. SInv => PaidWins
    <2> SUFFICES ASSUME SInv, episode # None, artifact # "baseline",
                        episode.outcome.result = "WIN", event.candidate
                 PROVE  \/ episode.outcome.price < event.s1
                        \/ event.label = "B1_READY" /\ event.preferred = event.zone.center
      BY DEF PaidWins
    <2>1. event # None /\ episode.outcome = CompleteEvent(event, SessionsRead)
      BY DEF SInv, EpisodeFollows
    <2>2. EventSound(event) /\ SessionsRead \in Seq(SessionBars)
      <3>1. future \in Seq(SessionBars) /\ studied \in Nat
        BY DEF SInv
      <3> QED BY <2>1, <3>1, SessionsAre DEF SInv, SessionsRead
    <2> QED BY <2>1, <2>2, WinIsPaid
  <1> QED BY <1>1, StudyInvariance, PTL

\* More sessions uphold what an episode had decided.
LEMMA MoreUpholdFewer ==
    ASSUME NEW e, NEW p, NEW f, Begins(p, f), NEW old, NEW new,
           old.outcome = CompleteEvent(e, p), new.outcome = CompleteEvent(e, f),
           old.patterns = Patterns(e, p), new.patterns = Patterns(e, f),
           old.conversions = Conversions(e, p), new.conversions = Conversions(e, f)
    PROVE  Upholds(new, old)
  <1>1. /\ old.outcome.result # "CENSORED" => new.outcome = old.outcome
        /\ old.outcome.fill = "FILLED" =>
             new.outcome.type = old.outcome.type /\ new.outcome.price = old.outcome.price
    BY OutcomeStays
  <1>2. /\ p \in Seq(SessionBars) /\ f \in Seq(SessionBars)
        /\ Len(p) \in Nat /\ Len(f) \in Nat /\ Len(p) <= Len(f)
    BY DEF Begins
  <1>3. ASSUME old.patterns # None, NEW h \in Horizons, old.patterns[h] # "CENSORED"
        PROVE  new.patterns[h] = old.patterns[h]
    <2>1. h \in Nat
      BY HoldingAssumption
    <2>2. CASE e.s1 = None \/ e.invalid = None
      BY <1>3, <2>2 DEF Patterns
    <2>3. CASE ~(e.s1 = None \/ e.invalid = None)
      <3>1. old.patterns[h] = Race(e, Sessions(p, h), h).result
            /\ new.patterns[h] = Race(e, Sessions(f, h), h).result
        BY <2>3 DEF Patterns, Pattern
      <3>2. Begins(Sessions(p, h), Sessions(f, h)) /\ Len(Sessions(f, h)) <= h
        BY <1>2, <2>1, HorizonGrows, SessionsAre
      <3> QED BY <1>3, <2>1, <3>1, <3>2, RaceStays
    <2> QED BY <2>2, <2>3
  <1>4. ASSUME old.conversions # None, NEW h \in PrepHorizons \ {1},
               old.conversions[h] # None
        PROVE  new.conversions[h] = old.conversions[h]
    <2>1. h \in Nat /\ h > 1
      BY HoldingAssumption
    <2>2. CASE e.label # "B1_PREP"
      BY <1>4, <2>2 DEF Conversions
    <2>3. CASE e.label = "B1_PREP"
      <3>1. old.conversions[h] = (IF h > 1 /\ Len(p) < h THEN None
                                  ELSE \E i \in DOMAIN Sessions(p, h) : p[i].b1)
            /\ new.conversions[h] = (IF h > 1 /\ Len(f) < h THEN None
                                     ELSE \E i \in DOMAIN Sessions(f, h) : f[i].b1)
        BY <2>3 DEF Conversions
      <3>2. Len(p) >= h /\ Len(f) >= h
        <4>1. ~(h > 1 /\ Len(p) < h)
          BY <1>4, <3>1, Zenon
        <4> HIDE <3>1
        <4> QED BY <1>2, <2>1, <4>1
      <3>3. Sessions(p, h) = Sessions(f, h)
            /\ DOMAIN Sessions(p, h) = 1 .. Len(Sessions(p, h))
            /\ \A i \in 1 .. Len(Sessions(p, h)) : p[i] = f[i]
        <4>1. Sessions(p, h) = Sessions(f, h)
          BY <2>1, <3>2, HorizonGrows
        <4>2. /\ DOMAIN Sessions(p, h) = 1 .. Len(Sessions(p, h))
              /\ \A i \in 1 .. Len(Sessions(p, h)) : Sessions(p, h)[i] = p[i]
          BY <1>2, <2>1, SessionsAre
        <4>3. \A i \in 1 .. Len(Sessions(f, h)) : Sessions(f, h)[i] = f[i]
          BY <1>2, <2>1, SessionsAre
        <4> QED BY <4>1, <4>2, <4>3
      <3>4. (\E i \in DOMAIN Sessions(p, h) : p[i].b1)
              <=> (\E i \in DOMAIN Sessions(f, h) : f[i].b1)
        BY <3>3
      <3>5. ~(h > 1 /\ Len(p) < h) /\ ~(h > 1 /\ Len(f) < h)
        BY <1>2, <2>1, <3>2
      <3> QED BY <3>1, <3>4, <3>5
    <2> QED BY <2>2, <2>3
  <1> QED BY <1>1, <1>3, <1>4, Zenon DEF Upholds

\* Whatever sessions come and however often studies and relabels are run, what
\* an episode has decided of its event is never changed.
THEOREM DecidedIsFinal == StudySpec => ResultsFinal
  <1>1. SInv /\ [StudyNext]_studyVars =>
          [episode # None /\ artifact # "baseline" => Upholds(episode', episode)]_studyVars
    <2> SUFFICES ASSUME SInv, StudyNext, episode # None, artifact # "baseline"
                 PROVE  Upholds(episode', episode)
      OBVIOUS
    <2>1. CASE episode' = episode
      BY <2>1 DEF Upholds
    <2>2. CASE Study
      <3>1. /\ artifact # "none" /\ event # None
            /\ future \in Seq(SessionBars) /\ studied \in Nat
        BY DEF SInv, EpisodeFollows
      <3>2. /\ episode.outcome = CompleteEvent(event, SessionsRead)
            /\ episode.patterns = Patterns(event, SessionsRead)
            /\ episode.conversions = Conversions(event, SessionsRead)
        BY <3>1 DEF SInv, EpisodeFollows
      <3>3. episode' = Labels(CompleteEvent(event, future), future)
        BY <2>2 DEF Study, WriteEpisode
      <3>4. /\ episode'.outcome = CompleteEvent(event, future)
            /\ episode'.patterns = Patterns(event, future)
            /\ episode'.conversions = Conversions(event, future)
        BY <3>3 DEF Labels
      <3>5. Begins(SessionsRead, future)
        BY <3>1, SessionsAre DEF SessionsRead
      <3> QED BY <3>2, <3>4, <3>5, MoreUpholdFewer
    <2>3. ASSUME NEW b \in Bars, NEW k \in {"quiet", "anchor", "board"},
                 ReplayCode(b, k)
          PROVE  episode' = episode
      BY <2>3 DEF ReplayCode
    <2>4. ASSUME NEW bar \in SessionBars, PublishSession(bar) PROVE episode' = episode
      BY <2>4 DEF PublishSession
    <2>5. ~BaselineStudy /\ ~Relabel
      BY DEF BaselineStudy, Relabel, SInv
    <2>6. Execute => episode' = episode
      BY DEF Execute
    <2> QED BY <2>1, <2>2, <2>3, <2>4, <2>5, <2>6 DEF StudyNext
  <1> QED BY <1>1, StudyInvariance, PTL DEF StudySpec, ResultsFinal

-----------------------------------------------------------------------------
(* The exits of an event under T+1 *)

Touches(e, bar) == HitsTarget(e, bar) \/ HitsInvalid(e, bar)

Decided == {"WIN", "LOSS", "AMBIGUOUS"}

\* What a result says of the session that decided it.
Shows(e, bar, result) ==
    /\ Touches(e, bar)
    /\ result = "WIN" => ~HitsInvalid(e, bar)
    /\ result = "LOSS" => ~HitsTarget(e, bar)

\* What the result of a race says of its window.
LEMMA RaceMeans ==
    ASSUME NEW e, NEW w \in Seq(SessionBars), NEW length \in Nat
    PROVE  LET r == Race(e, w, length)
           IN  /\ r.result = "TIMEOUT" =>
                    Len(w) >= length /\ \A i \in 1 .. Len(w) : ~Touches(e, w[i])
               /\ r.result \in Decided =>
                    /\ r.at \in 1 .. Len(w)
                    /\ \A i \in 1 .. Len(w) : i < r.at => ~Touches(e, w[i])
                    /\ Shows(e, w[r.at], r.result)
  <1> DEFINE hits == {i \in DOMAIN w : HitsTarget(e, w[i]) \/ HitsInvalid(e, w[i])}
             r == Race(e, w, length)
  <1>1. DOMAIN w = 1 .. Len(w) /\ Len(w) \in Nat
    OBVIOUS
  <1>2. \A i \in 1 .. Len(w) : i \in hits <=> Touches(e, w[i])
    BY <1>1 DEF Touches
  <1>3. CASE hits = {}
    <2>1. \A i \in 1 .. Len(w) : ~Touches(e, w[i])
      BY <1>2, <1>3
    <2>2. r.result \in {"CENSORED", "TIMEOUT"}
          /\ (r.result = "TIMEOUT" => ~(Len(w) < length))
      BY <1>3 DEF Race
    <2>3. ~(Len(w) < length) => Len(w) >= length
      BY <1>1
    <2> HIDE DEF r
    <2>4. /\ r.result = "TIMEOUT" =>
               Len(w) >= length /\ \A i \in 1 .. Len(w) : ~Touches(e, w[i])
          /\ r.result \notin Decided
      BY <2>1, <2>2, <2>3 DEF Decided
    <2> QED BY <2>4 DEF r
  <1>4. CASE hits # {}
    <2>1. First(hits) \in hits /\ \A x \in hits : First(hits) <= x
      <3>1. hits \in SUBSET Nat
        BY <1>1
      <3> HIDE DEF hits
      <3> QED BY <1>4, <3>1, FirstIsLeast
    <2> DEFINE n == First(hits)
               bar == w[n]
    <2>2. r = [result |-> IF HitsTarget(e, bar) /\ HitsInvalid(e, bar) THEN "AMBIGUOUS"
                          ELSE IF HitsTarget(e, bar) THEN "WIN" ELSE "LOSS",
               at |-> n]
      BY <1>4 DEF Race
    <2>3. n \in 1 .. Len(w) /\ (HitsTarget(e, bar) \/ HitsInvalid(e, bar))
      BY <1>1, <2>1
    <2>4. \A i \in 1 .. Len(w) : i < n => ~Touches(e, w[i])
      <3>1. \A i \in 1 .. Len(w) : i < n => ~(n <= i)
        BY <2>3
      <3> QED BY <1>2, <2>1, <3>1
    <2> HIDE DEF n, r, bar
    <2>5. r.at = n /\ r.result \in Decided /\ Shows(e, bar, r.result)
      BY <2>2, <2>3 DEF Decided, Shows, Touches
    <2>6. r.result # "TIMEOUT"
      BY <2>5 DEF Decided
    <2>7. /\ r.result # "TIMEOUT" /\ r.at \in 1 .. Len(w)
          /\ \A i \in 1 .. Len(w) : i < r.at => ~Touches(e, w[i])
          /\ Shows(e, w[r.at], r.result)
      BY <2>3, <2>4, <2>5, <2>6 DEF bar
    <2> QED BY <2>7 DEF r
  <1> QED BY <1>3, <1>4

\* What a held position came to, in the sessions after the first.
Held(e, f, r) ==
    /\ r.result = "TIMEOUT" =>
         /\ MaxHoldingSessions <= Len(f)
         /\ \A i \in 2 .. MaxHoldingSessions : ~Touches(e, f[i])
    /\ r.result \in Decided /\ r.at > 1 =>
         /\ r.at \in 2 .. MaxHoldingSessions /\ r.at <= Len(f)
         /\ \A i \in 2 .. MaxHoldingSessions : i < r.at => ~Touches(e, f[i])
         /\ Shows(e, f[r.at], r.result)

\* A position of the whole first session is held from that session on.
LEMMA HoldingMeans ==
    ASSUME NEW e, NEW f \in Seq(SessionBars), f # <<>>
    PROVE  /\ Held(e, f, Holding(e, f))
           /\ \/ Holding(e, f).result = "TIMEOUT"
              \/ Holding(e, f).result \in Decided /\ Holding(e, f).at > 1
              => ~HitsInvalid(e, f[1])
  <1> DEFINE w == Sessions(f, MaxHoldingSessions)
             r == Holding(e, f)
  <1>1. MaxHoldingSessions \in Nat \ {0} /\ Len(f) \in Nat \ {0}
    BY HoldingAssumption
  <1>2. /\ w \in Seq(SessionBars)
        /\ Len(w) = IF MaxHoldingSessions < Len(f) THEN MaxHoldingSessions ELSE Len(f)
        /\ \A i \in 1 .. Len(w) : w[i] = f[i]
    BY <1>1, SessionsAre
  <1>3. Len(w) \in Nat \ {0} /\ Len(w) <= Len(f) /\ Len(w) <= MaxHoldingSessions
    <2> HIDE DEF w
    <2> QED BY <1>1, <1>2
  <1>4. /\ r.result = "TIMEOUT" =>
             Len(w) >= MaxHoldingSessions /\ \A i \in 1 .. Len(w) : ~Touches(e, w[i])
        /\ r.result \in Decided =>
             /\ r.at \in 1 .. Len(w)
             /\ \A i \in 1 .. Len(w) : i < r.at => ~Touches(e, w[i])
             /\ Shows(e, w[r.at], r.result)
    <2> HIDE DEF w
    <2>1. /\ Race(e, w, MaxHoldingSessions).result = "TIMEOUT" =>
               Len(w) >= MaxHoldingSessions /\ \A i \in 1 .. Len(w) : ~Touches(e, w[i])
          /\ Race(e, w, MaxHoldingSessions).result \in Decided =>
               /\ Race(e, w, MaxHoldingSessions).at \in 1 .. Len(w)
               /\ \A i \in 1 .. Len(w) :
                    i < Race(e, w, MaxHoldingSessions).at => ~Touches(e, w[i])
               /\ Shows(e, w[Race(e, w, MaxHoldingSessions).at],
                        Race(e, w, MaxHoldingSessions).result)
      BY <1>1, <1>2, RaceMeans
    <2> QED BY <2>1 DEF Holding, w
  <1> HIDE DEF w, r
  <1>5. CASE r.result = "TIMEOUT"
    <2>1. Len(w) = MaxHoldingSessions
      BY <1>1, <1>3, <1>4, <1>5
    <2>2. \A i \in 1 .. MaxHoldingSessions : ~Touches(e, f[i])
      BY <1>2, <1>4, <1>5, <2>1
    <2>3. 1 \in 1 .. MaxHoldingSessions /\ \A i \in 2 .. MaxHoldingSessions : i \in 1 .. MaxHoldingSessions
      BY <1>1
    <2>4. ~HitsInvalid(e, f[1])
      BY <2>2, <2>3 DEF Touches
    <2> QED BY <1>3, <1>5, <2>1, <2>2, <2>3, <2>4 DEF Held, Decided, r
  <1>6. CASE r.result \in Decided /\ r.at > 1
    <2>1. r.at \in 2 .. MaxHoldingSessions /\ r.at <= Len(f) /\ r.at \in 1 .. Len(w)
      BY <1>1, <1>3, <1>4, <1>6
    <2>2. Shows(e, f[r.at], r.result)
      BY <1>2, <1>4, <1>6, <2>1
    <2>3. \A i \in 1 .. MaxHoldingSessions : i < r.at => i \in 1 .. Len(w)
      BY <1>1, <1>3, <2>1
    <2>4. \A i \in 1 .. MaxHoldingSessions : i < r.at => ~Touches(e, f[i])
      BY <1>2, <1>4, <1>6, <2>3
    <2>5. 1 \in 1 .. MaxHoldingSessions /\ 1 < r.at
          /\ \A i \in 2 .. MaxHoldingSessions : i \in 1 .. MaxHoldingSessions
      BY <1>1, <2>1
    <2>6. ~HitsInvalid(e, f[1])
      BY <2>4, <2>5 DEF Touches
    <2>7. r.result # "TIMEOUT"
      BY <1>6 DEF Decided
    <2> QED BY <2>1, <2>2, <2>4, <2>5, <2>6, <2>7 DEF Held, r
  <1>7. CASE ~(r.result = "TIMEOUT") /\ ~(r.result \in Decided /\ r.at > 1)
    BY <1>7 DEF Held, r
  <1> QED BY <1>5, <1>6, <1>7

\* A position taken during the first session is held from the second one on.
LEMMA HoldingOnMeans ==
    ASSUME NEW e, NEW f \in Seq(SessionBars), f # <<>>
    PROVE  Held(e, f, HoldingOn(e, f))
  <1> DEFINE length == MaxHoldingSessions - 1
             t == Tail(f)
             w == Sessions(t, length)
             rest == Race(e, w, length)
             r == HoldingOn(e, f)
  <1>1. MaxHoldingSessions \in Nat \ {0} /\ Len(f) \in Nat \ {0} /\ length \in Nat
    BY HoldingAssumption
  <1>2. /\ t \in Seq(SessionBars) /\ Len(t) = Len(f) - 1 /\ Len(t) \in Nat
        /\ \A i \in 1 .. Len(t) : t[i] = f[i + 1]
    OBVIOUS
  <1> HIDE DEF t
  <1>3. /\ w \in Seq(SessionBars)
        /\ Len(w) = IF length < Len(t) THEN length ELSE Len(t)
        /\ \A i \in 1 .. Len(w) : w[i] = t[i]
    <2> HIDE DEF length
    <2> QED BY <1>1, <1>2, SessionsAre
  <1>4. /\ rest.result = "TIMEOUT" =>
             Len(w) >= length /\ \A i \in 1 .. Len(w) : ~Touches(e, w[i])
        /\ rest.result \in Decided =>
             /\ rest.at \in 1 .. Len(w)
             /\ \A i \in 1 .. Len(w) : i < rest.at => ~Touches(e, w[i])
             /\ Shows(e, w[rest.at], rest.result)
    <2> HIDE DEF w, length
    <2> QED BY <1>1, <1>3, RaceMeans
  <1>5. r = (IF rest.at = None THEN rest ELSE [rest EXCEPT !.at = @ + 1])
    BY DEF HoldingOn, t
  <1>6. /\ rest.at = None <=> rest.result = "CENSORED"
        /\ rest.at # None => rest.at \in Nat
        /\ rest = [result |-> rest.result, at |-> rest.at]
    <2> HIDE DEF w, length
    <2> QED BY <1>1, <1>3, RaceDecides
  <1> HIDE DEF w, rest, r
  <1>7. r.result = rest.result /\ (rest.result # "CENSORED" => r.at = rest.at + 1)
    BY <1>5, <1>6
  <1>8. Len(w) \in Nat /\ Len(w) <= length /\ Len(w) <= Len(f) - 1
    BY <1>1, <1>2, <1>3
  <1>9. \A i \in 2 .. MaxHoldingSessions :
          i - 1 <= Len(w) => i - 1 \in 1 .. Len(w) /\ w[i - 1] = f[i]
    <2> SUFFICES ASSUME NEW i \in 2 .. MaxHoldingSessions, i - 1 <= Len(w)
                 PROVE  i - 1 \in 1 .. Len(w) /\ w[i - 1] = f[i]
      OBVIOUS
    <2>1. i \in Nat /\ i - 1 \in Nat /\ i - 1 >= 1 /\ (i - 1) + 1 = i
      BY <1>1
    <2>2. i - 1 \in 1 .. Len(w) /\ i - 1 \in 1 .. Len(t)
      BY <1>2, <1>8, <2>1
    <2>3. w[i - 1] = t[i - 1] /\ t[i - 1] = f[(i - 1) + 1]
      BY <1>2, <1>3, <2>2
    <2> QED BY <2>1, <2>2, <2>3
  <1>10. ASSUME r.result = "TIMEOUT"
         PROVE  /\ MaxHoldingSessions <= Len(f)
                /\ \A i \in 2 .. MaxHoldingSessions : ~Touches(e, f[i])
    <2>1. Len(w) = MaxHoldingSessions - 1 /\ MaxHoldingSessions <= Len(f)
      BY <1>1, <1>4, <1>7, <1>8, <1>10
    <2>2. ASSUME NEW i \in 2 .. MaxHoldingSessions PROVE ~Touches(e, f[i])
      <3>1. i - 1 <= Len(w)
        BY <1>1, <2>1
      <3>2. i - 1 \in 1 .. Len(w) /\ w[i - 1] = f[i]
        BY <1>9, <3>1
      <3>3. ~Touches(e, w[i - 1])
        BY <1>4, <1>7, <1>10, <3>2
      <3> QED BY <3>2, <3>3
    <2> QED BY <2>1, <2>2
  <1>11. ASSUME r.result \in Decided
         PROVE  /\ r.at \in 2 .. MaxHoldingSessions /\ r.at <= Len(f)
                /\ \A i \in 2 .. MaxHoldingSessions : i < r.at => ~Touches(e, f[i])
                /\ Shows(e, f[r.at], r.result)
    <2>1. /\ rest.at \in 1 .. Len(w) /\ r.at = rest.at + 1
          /\ Shows(e, w[rest.at], rest.result)
          /\ \A i \in 1 .. Len(w) : i < rest.at => ~Touches(e, w[i])
      BY <1>4, <1>7, <1>11 DEF Decided
    <2>2. r.at \in 2 .. MaxHoldingSessions /\ r.at <= Len(f) /\ r.at - 1 = rest.at
      BY <1>1, <1>8, <2>1
    <2>3. w[rest.at] = f[r.at]
      <3>1. r.at - 1 <= Len(w)
        BY <1>8, <2>1, <2>2
      <3> QED BY <1>9, <2>2, <3>1
    <2>4. ASSUME NEW i \in 2 .. MaxHoldingSessions, i < r.at PROVE ~Touches(e, f[i])
      <3>1. i - 1 <= Len(w) /\ i - 1 < rest.at
        BY <1>1, <1>8, <2>1, <2>2, <2>4
      <3>2. i - 1 \in 1 .. Len(w) /\ w[i - 1] = f[i]
        BY <1>9, <3>1
      <3>3. ~Touches(e, w[i - 1])
        BY <2>1, <3>1, <3>2
      <3> QED BY <3>2, <3>3
    <2> QED BY <1>7, <2>1, <2>2, <2>3, <2>4
  <1> QED BY <1>10, <1>11 DEF Held, r

\* What the outcome of a fill says of the sessions it was read from.
LEMMA FillMeans ==
    ASSUME NEW e, EventSound(e), NEW f \in Seq(SessionBars),
           CompleteEvent(e, f).fill = "FILLED"
    PROVE  LET o == CompleteEvent(e, f)
           IN  /\ f # <<>> /\ e.invalid \in Int /\ e.s1 \in Int
               /\ ~(o.price <= e.invalid)
               /\ Held(e, f, o)
               /\ o.result = "TIMEOUT" \/ (o.result \in Decided /\ o.at > 1)
                    => ~HitsInvalid(e, f[1])
  <1> DEFINE o == CompleteEvent(e, f)
  <1>1. Tradable(e) /\ f # <<>> /\ o = Entry(e, f) /\ ~(f[1].open <= e.invalid)
    BY DEF CompleteEvent, Unfilled
  <1>2. /\ f[1] \in SessionBars /\ f[1].open \in Int
        /\ e.invalid \in Int /\ e.s1 \in Int /\ e.preferred \in Int
        /\ e.preferred > e.invalid
        /\ e.label = "B2_READY" => e.trigger = e.preferred
    <2>1. f[1] \in SessionBars
      BY <1>1
    <2>2. f[1].open \in Int
      BY <2>1, SessionAssumption
    <2> QED BY <1>1, <2>1, <2>2 DEF Tradable, Complete, EventSound
  <1>3. ~(e.preferred <= e.invalid)
    BY <1>2
  <1>4. /\ Held(e, f, Holding(e, f)) /\ Held(e, f, HoldingOn(e, f))
        /\ \/ Holding(e, f).result = "TIMEOUT"
           \/ Holding(e, f).result \in Decided /\ Holding(e, f).at > 1
           => ~HitsInvalid(e, f[1])
    BY <1>1, HoldingMeans, HoldingOnMeans
  <1>5. \/ \E type, price : /\ o = Filled(type, price, Holding(e, f))
                            /\ ~(price <= e.invalid)
        \/ \E type, price : /\ o = Filled(type, price, HoldingOn(e, f))
                            /\ ~(price <= e.invalid) /\ ~HitsInvalid(e, f[1])
        \/ \E type, price, result : /\ o = Filled(type, price, OnFirst(result))
                                    /\ ~(price <= e.invalid)
                                    /\ result \in Decided
    <2>1. CASE e.label = "B2_READY"
      <3>1. o = BreakoutEntry(e, f)
        BY <1>1, <2>1 DEF Entry
      <3> QED BY <1>1, <1>2, <1>3, <2>1, <3>1 DEF BreakoutEntry, Unfilled, Decided
    <2>2. CASE e.label # "B2_READY"
      <3>1. o = LimitEntry(e, f)
        BY <1>1, <2>2 DEF Entry
      <3> QED BY <1>1, <1>2, <1>3, <2>2, <3>1 DEF LimitEntry, Unfilled, Decided
    <2> QED BY <2>1, <2>2
  <1> HIDE DEF o
  <1>6. /\ ~(o.price <= e.invalid) /\ Held(e, f, o)
        /\ o.result = "TIMEOUT" \/ (o.result \in Decided /\ o.at > 1)
             => ~HitsInvalid(e, f[1])
    <2>1. CASE \E type, price : o = Filled(type, price, Holding(e, f)) /\ ~(price <= e.invalid)
      BY <1>4, <2>1 DEF Filled, Held
    <2>2. CASE \E type, price : /\ o = Filled(type, price, HoldingOn(e, f))
                                /\ ~(price <= e.invalid) /\ ~HitsInvalid(e, f[1])
      BY <1>4, <2>2 DEF Filled, Held
    <2>3. CASE \E type, price, result : /\ o = Filled(type, price, OnFirst(result))
                                        /\ ~(price <= e.invalid) /\ result \in Decided
      <3>1. ~(o.price <= e.invalid) /\ o.result \in Decided /\ o.at = 1
        BY <2>3 DEF Filled, OnFirst
      <3>2. o.result # "TIMEOUT" /\ ~(o.at > 1)
        BY <3>1 DEF Decided
      <3> QED BY <3>1, <3>2 DEF Held
    <2> QED BY <1>5, <2>1, <2>2, <2>3
  <1> QED BY <1>1, <1>2, <1>6 DEF o

\* The sessions on which a position can be sold, none of them the first.
LEMMA SellableAre ==
    ASSUME NEW f \in Seq(SessionBars)
    PROVE  /\ Sellable(f) \in SUBSET Nat
           /\ \A i \in Nat : i \in Sellable(f) <=>
                i > 1 /\ i <= ExitSessions /\ i <= Len(f) /\ ~Locked(f[i])
  <1>1. ExitSessions \in Nat /\ Len(f) \in Nat
    BY ExitAssumption
  <1>2. DOMAIN Sessions(f, ExitSessions) = 1 .. Len(Sessions(f, ExitSessions))
        /\ Len(Sessions(f, ExitSessions)) =
             IF ExitSessions < Len(f) THEN ExitSessions ELSE Len(f)
    BY <1>1, SessionsAre
  <1>3. \A i \in Nat : i \in DOMAIN Sessions(f, ExitSessions) <=>
          i >= 1 /\ i <= ExitSessions /\ i <= Len(f)
    BY <1>1, <1>2
  <1>4. \A i \in Nat : i >= 1 /\ i > 1 <=> i > 1
    OBVIOUS
  <1>5. DOMAIN Sessions(f, ExitSessions) \subseteq Nat
    BY <1>1, <1>2
  <1> QED BY <1>3, <1>4, <1>5 DEF Sellable

\* What the session of an exit decides: on which day, and for which side.
LEMMA ExitMeans ==
    ASSUME NEW e, e.invalid \in Int, e.s1 \in Int, NEW bar \in SessionBars,
           Touches(e, bar), NEW i \in Nat
    PROVE  LET x == Exit(e, bar, i)
           IN  /\ x.conservative.at = i /\ x.strict.at \in {i, None}
               /\ x.conservative.exit \in TargetExits =>
                    x.strict = x.conservative
               /\ ~HitsInvalid(e, bar) =>
                    x.conservative.exit \in TargetExits
               /\ ~HitsTarget(e, bar) =>
                    /\ x.strict = x.conservative
                    /\ x.strict.exit \in {"STOP", "GAP_STOP"}
  <1>1. /\ bar.open \in Int /\ bar.high \in Int /\ bar.low \in Int
        /\ bar.low <= bar.open /\ bar.open <= bar.high
    BY SessionAssumption
  <1>2. ~HitsInvalid(e, bar) => ~(bar.open <= e.invalid)
    BY <1>1 DEF HitsInvalid
  <1>3. ~HitsTarget(e, bar) => ~(bar.open >= e.s1)
    BY <1>1 DEF HitsTarget
  <1> DEFINE x == Exit(e, bar, i)
  <1>4. CASE bar.open <= e.invalid
    <2>1. x = Both(Resolved("GAP_STOP", i, bar.open))
      BY <1>4 DEF Exit
    <2> QED BY <1>2, <1>4, <2>1 DEF Both, Resolved, TargetExits
  <1>5. CASE ~(bar.open <= e.invalid) /\ bar.open >= e.s1
    <2>1. x = Both(Resolved("GAP_TARGET", i, e.s1))
      BY <1>5 DEF Exit
    <2> QED BY <1>3, <1>5, <2>1 DEF Both, Resolved, TargetExits
  <1>6. CASE ~(bar.open <= e.invalid) /\ ~(bar.open >= e.s1)
               /\ HitsInvalid(e, bar) /\ HitsTarget(e, bar)
    <2>1. x = [strict |-> Status("AMBIGUOUS"),
               conservative |-> Resolved("STOP_FIRST", i, e.invalid)]
      BY <1>6 DEF Exit
    <2> QED BY <1>6, <2>1 DEF Status, Resolved, TargetExits
  <1>7. CASE ~(bar.open <= e.invalid) /\ ~(bar.open >= e.s1)
               /\ HitsInvalid(e, bar) /\ ~HitsTarget(e, bar)
    <2>1. x = Both(Resolved("STOP", i, e.invalid))
      BY <1>7 DEF Exit
    <2> QED BY <1>7, <2>1 DEF Both, Resolved, TargetExits
  <1>8. CASE ~(bar.open <= e.invalid) /\ ~(bar.open >= e.s1) /\ ~HitsInvalid(e, bar)
    <2>1. x = Both(Resolved("TARGET", i, e.s1))
      BY <1>8 DEF Exit
    <2>2. HitsTarget(e, bar)
      BY <1>8 DEF Touches
    <2> QED BY <2>1, <2>2 DEF Both, Resolved, TargetExits
  <1> QED BY <1>4, <1>5, <1>6, <1>7, <1>8

\* A stop of the first day is never sold on that day, nor at the target.
LEMMA BlockedMeans ==
    ASSUME NEW f \in Seq(SessionBars)
    PROVE  BlockedStop(f).at # 1 /\ BlockedStop(f).exit \notin TargetExits
  <1>1. None # 1
    BY NoneAssumption
  <1>2. CASE Sellable(f) = {}
    <2>1. \E status : BlockedStop(f) = Status(status)
      BY <1>2 DEF BlockedStop, Terminal
    <2> QED BY <1>1, <2>1, NoExitAssumption DEF Status
  <1>3. CASE Sellable(f) # {}
    <2>1. First(Sellable(f)) \in Sellable(f) /\ First(Sellable(f)) \in Nat
      BY <1>3, SellableAre, FirstIsLeast
    <2>2. First(Sellable(f)) > 1
      BY <2>1, SellableAre
    <2> QED BY <1>3, <2>1, <2>2 DEF BlockedStop, Resolved, TargetExits
  <1> QED BY <1>2, <1>3

\* Whatever the outcome of a fill: nothing is sold on the first day, and the
\* conservative reading reaches the target only with the strict one.
LEMMA ResolvedLater ==
    ASSUME NEW e, e.invalid \in Int, e.s1 \in Int, NEW o, NEW f \in Seq(SessionBars)
    PROVE  LET x == ResolveExecution(e, o, f)
           IN  /\ 1 \notin {x.strict.at, x.conservative.at}
               /\ x.conservative.exit \in TargetExits => x.strict = x.conservative
  <1> DEFINE x == ResolveExecution(e, o, f)
             stop == FillDayStop(e, o, f[1])
             hits == {i \in Sellable(f) : HitsInvalid(e, f[i]) \/ HitsTarget(e, f[i])}
  <1>1. None # 1
    BY NoneAssumption
  <1>2. CASE stop = "BLOCKED"
    <2>1. x = Both(BlockedStop(f))
      BY <1>2 DEF ResolveExecution
    <2> QED BY <2>1, BlockedMeans DEF Both
  <1>3. CASE stop = "AMBIGUOUS"
    <2>1. x = [strict |-> Status("AMBIGUOUS"), conservative |-> BlockedStop(f)]
      BY <1>3 DEF ResolveExecution
    <2>2. x.strict.at = None
      BY <2>1 DEF Status
    <2> QED BY <1>1, <2>1, <2>2, BlockedMeans
  <1>4. CASE stop \notin {"BLOCKED", "AMBIGUOUS"} /\ hits = {}
    <2>1. x = Both(Terminal(f))
      BY <1>4 DEF ResolveExecution
    <2> QED BY <1>1, <2>1 DEF Both, Terminal, Status
  <1>5. CASE stop \notin {"BLOCKED", "AMBIGUOUS"} /\ hits # {}
    <2> DEFINE n == First(hits)
    <2>1. n \in hits
      <3>1. hits \in SUBSET Nat
        BY SellableAre
      <3> HIDE DEF hits
      <3> QED BY <1>5, <3>1, FirstIsLeast
    <2>2. x = Exit(e, f[n], n)
      BY <1>5 DEF ResolveExecution
    <2>3. /\ n \in Nat /\ n > 1 /\ n <= Len(f) /\ Touches(e, f[n])
      BY <2>1, SellableAre DEF Touches
    <2>4. f[n] \in SessionBars
      <3>1. n \in 1 .. Len(f)
        <4>1. Len(f) \in Nat
          OBVIOUS
        <4> QED BY <2>3, <4>1
      <3> QED BY <3>1
    <2> HIDE DEF n
    <2>5. /\ Exit(e, f[n], n).conservative.at = n
          /\ Exit(e, f[n], n).strict.at \in {n, None}
          /\ Exit(e, f[n], n).conservative.exit \in TargetExits =>
               Exit(e, f[n], n).strict = Exit(e, f[n], n).conservative
      BY <2>3, <2>4, ExitMeans
    <2> QED BY <1>1, <2>2, <2>3, <2>5
  <1> QED BY <1>2, <1>3, <1>4, <1>5

\* run_execution_reality_check looks at as many sessions as the study.
SameWindow == ExitSessions = MaxHoldingSessions

\* What the study held to the end, or decided on a later session of which the
\* exits see all, they read the same way.
LEMMA ExitsFollow ==
    ASSUME SameWindow, NEW e, e.invalid \in Int, e.s1 \in Int, NEW o,
           NEW p, NEW f, Begins(p, f), p # <<>>, Held(e, p, o),
           o.result = "TIMEOUT" \/ (o.result \in Decided /\ o.at > 1)
             => ~HitsInvalid(e, p[1])
    PROVE  LET x == ResolveExecution(e, o, f)
           IN  /\ o.result = "TIMEOUT" =>
                    x.strict.status = "TIMEOUT" /\ x.conservative = x.strict
               /\ o.result \in Decided /\ o.at > 1 /\ ~Locked(f[o.at]) =>
                    /\ x.conservative.at = o.at
                    /\ o.result = "WIN" => x.conservative.exit \in TargetExits
                    /\ o.result = "LOSS" =>
                         x.strict = x.conservative /\ x.strict.exit \in {"STOP", "GAP_STOP"}
  <1> DEFINE x == ResolveExecution(e, o, f)
             hits == {i \in Sellable(f) : HitsInvalid(e, f[i]) \/ HitsTarget(e, f[i])}
             M == MaxHoldingSessions
  <1>1. /\ p \in Seq(SessionBars) /\ f \in Seq(SessionBars)
        /\ Len(p) \in Nat \ {0} /\ Len(f) \in Nat /\ Len(p) <= Len(f)
        /\ M \in Nat \ {0} /\ ExitSessions = M
        /\ \A i \in 1 .. Len(p) : p[i] = f[i]
    BY HoldingAssumption DEF Begins, SameWindow
  <1>2. p[1] = f[1]
    <2>1. 1 \in 1 .. Len(p)
      BY <1>1
    <2> QED BY <1>1, <2>1
  <1>3. ~HitsInvalid(e, p[1]) => FillDayStop(e, o, f[1]) = "NONE"
    BY <1>2 DEF FillDayStop
  <1>4. \A i \in Nat : i \in hits <=>
          i > 1 /\ i <= M /\ i <= Len(f) /\ ~Locked(f[i]) /\ Touches(e, f[i])
    BY <1>1, SellableAre DEF Touches
  <1>5. hits \in SUBSET Nat
    BY <1>1, SellableAre
  <1>6. FillDayStop(e, o, f[1]) = "NONE" =>
          x = IF hits = {} THEN Both(Terminal(f)) ELSE Exit(e, f[First(hits)], First(hits))
    BY DEF ResolveExecution
  <1> HIDE DEF hits, x
  <1>7. ASSUME o.result = "TIMEOUT"
        PROVE  x.strict.status = "TIMEOUT" /\ x.conservative = x.strict
    <2>1. M <= Len(p) /\ \A i \in 2 .. M : ~Touches(e, p[i])
      BY <1>7 DEF Held
    <2>2. hits = {}
      <3> SUFFICES ASSUME NEW i \in hits PROVE FALSE
        OBVIOUS
      <3>1. i \in Nat /\ i > 1 /\ i <= M /\ Touches(e, f[i])
        BY <1>4, <1>5
      <3>2. i \in 2 .. M /\ i \in 1 .. Len(p)
        BY <1>1, <2>1, <3>1
      <3> QED BY <1>1, <2>1, <3>1, <3>2
    <2>3. x = Both(Terminal(f))
      BY <1>3, <1>6, <1>7, <2>2
    <2>4. ~(Len(f) < ExitSessions)
      BY <1>1, <2>1
    <2> QED BY <2>3, <2>4 DEF Both, Terminal, Status
  <1>8. ASSUME o.result \in Decided, o.at > 1, ~Locked(f[o.at])
        PROVE  /\ x.conservative.at = o.at
               /\ o.result = "WIN" => x.conservative.exit \in TargetExits
               /\ o.result = "LOSS" =>
                    x.strict = x.conservative /\ x.strict.exit \in {"STOP", "GAP_STOP"}
    <2> DEFINE n == o.at
    <2>1. /\ n \in 2 .. M /\ n <= Len(p) /\ Shows(e, p[n], o.result)
          /\ \A i \in 2 .. M : i < n => ~Touches(e, p[i])
      BY <1>8 DEF Held
    <2>2. n \in Nat /\ n > 1 /\ n <= M /\ n <= Len(f) /\ n \in 1 .. Len(p) /\ n \in 1 .. Len(f)
      BY <1>1, <2>1
    <2>3. p[n] = f[n] /\ Shows(e, f[n], o.result) /\ Touches(e, f[n])
      BY <1>1, <2>1, <2>2 DEF Shows
    <2>4. n \in hits
      BY <1>4, <1>8, <2>2, <2>3
    <2>5. ASSUME NEW i \in hits PROVE n <= i
      <3>1. i \in Nat /\ i > 1 /\ i <= M /\ Touches(e, f[i])
        BY <1>4, <1>5
      <3>2. CASE i < n
        <4>1. i \in 2 .. M /\ i \in 1 .. Len(p)
          BY <1>1, <2>1, <2>2, <3>1, <3>2
        <4> QED BY <1>1, <2>1, <3>1, <3>2, <4>1
      <3> QED BY <2>2, <3>1, <3>2
    <2>6. First(hits) = n /\ hits # {}
      BY <1>5, <2>4, <2>5, FirstIsLeast
    <2>7. x = Exit(e, f[n], n)
      BY <1>3, <1>6, <1>8, <2>6
    <2>8. f[n] \in SessionBars
      BY <1>1, <2>2
    <2> HIDE DEF n
    <2>9. /\ Exit(e, f[n], n).conservative.at = n
          /\ ~HitsInvalid(e, f[n]) => Exit(e, f[n], n).conservative.exit \in TargetExits
          /\ ~HitsTarget(e, f[n]) =>
               /\ Exit(e, f[n], n).strict = Exit(e, f[n], n).conservative
               /\ Exit(e, f[n], n).strict.exit \in {"STOP", "GAP_STOP"}
      BY <2>2, <2>3, <2>8, ExitMeans
    <2> QED BY <2>3, <2>7, <2>9 DEF Shows, n
  <1> QED BY <1>7, <1>8 DEF x

\* With one window for both, the T+1 exits and the result of the study agree:
\* nothing is sold on the day of the entry, and a later session decides for the
\* same side in both.
THEOREM SameExits == ASSUME SameWindow PROVE StudySpec => ExitsAgree
  <1>1. SInv /\ [StudyNext]_studyVars =>
          [LET o == episode.outcome
               strict == execution'.strict
               conservative == execution'.conservative
           IN  execution' # execution /\ event.candidate /\ o.fill = "FILLED" =>
                 /\ 1 \notin {strict.at, conservative.at}
                 /\ o.result = "TIMEOUT" =>
                      strict.status = "TIMEOUT" /\ conservative = strict
                 /\ conservative.exit \in TargetExits => strict = conservative
                 /\ o.result \in {"WIN", "LOSS", "AMBIGUOUS"} /\ o.at > 1
                      /\ ~Locked(future[o.at]) =>
                      /\ conservative.at = o.at
                      /\ o.result = "WIN" => conservative.exit \in TargetExits
                      /\ o.result = "LOSS" =>
                           strict = conservative /\ strict.exit \in {"STOP", "GAP_STOP"}]_studyVars
    <2> DEFINE o == episode.outcome
               p == SessionsRead
               x == ResolveExecution(event, o, future)
    <2>1. ASSUME SInv, StudyNext, execution' # execution, event.candidate,
                 o.fill = "FILLED"
          PROVE  /\ execution' = x
                 /\ 1 \notin {x.strict.at, x.conservative.at}
                 /\ o.result = "TIMEOUT" =>
                      x.strict.status = "TIMEOUT" /\ x.conservative = x.strict
                 /\ x.conservative.exit \in TargetExits => x.strict = x.conservative
                 /\ o.result \in Decided /\ o.at > 1 /\ ~Locked(future[o.at]) =>
                      /\ x.conservative.at = o.at
                      /\ o.result = "WIN" => x.conservative.exit \in TargetExits
                      /\ o.result = "LOSS" =>
                           x.strict = x.conservative /\ x.strict.exit \in {"STOP", "GAP_STOP"}
      <3>1. Execute
        BY <2>1 DEF StudyNext, ReplayCode, PublishSession, BaselineStudy, Study, Relabel,
                    WriteEpisode
      <3>2. /\ artifact \in {"study", "corrected"} /\ event # None
            /\ o = CompleteEvent(event, p) /\ EventSound(event)
        BY <2>1, <3>1 DEF Execute, SInv, EpisodeFollows
      <3>3. Begins(p, future) /\ p \in Seq(SessionBars) /\ future \in Seq(SessionBars)
        <4>1. future \in Seq(SessionBars) /\ studied \in Nat
          BY <2>1 DEF SInv
        <4> QED BY <4>1, SessionsAre DEF SessionsRead
      <3>4. execution' = RelabelExecution(event, o, future)
        BY <3>1 DEF Execute
      <3> HIDE DEF o, p
      <3>5. /\ p # <<>> /\ event.invalid \in Int /\ event.s1 \in Int
            /\ ~(o.price <= event.invalid)
            /\ Held(event, p, o)
            /\ o.result = "TIMEOUT" \/ (o.result \in Decided /\ o.at > 1)
                 => ~HitsInvalid(event, p[1])
        BY <2>1, <3>2, <3>3, FillMeans
      <3>6. execution' = x
        BY <2>1, <3>4, <3>5 DEF RelabelExecution
      <3> HIDE DEF x
      <3>7. /\ 1 \notin {x.strict.at, x.conservative.at}
            /\ x.conservative.exit \in TargetExits => x.strict = x.conservative
        BY <3>3, <3>5, ResolvedLater DEF x
      <3>8. /\ o.result = "TIMEOUT" =>
                 x.strict.status = "TIMEOUT" /\ x.conservative = x.strict
            /\ o.result \in Decided /\ o.at > 1 /\ ~Locked(future[o.at]) =>
                 /\ x.conservative.at = o.at
                 /\ o.result = "WIN" => x.conservative.exit \in TargetExits
                 /\ o.result = "LOSS" =>
                      x.strict = x.conservative /\ x.strict.exit \in {"STOP", "GAP_STOP"}
        BY <3>3, <3>5, ExitsFollow DEF x
      <3> QED BY <3>6, <3>7, <3>8
    <2> HIDE DEF x
    <2> QED BY <2>1, Zenon DEF Decided, o
  <1> QED BY <1>1, StudyInvariance, PTL DEF StudySpec, ExitsAgree

=============================================================================
