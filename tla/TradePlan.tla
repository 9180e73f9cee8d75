------------------------------ MODULE TradePlan ------------------------------
(***************************************************************************)
(* trade_plan.py: the plan of one day, built from the signal of that day   *)
(* and from the bars up to it.  A plan names where to enter, where the     *)
(* idea is wrong and where to take profit, and whether it may be acted on. *)
(***************************************************************************)
EXTENDS SetupEngine

CONSTANTS
    HalfZone,  \* from the low of a support cluster to its center, and on to its high
    PrepGap,   \* trade_plan.prep_support_distance_max
    Tick       \* anchor.price_tick

ASSUME PlanAssumption == {HalfZone, PrepGap, Tick} \subseteq Nat

Zone(low) == [low |-> low, center |-> low + HalfZone, high |-> low + 2 * HalfZone]

PriceOf(level) == IF level = None THEN None ELSE level.price

EntryEvents == {"S1_BREAKOUT", "S2_EXHAUSTED"}

\* Mutant: a setup without room below its target may still be entered.
IsEntryCandidateNoRoom(s, usable) ==
    s.stage \in Actionable /\ usable /\ s.events \cap EntryEvents = {}

\* StrategySignal.is_entry_candidate
IsEntryCandidate(s, usable) ==
    /\ s.stage \in Actionable
    /\ usable
    /\ s.events \cap EntryEvents = {}
    /\ s.room # "NONE"

NearSupport(b, support) ==
    support # None /\ support <= b.close /\ b.close - support <= PrepGap

\* A pullback near a support read on the day itself; fit stands for the
\* pullback window, the volumes and the candles.
Prepared(s, b, support, usable, fit) ==
    /\ s.stage = "WATCH_PULLBACK"
    /\ usable
    /\ fit
    /\ NearSupport(b, support)
    /\ s.events \cap EntryEvents = {}

\* _computed_support: the frozen support, else one that the bars may show.
ComputedSupports(s, b) ==
    IF s.stage = "WATCH_PULLBACK" THEN Maybe(Supports(b)) ELSE {PriceOf(s.support)}

Label(s, prepared) ==
    IF prepared THEN "B1_PREP"
    ELSE IF s.stage \in Actionable THEN s.stage ELSE "WATCH_ONLY"

\* The reference when it lies inside the zone, else the middle of the zone.
PreferredInBuyZone(reference, zone) ==
    IF reference \in zone.low .. zone.high THEN reference ELSE zone.center

AboveBuyZone(b, zone) == b.close > zone.high + Tick

PrepPlan(b, support) ==
    [label |-> "B1_PREP", zone |-> Zone(support), preferred |-> Zone(support).center,
     invalid |-> support - InvalidGap, s1 |-> None, trigger |-> None,
     actionable |-> ~AboveBuyZone(b, Zone(support))]

WatchOnly(s) ==
    [label |-> "WATCH_ONLY", zone |-> None, preferred |-> None,
     invalid |-> PriceOf(s.invalid), s1 |-> PriceOf(s.s1), trigger |-> None,
     actionable |-> FALSE]

EntryPlan(s, b, usable) ==
    LET zone == Zone(s.support.price)
        candidate == IsEntryCandidate(s, usable)
    IN  [label |-> s.stage,
         zone |-> zone,
         preferred |-> CASE s.stage = "B1_READY" -> PreferredInBuyZone(b.close, zone)
                         [] s.stage = "B2_READY" -> s.trigger.price
                         [] s.stage = "B2_CONFIRMED" -> b.close,
         invalid |-> s.invalid.price,
         s1 |-> PriceOf(s.s1),
         trigger |-> IF s.stage \in B2Stages THEN s.trigger.price ELSE None,
         actionable |-> /\ candidate
                        /\ s.stage = "B1_READY" => ~AboveBuyZone(b, zone)]

\* build_trade_plan, for the support that the bars of the day show.
BuildTradePlan(s, b, support, usable, fit) ==
    LET label == Label(s, Prepared(s, b, support, usable, fit))
    IN  CASE label = "B1_PREP" -> PrepPlan(b, support)
          [] label = "WATCH_ONLY" -> WatchOnly(s)
          [] OTHER -> EntryPlan(s, b, usable)

\* TradePlan.validate_plan
ValidPlan(p) ==
    /\ p.label \in {"B1_PREP", "B1_READY"} =>
         p.preferred \in p.zone.low .. p.zone.high
    /\ p.actionable => p.label # "WATCH_ONLY" /\ p.usable
=============================================================================
