---------------------------- MODULE SetupReplay ----------------------------
(***************************************************************************)
(* replay.py: the replay of one stock appends every evaluated day to a     *)
(* timeline and derives from it, for each setup, the dates of its stages   *)
(* and how and when it ended.                                              *)
(***************************************************************************)
EXTENDS SetupEngine, FiniteSetsExt

VARIABLE timeline  \* the replayed days: date, setup and stage

replayVars == <<vars, timeline>>

ReplayInit == Init /\ timeline = <<>>

\* The engine evaluates a bar and its signal joins the timeline.
ReplayDay(b, k) ==
    /\ Evaluate(b, k)
    /\ timeline' = Append(timeline, [date |-> b.date, setup |-> signal'.setup,
                                     stage |-> signal'.stage])

ReplayNext ==
    \E b \in Bars, k \in {"quiet", "anchor", "board"} : ReplayDay(b, k)

ReplaySpec == ReplayInit /\ [][ReplayNext]_replayVars

-----------------------------------------------------------------------------
(* Setup summaries of a timeline t *)

Items(t) == {t[i] : i \in DOMAIN t}

Setups(t) == {i.setup : i \in Items(t)} \ {None}

DatesOf(t, s) == {i.date : i \in {j \in Items(t) : j.setup = s}}

MinOrNone(S) == IF S = {} THEN None ELSE Min(S)

\* Mutant: the first day of the stage in the whole replay, of any setup.
FirstStageOfReplay(t, s, stage) ==
    MinOrNone({i.date : i \in {j \in Items(t) : j.stage = stage}})

FirstStage(t, s, stage) ==
    MinOrNone({i.date : i \in {j \in Items(t) : j.setup = s /\ j.stage = stage}})

\* The setups that joined the timeline after s.
Successors(t, s) ==
    {r \in Setups(t) : Min(DatesOf(t, r)) > Min(DatesOf(t, s))}

\* The days replayed after the last one of s.
Aftermath(t, s) == {i.date : i \in {j \in Items(t) : j.date > Max(DatesOf(t, s))}}

\* Mutant: a new anchor supersedes even a setup that had been invalidated.
TerminationSuperseding(t, s) ==
    LET invalid == FirstStage(t, s, "INVALID")
    IN  IF Successors(t, s) # {}
          THEN [reason |-> "SUPERSEDED_BY_NEW_ANCHOR",
                closed |-> Min(Successors(t, s))]
        ELSE IF invalid # None THEN [reason |-> "INVALIDATED", closed |-> invalid]
        ELSE IF Aftermath(t, s) # {}
          THEN [reason |-> "EXPIRED", closed |-> Min(Aftermath(t, s))]
        ELSE [reason |-> "ACTIVE", closed |-> None]

\* Why and when the setup ended: the first of the three that applies.
Termination(t, s) ==
    LET invalid == FirstStage(t, s, "INVALID")
    IN  IF invalid # None THEN [reason |-> "INVALIDATED", closed |-> invalid]
        ELSE IF Successors(t, s) # {}
          THEN [reason |-> "SUPERSEDED_BY_NEW_ANCHOR",
                closed |-> Min(Successors(t, s))]
        ELSE IF Aftermath(t, s) # {}
          THEN [reason |-> "EXPIRED", closed |-> Min(Aftermath(t, s))]
        ELSE [reason |-> "ACTIVE", closed |-> None]

-----------------------------------------------------------------------------
(* Properties *)

\* The lives of two setups do not overlap, and the one reported as active is
\* the one the last day is about.
LivesDisjoint ==
    \A s \in Setups(timeline) :
        LET end == Termination(timeline, s)
        IN  /\ \A r \in Successors(timeline, s) : end.closed # None /\ end.closed <= r
            /\ end.reason = "ACTIVE" =>
                 signal.setup = s /\ Successors(timeline, s) = {}

\* Replaying further days never reopens a setup reported as closed, nor brings
\* its end forward; only an expiry is restated, when a new anchor supersedes it.
ClosedStaysClosed ==
    [][\A s \in Setups(timeline) :
          LET before == Termination(timeline, s)
              after == Termination(timeline', s)
          IN  before.reason # "ACTIVE" =>
                \/ after = before
                \/ /\ before.reason = "EXPIRED"
                   /\ after.reason = "SUPERSEDED_BY_NEW_ANCHOR"
                   /\ after.closed >= before.closed]_replayVars
=============================================================================
