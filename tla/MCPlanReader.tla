---------------------------- MODULE MCPlanReader ----------------------------
(* A first session, an edition that corrects it with the next one on top, and *)
(* signals that differ from code to code and from day to day.                 *)
EXTENDS PlanReader

CONSTANTS s0, s1, d1, d1x, d2, c1, c2

MCHistory == [s \in Snapshots |-> IF s = s0 THEN <<d1>> ELSE <<d1x, d2>>]

Job(s, n, rebuild, dry) == [snap |-> s, cut |-> n, rebuild |-> rebuild, dry |-> dry]

\* A full and an incremental build of the chain, and a dry run in arrears.
MCJobs ==
    {Job(s0, 1, TRUE, FALSE), Job(s1, 2, FALSE, FALSE), Job(s1, 1, TRUE, TRUE)}

Watched == [stage |-> "WATCH_PULLBACK", label |-> "B1_PREP", actionable |-> TRUE]
Ready == [stage |-> "B1_READY", label |-> "B1_READY", actionable |-> TRUE]
Unready == [stage |-> "B2_READY", label |-> "B2_READY", actionable |-> FALSE]

MCSignalOf(c, hist) ==
    IF Len(hist) = 1 THEN IF c = c1 THEN Watched ELSE Unready
    ELSE IF c = c1 THEN Ready ELSE Watched

Screening(b) == pc[b] \in {"begun", "screening"}
Busy(b) == pc[b] # "idle"

\* One builder at a time leaves states behind and finds them again.
OneLeaves == \E b \in Builders : ~Busy(b) /\ states[b] = NoStates

\* Two meet over one snapshot, the one that still screens from nothing, and
\* neither for a dry run nor after a death.
TwoMeet ==
    /\ crashes = 0
    /\ \A b \in Builders : Busy(b) /\ ~job[b].dry
    /\ \A a, b \in Builders : a # b =>
         /\ job[a].snap = job[b].snap
         /\ Screening(a) => ~Screening(b) /\ (states[a] = NoStates \/ out[a] # NoRows)

\* The reader meets one builder, where it files what it has built.
ReaderMeets ==
    \E b \in Builders : /\ pc[b] \in {"idle", "missing", "placed"}
                        /\ \A a \in Builders \ {b} : ~Busy(a)

Meetings == (OneLeaves \/ TwoMeet) /\ (reader # NoReader => ReaderMeets)
=============================================================================
