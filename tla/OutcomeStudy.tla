----------------------------- MODULE OutcomeStudy -----------------------------
(***************************************************************************)
(* run_outcome_study, run_outcome_relabel and run_execution_reality_check  *)
(* over one code: its days are replayed and planned, the first day of a    *)
(* setup under a label is frozen as an event, and what became of the event *)
(* is read again whenever there are more sessions to read.                 *)
(***************************************************************************)
EXTENDS ExecutionReality

CONSTANTS
    SessionBars,  \* bound: the bars that may follow the signal day
    MaxSessions   \* bound: how many of them

ASSUME SessionAssumption ==
    /\ SessionBars \subseteq [open : Int, high : Int, low : Int, b1 : BOOLEAN]
    /\ \A bar \in SessionBars : bar.low <= bar.open /\ bar.open <= bar.high

VARIABLES
    start,      \* the first day of the study
    seen,       \* the labels each setup was planned under since then
    event,      \* the frozen event that is followed
    future,     \* the sessions published after its signal day
    artifact,   \* which file holds the episode: what kind of run wrote it
    studied,    \* how many of the sessions that run had read
    episode,    \* what it says became of the event
    execution   \* its exits under T+1

followed == <<event, future, artifact, studied, episode, execution>>
studyVars == <<vars, start, seen, followed>>

StudyInit ==
    /\ Init
    /\ start \in Days
    /\ seen = {}
    /\ event = None
    /\ future = <<>>
    /\ artifact = "none"
    /\ studied = 0
    /\ episode = None
    /\ execution = None

\* _freeze_event
FreezeEvent(s, plan, usable) ==
    [label |-> plan.label, zone |-> plan.zone, preferred |-> plan.preferred,
     invalid |-> plan.invalid, s1 |-> plan.s1, trigger |-> plan.trigger,
     actionable |-> plan.actionable, usable |-> usable,
     candidate |-> IsEntryCandidate(s, usable) /\ plan.actionable]

\* _replay_code: days before the start only feed the next signal.  An event
\* is the first day of a setup under a label; one of them is followed.
ReplayCode(b, k) ==
    /\ event = None
    /\ Evaluate(b, k)
    /\ \E support \in ComputedSupports(signal', b), usable, fit \in BOOLEAN :
         LET plan == BuildTradePlan(signal', b, support, usable, fit)
             key == <<signal'.setup, plan.label>>
         IN  IF b.date < start \/ plan.label = "WATCH_ONLY" \/ key \in seen
               THEN UNCHANGED <<seen, event>>
             ELSE /\ seen' = seen \cup {key}
                  /\ event' \in {None, FreezeEvent(signal', plan, usable)}
    /\ UNCHANGED <<start, future, artifact, studied, episode, execution>>

\* A later snapshot holds one more confirmed session.
PublishSession(bar) ==
    /\ event # None
    /\ Len(future) < MaxSessions
    /\ future' = Append(future, bar)
    /\ UNCHANGED <<vars, start, seen, event, artifact, studied, episode, execution>>

Labels(outcome, sessions) ==
    [outcome |-> outcome, patterns |-> Patterns(event, sessions),
     conversions |-> Conversions(event, sessions)]

WriteEpisode(kind, outcome, sessions) ==
    /\ artifact' = kind
    /\ studied' = Len(sessions)
    /\ episode' = Labels(outcome, sessions)
    /\ UNCHANGED <<vars, start, seen, event, future, execution>>

\* The baseline artifact: an earlier study, which entered a breakout like any
\* limit order and asked nothing of its target.
BaselineStudy ==
    /\ event # None
    /\ artifact = "none"
    /\ WriteEpisode("baseline",
                    IF ~Complete(event) \/ event.preferred <= event.invalid
                      THEN Unfilled("NO_FILL")
                    ELSE IF future = <<>> THEN Unfilled("CENSORED")
                    ELSE IF future[1].open <= event.invalid
                      THEN Unfilled("CANCEL_GAP_INVALID")
                    ELSE LimitEntry(event, future),
                    future)

\* run_outcome_study over all the sessions there are
Study ==
    /\ event # None
    /\ ~Aborts(event)
    /\ WriteEpisode("study", CompleteEvent(event, future), future)

\* The sessions up to the end of the study that wrote the episodes.
SessionsRead == Sessions(future, studied)

\* relabel_frozen_episodes: only a breakout is labelled anew.
Relabelled(sessions) ==
    IF event.label = "B2_READY" THEN CompleteEvent(event, sessions) ELSE episode.outcome

\* run_outcome_relabel of the baseline
Relabel ==
    /\ artifact = "baseline"
    /\ ~Aborts(event)
    /\ WriteEpisode("corrected", Relabelled(SessionsRead), SessionsRead)

\* run_execution_reality_check of an episode that is not the baseline's
Execute ==
    /\ artifact \in {"study", "corrected"}
    /\ execution' = RelabelExecution(event, episode.outcome, future)
    /\ UNCHANGED <<vars, start, seen, event, future, artifact, studied, episode>>

StudyNext ==
    \/ \E b \in Bars, k \in {"quiet", "anchor", "board"} : ReplayCode(b, k)
    \/ \E bar \in SessionBars : PublishSession(bar)
    \/ BaselineStudy
    \/ Study
    \/ Relabel
    \/ Execute

StudySpec == StudyInit /\ [][StudyNext]_studyVars

-----------------------------------------------------------------------------
(* Properties *)

\* No event that the engine and the plan can produce makes the study raise:
\* neither the validator of its plan nor the check that an actionable breakout
\* has room between its trigger and its target.
StudyCompletes ==
    event # None => ValidPlan(event) /\ ~Aborts(event)

\* An actionable event that won gained something: it was not entered at or
\* above its target, unless its zone ends above the day's close.
PaidWins ==
    \/ episode = None \/ artifact = "baseline"
    \/ episode.outcome.result = "WIN" /\ event.candidate =>
         \/ episode.outcome.price < event.s1
         \/ event.label = "B1_READY" /\ event.preferred = event.zone.center

\* What a later study may not take back.
Upholds(new, old) ==
    /\ old.outcome.result # "CENSORED" => new.outcome = old.outcome
    /\ old.outcome.fill = "FILLED" =>
         new.outcome.type = old.outcome.type /\ new.outcome.price = old.outcome.price
    /\ old.patterns # None =>
         \A h \in Horizons :
             old.patterns[h] # "CENSORED" => new.patterns[h] = old.patterns[h]
    /\ old.conversions # None =>
         \A h \in PrepHorizons \ {1} :
             old.conversions[h] # None => new.conversions[h] = old.conversions[h]

\* More sessions never change what fewer had decided: a fill, a result, the
\* pattern of a horizon, a conversion, be it decided by a study or a relabel.
ResultsFinal ==
    [][episode # None /\ artifact # "baseline" => Upholds(episode', episode)]_studyVars

\* The T+1 exit of a filled event against the result of the study: nothing is
\* sold on the day of the entry; what the study decided on a later session is
\* decided on that session and for the same side; where the study held the
\* position to the end, so do both readings; and the conservative reading
\* reaches the target only where the strict one does.
ExitsAgree ==
    [][LET o == episode.outcome
           strict == execution'.strict
           conservative == execution'.conservative
       IN  execution' # execution /\ event.candidate /\ o.fill = "FILLED" =>
             /\ 1 \notin {strict.at, conservative.at}
             /\ o.result = "TIMEOUT" =>
                  strict.status = "TIMEOUT" /\ conservative = strict
             /\ conservative.exit \in TargetExits => strict = conservative
             /\ o.result \in {"WIN", "LOSS", "AMBIGUOUS"} /\ o.at > 1
                  /\ ~Locked(future[o.at]) =>
                  /\ conservative.at = o.at
                  /\ o.result = "WIN" => conservative.exit \in TargetExits
                  /\ o.result = "LOSS" =>
                       strict = conservative /\ strict.exit \in {"STOP", "GAP_STOP"}]_studyVars

=============================================================================
