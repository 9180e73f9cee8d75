------------------------------- MODULE Update -------------------------------
(***************************************************************************)
(* The runs that extend a bootstrapped warehouse, in warehouse/pipeline.py:*)
(* _update_impl and _aux_backfill_impl, and an ADR-008 promotion between   *)
(* them, for one code (codes never meet in a decision).  Both runs hold    *)
(* the warehouse lock and the DuckDB connection until they end, so there   *)
(* is one caller at a time; it may raise or die between any two of its     *)
(* effects.  Dates are the days of the calendar, Sessions the ones the     *)
(* exchange was open.                                                      *)
(***************************************************************************)
EXTENDS Reconciliation, Sequences, SequencesExt, FiniteSetsExt

CONSTANTS
    Dates, Sessions,
    Oldest, First,  \* the range of the bootstrap
    Window,         \* revision_calendar_days
    Adjusted,       \* the dates at which the adjustment factor changes
    Asked,          \* bound: the providers that have rows
    Given,          \* bound: the rows each of them ever has
    Offers,         \* bound: what they have at the time of the bootstrap
    Backfills,      \* bound: the <<start, end>> of aux backfills
    Promotable,     \* bound: the rows ADR-008 promotes
    MaxRevisions, MaxGaps, MaxDeaths,
    NoRow, NoRun

ASSUME DatesAssumption ==
    /\ Dates \subseteq Nat /\ IsFiniteSet(Dates)
    /\ Sessions \subseteq Dates /\ First \in Sessions
    /\ Oldest \in Dates /\ \A d \in Dates : Oldest <= d
    /\ Adjusted \subseteq Sessions
    /\ Backfills \subseteq Dates \X Dates
    /\ Window \in Nat
ASSUME AskedAssumption ==
    /\ Asked \subseteq Providers
    /\ Given \in [Asked -> SUBSET Rows]
    /\ NoRow \notin Rows
    /\ Offers \subseteq [Asked -> [Sessions -> Rows \cup {NoRow}]]
ASSUME BoundAssumption ==
    /\ MaxRevisions \in Nat /\ MaxGaps \in Nat /\ MaxDeaths \in Nat
    /\ Promotable \subseteq Rows

Runs == {"update", "backfill", "bootstrap"} \X Dates \X Dates

ASSUME NoRunAssumption == NoRun \notin Runs

Verdict == {"CONFIRMED", "PROVISIONAL", "CONFLICTED", "QUARANTINED", "INCOMPLETE"}
Released == "RESOLVED_CORPORATE_ACTION"
Unconfirmed == "PRECLOSE_DIVERGENCE_UNCONFIRMED"

Batches == UNION {[S -> Rows] : S \in SUBSET Sessions}
NoBatch == [d \in {} |-> NoRow]

Snapshots == [asOf : Dates, daily : [Sessions -> Seq(Published)], pool : SUBSET Sessions]

Files == [run : Runs, by : Asked, rows : Batches, listed : BOOLEAN, at : Nat]

VARIABLES
    offered,   \* the row each provider has for each session
    raw,       \* raw/<provider>/daily_bars, each file with its recorded_at
    clock,     \* the time of the last of them
    finished,  \* the runs COMPLETED in ingest_runs
    held,      \* quarantine_records: <<date, reason>>
    records,   \* reconciliation_results of the daily rows: <<date, status>>
    latest,    \* the snapshot that latest_snapshot answers with
    pc, run,   \* the call: its place and its run_id
    got, pooled, factors,  \* what it fetched: daily rows, pool rows, factors
    todo,      \* the quarantined dates a backfill has still to look at
    due,       \* what it has still to record or, by a backfill, to publish
    revisions, gaps, deaths

world == <<offered, revisions>>
registry == <<finished, held, records, latest>>
call == <<run, got, pooled, factors>>
storage == <<raw, clock>>
vars == <<world, storage, registry, pc, call, todo, due, gaps, deaths>>

\* AKSHARE's pool rows for a date: none, one, or two that differ.
PoolAnswers == {{}, {"row"}, {"row", "other"}}
NoPool == [d \in Sessions |-> {}]

NothingGot == [p \in Asked |-> NoBatch]
NothingDue == [records |-> {}, held |-> {}, released |-> {}]

TypeOK ==
    /\ offered \in [Asked -> [Sessions -> Rows \cup {NoRow}]]
    /\ raw \subseteq Files /\ clock \in Nat
    /\ finished \subseteq Runs
    /\ held \subseteq Sessions \X (Reasons \cup {Released})
    /\ records \subseteq Sessions \X Verdict
    /\ latest \in Snapshots
    /\ pc \in {"idle", "fetch", "write", "record", "finish", "aux", "examine"}
    /\ run \in Runs \cup {NoRun}
    /\ got \in [Asked -> Batches]
    /\ pooled \in [Sessions -> PoolAnswers]
    /\ factors \in BOOLEAN
    /\ todo \subseteq Sessions
    /\ due \in [records : SUBSET (Sessions \X Verdict),
                held : SUBSET (Sessions \X Reasons),
                released : SUBSET (Sessions \X Published)]
    /\ revisions \in 0 .. MaxRevisions /\ gaps \in 0 .. MaxGaps
    /\ deaths \in 0 .. MaxDeaths

-----------------------------------------------------------------------------
(* The bootstrap, a run of its own (Bootstrap.tla), gives the first snapshot. *)

Between(S, from, to) == {d \in S : from <= d /\ d <= to}

Served(p, from, to) ==
    {d \in Between(Sessions, from, to) : offered[p][d] # NoRow}

\* adjustment_factor changes at d, and the rows of from..to show it: they have
\* to hold a date before d.
FactorChanged(d, from, to) ==
    d \in Adjusted \cap (from .. to) /\ Between(Sessions, from, d - 1) # {}

BootstrapRun == <<"bootstrap", Oldest, First>>

Bootstrapped(d) == [p \in Asked |-> {offered[p][d]} \ {NoRow}]

\* _missing_records: the dates no provider has a row for, if the code has any.
MissingAmong(heard, dates) == IF heard # {} THEN dates \ heard ELSE {}

Init ==
    /\ offered \in Offers
    /\ raw = {[run |-> BootstrapRun, by |-> p, listed |-> TRUE, at |-> 0,
               rows |-> Restrict(offered[p], Served(p, Oldest, First))] :
                 p \in {q \in Asked : Served(q, Oldest, First) # {}}}
    /\ clock = 0
    /\ finished = {BootstrapRun}
    /\ latest = [asOf |-> First,
                 daily |-> [d \in Sessions |->
                    IF d > First THEN <<>>
                      ELSE SetToSeq(Canonical(Bootstrapped(d),
                                        FactorChanged(d, Oldest, First)))],
                 pool |-> Between(Sessions, Oldest, First)]
    /\ held = UNION {{d} \X Quarantine(Bootstrapped(d), FactorChanged(d, Oldest, First)) :
                       d \in Between(Sessions, Oldest, First)}
    /\ records = (UNION {{d} \X Verdicts(Bootstrapped(d), FactorChanged(d, Oldest, First)) :
                       d \in Between(Sessions, Oldest, First)})
                 \cup (MissingAmong(UNION {Served(p, Oldest, First) : p \in Asked},
                                    Between(Sessions, Oldest, First)) \X {"INCOMPLETE"})
    /\ pc = "idle" /\ run = NoRun
    /\ got = NothingGot /\ pooled = NoPool /\ factors = FALSE
    /\ todo = {} /\ due = NothingDue
    /\ revisions = 0 /\ gaps = 0 /\ deaths = 0

\* A provider corrects a row, or has it at last.
Revise(p, d, row) ==
    /\ pc = "idle" /\ revisions < MaxRevisions
    /\ row \in Given[p] /\ row # offered[p][d]
    /\ offered' = [offered EXCEPT ![p][d] = row]
    /\ revisions' = revisions + 1
    /\ UNCHANGED <<storage, registry, pc, call, todo, due, gaps, deaths>>

\* The call ends: its local variables are gone.
Leave ==
    /\ pc' = "idle" /\ run' = NoRun
    /\ got' = NothingGot /\ pooled' = NoPool /\ factors' = FALSE
    /\ todo' = {} /\ due' = NothingDue

-----------------------------------------------------------------------------
(* _update_impl *)

Start == latest.asOf - Window
Target == run[3]
NewDates == Between(Sessions, latest.asOf + 1, Target)

\* Mutant: the files of every update to that date are cleaned up.
CleanupTarget(id) == {f \in raw : f.run[3] # id[3]}

\* _cleanup_run_files: what an earlier call of the same run wrote.
Cleanup(id) == {f \in raw : f.run # id}

\* An update to the date of the latest snapshot, or one that is COMPLETED,
\* answers at once; one to an earlier date is refused.
BeginUpdate(to) ==
    LET id == <<"update", latest.asOf, to>>
    IN  /\ pc = "idle"
        /\ to > latest.asOf /\ id \notin finished
        /\ run' = id
        /\ raw' = Cleanup(id)
        /\ pc' = "fetch"
        /\ UNCHANGED <<world, clock, registry, got, pooled, factors, todo, due, gaps, deaths>>

\* No session since the latest snapshot: COMPLETED, and nothing is published.
NoNewDates ==
    /\ pc = "fetch" /\ NewDates = {}
    /\ finished' = finished \cup {run}
    /\ Leave
    /\ UNCHANGED <<world, storage, held, records, latest, gaps, deaths>>

\* Any row may be missing from an answer; a failing AKSHARE or BAOSTOCK is one
\* with no row, and so are a limit-up pool or factors that fail.
Fetch(served, pool, adj) ==
    /\ pc = "fetch" /\ NewDates # {}
    /\ \A p \in Asked : served[p] \subseteq Served(p, Start, Target)
    /\ gaps' = gaps + Cardinality({d \in NewDates : CanonicalPool(pool[d]) = {}})
                   + Cardinality({k \in Asked \X Sessions :
                                    k[2] \in Served(k[1], Start, Target) \ served[k[1]]})
                   + (IF adj THEN 0 ELSE 1)
    /\ gaps' <= MaxGaps
    /\ got' = [p \in Asked |-> Restrict(offered[p], served[p])]
    /\ pooled' = [d \in Sessions |-> IF d \in NewDates THEN pool[d] ELSE {}]
    /\ factors' = adj
    /\ pc' = "write"
    /\ UNCHANGED <<world, storage, registry, run, todo, due, deaths>>

File(p, listed) ==
    [run |-> run, by |-> p, rows |-> got[p], listed |-> listed, at |-> clock + 1]
Written(p) == \E f \in raw : f.run = run /\ f.by = p
Unwritten == {p \in Asked : got[p] # NoBatch /\ ~Written(p)}

\* _write_dataset: the file, then its row in source_files, provider by provider.
Write(p) ==
    /\ pc = "write" /\ p \in Unwritten
    /\ p = "AKSHARE" => "TUSHARE" \notin Unwritten
    /\ p = "BAOSTOCK" => Unwritten = {p}
    /\ raw' = raw \cup {File(p, TRUE)} /\ clock' = clock + 1
    /\ UNCHANGED <<world, registry, pc, call, todo, due, gaps, deaths>>

\* Death between the two leaves a file that is not listed.
DieWriting(p) ==
    /\ pc = "write" /\ p \in Unwritten
    /\ p = "AKSHARE" => "TUSHARE" \notin Unwritten
    /\ p = "BAOSTOCK" => Unwritten = {p}
    /\ deaths < MaxDeaths
    /\ raw' = raw \cup {File(p, FALSE)} /\ clock' = clock + 1
    /\ Leave
    /\ deaths' = deaths + 1
    /\ UNCHANGED <<world, registry, gaps>>

\* _historical_daily_rows: the last row stored by another run.
Historical(p, d) ==
    LET of == {f \in raw : f.listed /\ f.by = p /\ f.run # run /\ d \in DOMAIN f.rows}
    IN  {f.rows[d] : f \in {g \in of : \A h \in of : h.at <= g.at}}

\* The first of the rows published for a date as the provider's.
PublishedBy(p, d) ==
    LET of == {n \in DOMAIN latest.daily[d] : latest.daily[d][n].by = p}
    IN  {latest.daily[d][n].row : n \in {m \in of : \A k \in of : m <= k}}

\* fallback_rows: what a provider did not give now it is taken to say as it did
\* when it was published and when it was last stored.
Fallback(d) ==
    [p \in Sources |->
        IF p \in Asked /\ d \in DOMAIN got[p] THEN {got[p][d]}
        ELSE PublishedBy(p, d) \cup (IF p \in Asked THEN Historical(p, d) ELSE {})]

Confirmed(d) == factors /\ FactorChanged(d, Start, Target)

Replacement(d) ==
    IF d \in Between(Sessions, Start, Target)
      THEN SetToSeq(Canonical(Fallback(d), Confirmed(d)))
      ELSE <<>>

\* Mutant: the rows of the window are replaced, whether there are new ones.
FinalWindow(d) ==
    IF d \in Between(Sessions, Start, Target) THEN Replacement(d) ELSE latest.daily[d]

\* A date keeps its published rows if it has no replacement.
Final(d) == IF Replacement(d) # <<>> THEN Replacement(d) ELSE latest.daily[d]

Heard == {d \in Between(Sessions, Start, Target) : \E p \in Sources : Fallback(d)[p] # {}}

\* Mutant: the last of the new dates is left out.
MissingBefore == MissingAmong(Heard, {d \in NewDates : d < Target})

Missing == MissingAmong(Heard, NewDates)

FinalPool == latest.pool \cup {d \in NewDates : CanonicalPool(pooled[d]) # {}}

\* reconcile, then create_snapshot.
PublishUpdate ==
    LET window == Between(Sessions, Start, Target)
    IN  /\ pc = "write" /\ Unwritten = {}
        /\ latest' = [asOf |-> Target, daily |-> [d \in Sessions |-> Final(d)],
                      pool |-> FinalPool]
        /\ due' = [records |-> (UNION {{d} \X Verdicts(Fallback(d), Confirmed(d)) :
                                          d \in window})
                                 \cup (Missing \X {"INCOMPLETE"}),
                   held |-> (UNION {{d} \X Quarantine(Fallback(d), Confirmed(d)) :
                                          d \in window})
                              \cup (UNION {{d} \X QuarantinePool(pooled[d]) : d \in NewDates}),
                   released |-> {}]
        /\ pc' = "record"
        /\ UNCHANGED <<world, storage, finished, held, records, call, todo, gaps, deaths>>

\* The quarantine records with some more; one that was resolved is held again.
Holding(some) ==
    {h \in held : h[2] = Released => <<h[1], Unconfirmed>> \notin some} \cup some

\* The results of the run: its reconciliations, then what it quarantines.
RecordResults ==
    /\ pc = "record"
    /\ records' = records \cup due.records
    /\ held' = Holding(due.held)
    /\ pc' = "finish"
    /\ UNCHANGED <<world, storage, finished, latest, call, todo, due, gaps, deaths>>

\* They are inserted one by one, and a death leaves some of them.
DieRecording ==
    /\ pc = "record" /\ deaths < MaxDeaths
    /\ \/ /\ \E some \in SUBSET due.records : records' = records \cup some
          /\ UNCHANGED held
       \/ /\ records' = records \cup due.records
          /\ \E some \in SUBSET due.held : held' = Holding(some)
    /\ Leave
    /\ deaths' = deaths + 1
    /\ UNCHANGED <<world, storage, finished, latest, gaps>>

Finish ==
    /\ pc = "finish"
    /\ finished' = finished \cup {run}
    /\ Leave
    /\ UNCHANGED <<world, storage, held, records, latest, gaps, deaths>>

-----------------------------------------------------------------------------
(* _aux_backfill_impl *)

\* A backfill that is COMPLETED answers at once.
BeginBackfill(from, to) ==
    /\ pc = "idle" /\ <<from, to>> \in Backfills
    /\ Between(Sessions, from, to) # {}
    /\ <<"backfill", from, to>> \notin finished
    /\ run' = <<"backfill", from, to>>
    /\ pc' = "aux"
    /\ UNCHANGED <<world, storage, registry, got, pooled, factors, todo, due, gaps, deaths>>

\* The factors of the range are fetched under the run's own id, or are not
\* available, and the quarantined divergences are looked at one by one.
FetchFactors(adj) ==
    /\ pc = "aux"
    /\ factors' = adj
    /\ gaps' = gaps + (IF adj THEN 0 ELSE 1) /\ gaps' <= MaxGaps
    /\ todo' = IF adj THEN {d \in Sessions : <<d, Unconfirmed>> \in held} ELSE {}
    /\ pc' = "examine"
    /\ UNCHANGED <<world, storage, registry, run, got, pooled, due, deaths>>

\* The rows stored for a date, one for each provider: of several files, listed
\* or not, the one that is read last counts.
Stored(p, d) == {f.rows[d] : f \in {g \in raw : g.by = p /\ d \in DOMAIN g.rows}}

Readings(d) ==
    {[p \in Asked |-> {pick[p]} \ {NoRow}] :
        pick \in {f \in [Asked -> (UNION {Stored(p, d) : p \in Asked}) \cup {NoRow}] :
                    \A p \in Asked : IF Stored(p, d) = {} THEN f[p] = NoRow
                                       ELSE f[p] \in Stored(p, d)}}

\* A divergence that the factors explain is published by this run and no longer
\* held: the record is updated at once.
Examine(d) ==
    /\ pc = "examine" /\ d \in todo
    /\ \E given \in Readings(d) :
         LET adjusted == FactorChanged(d, run[2], run[3])
             explained == CorporateAction(given, adjusted) /\ Status(given) = "CONFIRMED"
             canonical == Canonical(given, adjusted)
         IN  IF explained /\ canonical # {}
               THEN /\ held' = (held \ {<<d, Unconfirmed>>}) \cup {<<d, Released>>}
                    /\ due' = [due EXCEPT !.released = @ \cup ({d} \X canonical),
                                          !.records = @ \cup {<<d, "CONFIRMED">>}]
               ELSE UNCHANGED <<held, due>>
    /\ todo' = todo \ {d}
    /\ UNCHANGED <<world, storage, finished, records, latest, pc, call, gaps, deaths>>

\* Released rows are added to the previous ones.
WithReleased(d) ==
    latest.daily[d] \o SetToSeq({x[2] : x \in {y \in due.released : y[1] = d}})

\* The snapshot is of the end date: latest_snapshot answers with it unless that
\* date is behind.
PublishBackfill ==
    /\ pc = "examine" /\ todo = {}
    /\ latest' = IF run[3] < latest.asOf THEN latest
                   ELSE [asOf |-> run[3], pool |-> latest.pool,
                         daily |-> [d \in Sessions |-> WithReleased(d)]]
    /\ pc' = "record"
    /\ UNCHANGED <<world, storage, finished, held, records, call, todo, due, gaps, deaths>>

-----------------------------------------------------------------------------

\* A promotion (Promotion.tla) of the next session, on the latest snapshot.
Promote(d, row) ==
    /\ pc = "idle" /\ row \in Promotable
    /\ Between(Sessions, latest.asOf + 1, d) = {d}
    /\ latest' = [asOf |-> d, pool |-> latest.pool \cup {d},
                  daily |-> [latest.daily EXCEPT ![d] =
                       <<[row |-> row, by |-> "TDX", status |-> "CONFIRMED"]>>]]
    /\ UNCHANGED <<world, storage, finished, held, records, pc, call, todo, due, gaps,
                   deaths>>

Die ==
    /\ pc # "idle" /\ deaths < MaxDeaths
    /\ Leave
    /\ deaths' = deaths + 1
    /\ UNCHANGED <<world, storage, registry, gaps>>

Step ==
    \/ NoNewDates
    \/ /\ pc = "fetch"
       /\ \E served \in [Asked -> SUBSET Between(Sessions, Start, Target)],
             pool \in [NewDates -> PoolAnswers], adj \in BOOLEAN :
            Fetch(served, pool, adj)
    \/ \E p \in Asked : Write(p)
    \/ PublishUpdate
    \/ \E adj \in BOOLEAN : FetchFactors(adj)
    \/ \E d \in Sessions : Examine(d)
    \/ PublishBackfill
    \/ RecordResults \/ Finish

Next ==
    \/ \E to \in Dates : BeginUpdate(to)
    \/ \E from, to \in Dates : BeginBackfill(from, to)
    \/ Step
    \/ \E p \in Asked, d \in Sessions, row \in Rows : Revise(p, d, row)
    \/ \E d \in Sessions, row \in Rows : Promote(d, row)
    \/ (\E p \in Asked : DieWriting(p)) \/ DieRecording \/ Die

Spec == Init /\ [][Next]_vars
-----------------------------------------------------------------------------
(* Properties *)

Listed(p, d, row) ==
    \E f \in raw : f.listed /\ f.by = p /\ d \in DOMAIN f.rows /\ f.rows[d] = row

\* A backfill reads raw files that a dead call wrote and never listed.
NotReleased(d) == held \cap ({d} \X {Released, Unconfirmed}) = {}

\* Every published row is in a listed raw file of its provider, whatever calls
\* failed, were repeated and cleaned up in between; only a date that a backfill
\* releases after a death may lose its file.
Traced ==
    \A d \in Sessions : deaths = 0 \/ NotReleased(d) =>
        \A n \in DOMAIN latest.daily[d] :
            LET c == latest.daily[d][n] IN c.by \in Asked => Listed(c.by, d, c.row)

\* A row published as TUSHARE's and CONFIRMED agrees with one that AKSHARE gave
\* for its date, however often either was revised or missing.
ConfirmedByTwo ==
    \A d \in Sessions : deaths = 0 \/ NotReleased(d) =>
        \A n \in DOMAIN latest.daily[d] :
            LET c == latest.daily[d][n]
            IN  c.by = "TUSHARE" /\ c.status = "CONFIRMED" =>
                    \E f \in raw :
                        /\ f.listed /\ f.by = "AKSHARE" /\ d \in DOMAIN f.rows
                        /\ BarsMatch(f.rows[d], c.row)

\* The file is of a run that came to d, or holds a row of it.
Reaches(f, d) ==
    d \in DOMAIN f.rows \/ (d <= f.run[3] /\ (f.run[1] = "update" => f.run[2] < d))

\* As long as no call died, a session that is not published has a record that
\* says why, once a provider gave a row of it or any row of the code to the run
\* that came to it: a backfill to a later date moves the frontier past sessions
\* that no run comes to.
Explained ==
    pc = "idle" /\ deaths = 0 =>
        \A d \in Between(Sessions, Oldest, latest.asOf) :
            latest.daily[d] = <<>> /\ (\E f \in raw : f.listed /\ Reaches(f, d)) =>
                \E v \in Verdict : <<d, v>> \in records

Chain == INSTANCE CanonicalChain WITH
    Rows <- Published, asOf <- latest.asOf, pool <- latest.pool,
    rows <- [d \in Dates |-> IF d \in Sessions THEN Range(latest.daily[d]) ELSE {}]

\* The snapshots that latest_snapshot answers with, updates, backfills and
\* promotions in any order, are the chain that CanonicalChain describes.
RefinesChain == Chain!Spec

\* _historical_daily_rows says that a transient gap never silently downgrades a
\* row that was confirmed: so if each provider gives nothing for a date, or what
\* it last gave, a CONFIRMED row of the date stays CONFIRMED.
NeverDowngraded ==
    [][pc = "write" /\ pc' = "record" =>
        \A d \in Sessions :
            /\ \E n \in DOMAIN latest.daily[d] : latest.daily[d][n].status = "CONFIRMED"
            /\ \A p \in Asked : d \in DOMAIN got[p] => Historical(p, d) = {got[p][d]}
            => \A n \in DOMAIN latest'.daily[d] :
                   latest'.daily[d][n].status = "CONFIRMED"]_vars
=============================================================================
