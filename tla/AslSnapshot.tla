---------------------------- MODULE AslSnapshot ----------------------------
(***************************************************************************)
(* asl_snapshot.build_asl_candidate_snapshot over a lake that moves while  *)
(* it is read, and data_validate of what it published.                     *)
(*                                                                         *)
(* The build takes the catalog and the calendar first and then a chunk of  *)
(* codes at a time, each in three reads that no lock joins; a chunk that   *)
(* raises ends the build, and the temporary file goes with it.             *)
(***************************************************************************)
EXTENDS AslLake

CONSTANTS
    Windows,    \* the windows that a build is asked for: first day, last day
    Requests,   \* the codes that it is asked for, or NoCodes for the scope
    MaxBuilds,  \* bound on the candidates published
    NoCodes, NoBuild

ASSUME WindowAssumption == Windows \subseteq (Days \cup {NoDay}) \X Days
ASSUME RequestAssumption ==
    Requests \subseteq (SUBSET Codes) \cup {NoCodes} /\ MaxBuilds \in Nat

VARIABLES
    build,      \* the call under way
    candidates  \* the snapshots it published, CURRENT and never promoted

vars == <<lake, build, candidates>>

Facts == [code : Codes, day : Days, close : Nat, preclose : Nat,
          trade : BOOLEAN, st : {"unknown", "normal", "st"}]

Init == LakeInit /\ build = NoBuild /\ candidates = {}

-----------------------------------------------------------------------------
(* The build.                                                              *)

NothingRead(sessions) ==
    [sessions |-> sessions, before |-> <<>>, bars |-> <<>>, statuses |-> <<>>]

ReadOrder(reader) ==
    IF reader = "query" THEN <<"before", "bars", "statuses">>
    ELSE <<"statuses", "bars", "before">>

\* The query reader takes the codes in chunks, the physical one all of them.
Chunkings(reader, codes) ==
    IF codes = {} THEN {{}}
    ELSE {{codes}} \cup (IF reader = "query" THEN {{{c} : c \in codes}} ELSE {})

\* The caller asks for a session that has come: for its scope, where it gives no
\* codes.  The physical reader checks the datasets first.
Begin ==
    \E reader \in {"query", "physical"}, request \in Requests, window \in Windows :
    LET from == window[1]
        asOf == window[2]
        asked == IF request # NoCodes THEN request
                 ELSE IF reader = "query" THEN QueryScope(asOf) ELSE PhysicalScope(asOf)
    IN /\ build = NoBuild /\ Cardinality(candidates) < MaxBuilds
       /\ asOf \in collected /\ asked # Raised
       /\ reader = "physical" => Partitioned(from, asOf)
       /\ \E chunks \in
            Chunkings(reader, IF reader = "query" THEN asked ELSE Catalogued(asked)) :
            build' = [reader |-> reader, from |-> from, asOf |-> asOf,
                      asked |-> asked, chunks |-> chunks, step |-> 1,
                      view |-> NothingRead(Sessions(from, asOf)), rows |-> {}]
       /\ UNCHANGED <<lake, candidates>>

\* The chunks are sorted by their codes, which no fact depends on.
Chunk == CHOOSE codes \in build.chunks : TRUE

ReadNow(what) ==
    CASE what = "before" ->
           IF build.reader = "query" THEN QueryBefore(Chunk, build.from)
           ELSE PhysicalBefore(Chunk, build.from)
      [] what = "bars" -> BarsRead(Chunk, build.view.sessions)
      [] what = "statuses" -> StatusesRead(Chunk, build.view.sessions)

Read ==
    /\ build # NoBuild /\ build.chunks # {} /\ build.step <= 3
    /\ LET what == ReadOrder(build.reader)[build.step]
       IN build' = [build EXCEPT !.step = @ + 1, !.view[what] = ReadNow(what)]
    /\ UNCHANGED <<lake, candidates>>

\* asl_rows_to_canonical_rows: the other rows leave no trace.
Canonical(rows) ==
    {[code |-> r.code, day |-> r.day, close |-> r.close, preclose |-> r.preclose,
      trade |-> r.trade, st |-> r.st] : r \in {q \in rows : q.status = "VALID_ROW"}}

\* create_snapshot writes no row that has no preclose.
Written(rows) == {r \in Canonical(rows) : r.preclose # NoClose}

\* Mutant: a chunk that raises is left out of the snapshot.
EmitOrSkip ==
    /\ build # NoBuild /\ build.step = 4
    /\ LET slice == Slice(build.view, Chunk)
           rows == IF slice = Raised THEN {} ELSE Written(slice.rows)
       IN build' = [build EXCEPT !.step = 1, !.chunks = @ \ {Chunk},
                                 !.view = NothingRead(@.sessions), !.rows = @ \cup rows]
    /\ UNCHANGED <<lake, candidates>>

\* The slice of a chunk goes to the temporary file, or the call raises.
Emit ==
    /\ build # NoBuild /\ build.step = 4
    /\ LET slice == Slice(build.view, Chunk)
       IN build' = IF slice = Raised THEN NoBuild
                   ELSE [build EXCEPT !.step = 1, !.chunks = @ \ {Chunk},
                                      !.view = NothingRead(@.sessions),
                                      !.rows = @ \cup Written(slice.rows)]
    /\ UNCHANGED <<lake, candidates>>

Publish ==
    /\ build # NoBuild /\ build.chunks = {}
    /\ candidates' = candidates \cup
         {[from |-> build.from, asOf |-> build.asOf, asked |-> build.asked,
           reader |-> build.reader, rows |-> build.rows]}
    /\ build' = NoBuild
    /\ UNCHANGED lake

Collecting == Collect /\ UNCHANGED <<build, candidates>>
Backfilling == (BackfillGap \/ BackfillSt) /\ UNCHANGED <<build, candidates>>
Refreshing == Refresh /\ UNCHANGED <<build, candidates>>

Next == Collecting \/ Backfilling \/ Refreshing \/ Begin \/ Read \/ Emit \/ Publish

Spec == Init /\ [][Next]_vars

-----------------------------------------------------------------------------
(* data_validate of a snapshot that declares ASL its authority.            *)

Positive(rows) == {r \in rows : r.close > 0}

\* The row before r in the order of the scan.
ScannedBefore(rows, r) == {q \in rows : q.code = r.code /\ q.day < r.day}

\* _asl_unique_and_preclose_issues; any two closes differ beyond tolerance.
ContinuityIssues(rows) ==
    {r \in rows : \E q \in ScannedBefore(rows, r) :
        /\ \A p \in ScannedBefore(rows, r) : p.day <= q.day
        /\ r.preclose # q.close}

\* _check_daily_row
PriceIssues(rows) == rows \ Positive(rows)

Valid(candidate) ==
    ContinuityIssues(candidate.rows) = {} /\ PriceIssues(candidate.rows) = {}

-----------------------------------------------------------------------------
(* Properties.                                                             *)

TypeOK ==
    /\ \A c \in Instruments : listing[c] \in Listings[c]
    /\ collected \subseteq Days
    /\ bars \in [Keys -> Bar \cup {NoBar}]
    /\ statuses \in [Keys -> Status \cup {NoRow}]
    /\ \A s \in candidates : s.rows \subseteq Facts
    /\ build # NoBuild => build.rows \subseteq Facts

(* The first three are about the lake alone, which is in no state that it   *)
(* does not also reach with no build under way.                            *)

AllWindows == {w \in (Days \cup {NoDay}) \X Days : w[1] # NoDay => w[1] <= w[2]}

\* Where the partitions of the window are there, the migration fallback answers
\* as the query reader does, whatever the chunks: the same rows, the same
\* absences, or both raise; and, where the month has a status, the same scope,
\* unless the codes of other boards are all that has bars on the day.
OnlyOthers(asOf) ==
    HasBars(asOf, asOf) /\ \A c \in Universe : BarOf(c, asOf) = NoBar
ReadersAgree ==
    build = NoBuild =>
    \A w \in AllWindows :
        /\ HasStatuses(w[2], w[2]) /\ ~OnlyOthers(w[2]) =>
             QueryScope(w[2]) = PhysicalScope(w[2])
        /\ Partitioned(w[1], w[2]) =>
             \A codes \in SUBSET Catalogued(Codes) : codes # {} =>
               LET answer == PhysicalFacts(codes \cup (Codes \ Catalogued(Codes)), w[1], w[2])
               IN \A chunks \in Chunkings("query", codes) :
                    answer = QueryFacts(chunks, w[1], w[2])

\* The facts of a day are those of the day, whichever window they are asked in:
\* neither how far back the window starts nor how far on it goes shows in them.
WindowIndependent ==
    build = NoBuild => \A c \in Instruments :
        LET answers == {[from |-> w[1], asOf |-> w[2],
                         facts |-> QueryFacts({{c}}, w[1], w[2])] : w \in AllWindows}
        IN \A a, b \in {x \in answers : x.facts # Raised} :
            {r \in a.facts.rows : r.day \in Sessions(b.from, b.asOf)} \subseteq b.facts.rows

\* What the feed says today of a past day reaches no fact of that day, unless
\* it has written over what the feed said on the day itself.
LateWord(k) ==
    /\ statuses'[k] # statuses[k]
    /\ statuses'[k].source \in {"eastmoney", "other"}
    /\ statuses'[k].fetched > k[2]
    /\ statuses[k] = NoRow \/ (statuses[k].source \in {"eastmoney", "other"}
                              /\ statuses[k].fetched > k[2])
NoHindsight ==
    [][build = NoBuild => \A k \in Keys : LateWord(k) =>
        \A w \in AllWindows : QueryFacts({{k[1]}}, w[1], w[2])'
                                = QueryFacts({{k[1]}}, w[1], w[2])]_vars

\* However the lake moves under a build, its candidate holds every bar that has
\* an amount and a predecessor, with the close before it as its preclose.
LastClose(c, d) ==
    LET valid == {e \in Days : e < d /\ BarOf(c, e) # NoBar /\ BarOf(c, e).close > 0}
    IN IF valid = {} THEN NoClose ELSE BarOf(c, Max(valid)).close
CandidateIsWhole ==
    \A s \in candidates :
        LET codes == IF s.reader = "query" THEN s.asked ELSE Catalogued(s.asked) IN
        {[code |-> r.code, day |-> r.day, close |-> r.close, preclose |-> r.preclose] :
            r \in s.rows}
          = {[code |-> k[1], day |-> k[2], close |-> bars[k].close,
              preclose |-> LastClose(k[1], k[2])] : k \in
               {j \in codes \X Sessions(s.from, s.asOf) :
                  /\ BarOf(j[1], j[2]) # NoBar /\ bars[j].amount
                  /\ LastClose(j[1], j[2]) # NoClose}}

\* The validator blames a row of a candidate only where the row before it was
\* left out for its amount or has no price.
OnlyDroppedAreBlamed ==
    \A s \in candidates : \A r \in ContinuityIssues(s.rows) :
        \E d \in Sessions(s.from, s.asOf) :
            /\ d < r.day /\ BarOf(r.code, d) # NoBar
            /\ ~bars[<<r.code, d>>].amount \/ bars[<<r.code, d>>].close = 0
            /\ \A q \in ScannedBefore(s.rows, r) : q.day <= d

=============================================================================
