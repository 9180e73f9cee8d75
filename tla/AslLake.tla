------------------------------ MODULE AslLake ------------------------------
(***************************************************************************)
(* The curated lake that an ASL installation keeps, as far as the adapters *)
(* read it, and what the two readers answer about it: asl_query_adapter.py *)
(* through the official query API, in chunks of codes, and asl_adapter.py  *)
(* through the files themselves, which is the migration fallback.          *)
(*                                                                         *)
(* A reader makes three reads of a chunk, and `view' is what they found:   *)
(* the closes before the window, the bars of it and the statuses of it.    *)
(* Whatever the facts cannot be derived from aborts the whole call: the    *)
(* answer is Raised.                                                       *)
(*                                                                         *)
(* The lake is external: a session's bars come with the session and are    *)
(* not revised, while statuses also come late, from the two histories      *)
(* that the adapter trusts or as a status of today given to a past day.    *)
(* Its catalog has a file, and its calendar covers the days of the model.  *)
(***************************************************************************)
EXTENDS Integers, FiniteSets, FiniteSetsExt

CONSTANTS
    Codes,          \* the codes that a call may name
    Universe,       \* those with a main-board prefix
    Instruments,    \* those in the lake's catalog
    Listings,       \* the listing and delisting days that each may have
    ClosesOf,       \* the closes that a code may have on a day
    LastDay,
    MonthOf,        \* the month of a day, of which trading_status is a partition
    MaxOdd,         \* bound on what is out of the ordinary in the lake
    NoBar, NoRow, NoDay, NoClose, Raised

Days == 0 .. LastDay

ASSUME CodeAssumption ==
    Instruments \subseteq Codes /\ Universe \subseteq Codes /\ IsFiniteSet(Codes)
ASSUME DayAssumption == LastDay \in Nat /\ MaxOdd \in Nat /\ NoDay \notin Int
ASSUME ListingAssumption ==
    \A c \in Instruments :
        Listings[c] \subseteq [list : Days \cup {NoDay}, delist : Nat \cup {NoDay}]
ASSUME CloseAssumption ==
    NoClose \notin Int /\ \A k \in Instruments \X Days : ClosesOf[k] \subseteq Nat \ {0}

\* How far a status is to be trusted, and why a bar may be absent.
Kinds == {"BAOSTOCK_ST", "DERIVED_GAP_SUSPENDED", "EASTMONEY_SAME_DAY",
          "NON_PIT_EASTMONEY", "UNKNOWN_STATUS"}
Reasons == {"SUSPENDED_BY_STATUS", "NOT_LISTED", "DELISTED"}

\* The answer of a call that does not abort.
Rows == [code : Codes, day : Days, close : Nat, preclose : Nat \cup {NoClose},
         trade : BOOLEAN, st : {"unknown", "normal", "st"},
         status : {"VALID_ROW", "MISSING_PRECLOSE", "MISSING_REQUIRED_AMOUNT"}]
Answers == [rows : SUBSET Rows,
            absent : SUBSET [code : Codes, day : Days, why : Reasons]]

ASSUME RaisedAssumption == Raised \notin Kinds \cup Reasons \cup Answers

VARIABLES
    listing,    \* instruments
    collected,  \* the sessions whose bars have come
    bars,       \* daily_bars
    statuses,   \* trading_status
    odd         \* how much was out of the ordinary

lake == <<listing, collected, bars, statuses, odd>>

Keys == Instruments \X Days
Bar == [close : Nat, traded : BOOLEAN, amount : BOOLEAN]
Status == [source : {"baostock", "derived_bar_gap", "eastmoney", "other"},
           status : {"normal", "st", "suspended"}, trading : BOOLEAN, fetched : Days]

BarOf(c, d) == IF <<c, d>> \in Keys THEN bars[<<c, d>>] ELSE NoBar
StatusOf(c, d) == IF <<c, d>> \in Keys THEN statuses[<<c, d>>] ELSE NoRow

Listed(c, d) ==
    /\ listing[c].list # NoDay => d >= listing[c].list
    /\ listing[c].delist # NoDay => d < listing[c].delist

-----------------------------------------------------------------------------
(* The lake.                                                               *)

LakeInit ==
    /\ listing \in {l \in [Instruments -> UNION {Listings[c] : c \in Instruments}] :
                     \A c \in Instruments : l[c] \in Listings[c]}
    /\ collected = {}
    /\ bars = [k \in Keys |-> NoBar]
    /\ statuses = [k \in Keys |-> NoRow]
    /\ odd = 0

Ordinary(c, d) == [close : ClosesOf[<<c, d>>], traded : {TRUE}, amount : {TRUE}]

\* No bar, one that has no amount, or the placeholder of a suspension.
Odd(c, d) ==
    {NoBar} \cup [close : ClosesOf[<<c, d>>], traded : {TRUE}, amount : {FALSE}]
            \cup [close : ClosesOf[<<c, d>>] \cup {0}, traded : {FALSE}, amount : {TRUE}]

\* The feed's row of today for a bar of today.
SameDay(bar, d) ==
    [source |-> "eastmoney", fetched |-> d,
     status |-> IF bar # NoBar /\ bar.traded THEN "normal" ELSE "suspended",
     trading |-> bar # NoBar /\ bar.traded]

ListedOn(d) == {c \in Instruments : Listed(c, d)}
FoundOn(d) ==
    {found \in [ListedOn(d) -> UNION {Ordinary(c, d) \cup Odd(c, d) : c \in ListedOn(d)}] :
        \A c \in ListedOn(d) : found[c] \in Ordinary(c, d) \cup Odd(c, d)}

\* The next session, with or without the daily status step.
Session(d, found, stepped) ==
    /\ \A e \in Days : e < d => e \in collected
    /\ odd' = odd + Cardinality({c \in ListedOn(d) : found[c] \in Odd(c, d)})
                  + (IF stepped THEN 0 ELSE 1)
    /\ odd' <= MaxOdd
    /\ collected' = collected \cup {d}
    /\ bars' = [k \in Keys |-> IF k[2] = d /\ k[1] \in ListedOn(d)
                               THEN found[k[1]] ELSE bars[k]]
    /\ statuses' = [k \in Keys |-> IF stepped /\ k[2] = d /\ k[1] \in ListedOn(d)
                                   THEN SameDay(found[k[1]], d) ELSE statuses[k]]
    /\ UNCHANGED listing

Collect ==
    \E d \in Days \ collected, stepped \in BOOLEAN :
        \E found \in FoundOn(d) : Session(d, found, stepped)

PutStatus(c, d, row) ==
    /\ odd < MaxOdd /\ odd' = odd + 1
    /\ statuses' = [statuses EXCEPT ![<<c, d>>] = row]
    /\ UNCHANGED <<listing, collected, bars>>

Today == Max(collected)

\* The historical suspensions, derived from the bars that are absent.
BackfillGap ==
    \E c \in Instruments, d \in collected :
        /\ Listed(c, d) /\ bars[<<c, d>>] = NoBar
        /\ PutStatus(c, d, [source |-> "derived_bar_gap", status |-> "suspended",
                            trading |-> FALSE, fetched |-> Today])

\* The historical ST list; a row of it that says anything else is malformed.
BackfillSt ==
    \E c \in Instruments, d \in collected, status \in {"st", "suspended"} :
        PutStatus(c, d, [source |-> "baostock", status |-> status,
                         trading |-> TRUE, fetched |-> Today])

\* A past day takes the status of today, from the feed or from elsewhere.
Late == [source : {"eastmoney"}, status : {"normal", "st"}, trading : {TRUE}]
        \cup [source : {"eastmoney", "other"}, status : {"suspended"}, trading : {FALSE}]
Refresh ==
    \E c \in Instruments, d \in collected, row \in Late :
        /\ d < Today
        /\ PutStatus(c, d, [source |-> row.source, status |-> row.status,
                            trading |-> row.trading, fetched |-> Today])

-----------------------------------------------------------------------------
(* What the readers share.                                                 *)

\* Mutant: the feed is believed whenever it was fetched.
TrustWithHindsight(row, d) ==
    CASE row.source = "baostock" ->
           IF row.status = "st" /\ row.trading THEN "BAOSTOCK_ST" ELSE Raised
      [] row.source = "derived_bar_gap" ->
           IF row.status = "suspended" /\ ~row.trading
           THEN "DERIVED_GAP_SUSPENDED" ELSE Raised
      [] row.source = "eastmoney" -> "EASTMONEY_SAME_DAY"
      [] row.source = "other" -> "UNKNOWN_STATUS"

\* _classify_status_provenance
Trust(row, d) ==
    CASE row.source = "baostock" ->
           IF row.status = "st" /\ row.trading THEN "BAOSTOCK_ST" ELSE Raised
      [] row.source = "derived_bar_gap" ->
           IF row.status = "suspended" /\ ~row.trading
           THEN "DERIVED_GAP_SUSPENDED" ELSE Raised
      [] row.source = "eastmoney" ->
           IF row.fetched = d THEN "EASTMONEY_SAME_DAY" ELSE "NON_PIT_EASTMONEY"
      [] row.source = "other" -> "UNKNOWN_STATUS"

TrustedKinds == {"BAOSTOCK_ST", "DERIVED_GAP_SUSPENDED", "EASTMONEY_SAME_DAY"}

\* The trusted row of a key, the only one that the facts may come from.
Trusted(view, c, d) ==
    LET row == view.statuses[<<c, d>>]
    IN IF row # NoRow /\ Trust(row, d) \in TrustedKinds THEN row ELSE NoRow

\* _status_mapping: tradeable, and whether ST where that is known.
StatusFacts(row, d, bar) ==
    IF row = NoRow THEN [trade |-> bar.traded, st |-> "unknown"]
    ELSE CASE Trust(row, d) = "BAOSTOCK_ST" -> [trade |-> TRUE, st |-> "st"]
           [] Trust(row, d) = "DERIVED_GAP_SUSPENDED" ->
                [trade |-> FALSE, st |-> "unknown"]
           [] ~row.trading \/ row.status = "suspended" ->
                [trade |-> FALSE, st |-> IF row.status = "st" THEN "st" ELSE "unknown"]
           [] row.trading /\ row.status \in {"normal", "st"} ->
                [trade |-> TRUE, st |-> row.status]

\* Why a session of a code may lack its bar; Raised where nothing says so.
Absence(view, c, d) ==
    LET row == Trusted(view, c, d)
    IN CASE row # NoRow /\ Trust(row, d) # "BAOSTOCK_ST"
            /\ (~row.trading \/ row.status = "suspended") -> "SUSPENDED_BY_STATUS"
         [] OTHER ->
              IF c \notin Instruments THEN Raised
              ELSE IF listing[c].list # NoDay /\ d < listing[c].list THEN "NOT_LISTED"
              ELSE IF listing[c].delist # NoDay /\ d >= listing[c].delist THEN "DELISTED"
              ELSE Raised

\* Mutant: the placeholder of a suspension does not carry the chain.
ChainedByTrades(view, c, d) ==
    LET valid == {e \in view.sessions : /\ e < d /\ view.bars[<<c, e>>] # NoBar
                                        /\ view.bars[<<c, e>>].traded}
    IN IF valid # {} THEN view.bars[<<c, Max(valid)>>].close ELSE view.before[c]

\* The close that the chain of c stands at when it comes to day d.
Chained(view, c, d) ==
    LET valid == {e \in view.sessions : /\ e < d /\ view.bars[<<c, e>>] # NoBar
                                        /\ view.bars[<<c, e>>].close > 0}
    IN IF valid # {} THEN view.bars[<<c, Max(valid)>>].close ELSE view.before[c]

RowStatus(bar, preclose) ==
    IF preclose = NoClose THEN "MISSING_PRECLOSE"
    ELSE IF ~bar.amount THEN "MISSING_REQUIRED_AMOUNT" ELSE "VALID_ROW"

Emitted(view, c, d) ==
    LET bar == view.bars[<<c, d>>]
        preclose == Chained(view, c, d)
        facts == StatusFacts(Trusted(view, c, d), d, bar)
    IN [code |-> c, day |-> d, close |-> bar.close, preclose |-> preclose,
        trade |-> facts.trade, st |-> facts.st, status |-> RowStatus(bar, preclose)]

\* Some row of the chunk is malformed, or the absence of some bar is not proven.
Unproven(view, codes) ==
    \E c \in codes :
        \/ \E d \in view.sessions : view.statuses[<<c, d>>] # NoRow
                                    /\ Trust(view.statuses[<<c, d>>], d) = Raised
        \/ \E d \in view.sessions : view.bars[<<c, d>>] = NoBar
                                    /\ Absence(view, c, d) = Raised

\* One slice: the rows of every bar, and the reason of every absence.
Slice(view, codes) ==
    IF Unproven(view, codes) THEN Raised
    ELSE [rows |-> {Emitted(view, k[1], k[2]) : k \in
                      {j \in codes \X view.sessions : view.bars[j] # NoBar}},
          absent |-> {[code |-> k[1], day |-> k[2], why |-> Absence(view, k[1], k[2])] :
                        k \in {j \in codes \X view.sessions : view.bars[j] = NoBar}}]

-----------------------------------------------------------------------------
(* Each read of either reader.  `from' is NoDay when the window is open.   *)

Sessions(from, asOf) == {d \in Days : d <= asOf /\ (from # NoDay => d >= from)}

BarsRead(codes, sessions) == [k \in codes \X sessions |-> BarOf(k[1], k[2])]
StatusesRead(codes, sessions) == [k \in codes \X sessions |-> StatusOf(k[1], k[2])]

\* Mutant: the predecessor is the close of the session before the window.
QueryBeforeYesterday(codes, from) ==
    [c \in codes |->
        IF from = NoDay \/ BarOf(c, from - 1) = NoBar THEN NoClose
        ELSE BarOf(c, from - 1).close]

\* _predecessor_closes: the last positive close before the window.
QueryBefore(codes, from) ==
    [c \in codes |->
        LET valid == {d \in Days : /\ from # NoDay /\ d < from /\ BarOf(c, d) # NoBar
                                   /\ BarOf(c, d).close > 0}
        IN IF valid # {} THEN BarOf(c, Max(valid)).close ELSE NoClose]

\* Mutant: the search stops at the partition of the listing day, not below it.
PhysicalAboveListing(codes, from) ==
    [c \in codes |->
        LET list == listing[c].list
            valid == {d \in Days : /\ from # NoDay /\ d < from
                                   /\ list # NoDay => list < from /\ d > list
                                   /\ BarOf(c, d) # NoBar /\ BarOf(c, d).close > 0}
        IN IF valid # {} THEN BarOf(c, Max(valid)).close ELSE NoClose]

\* _find_predecessor_closes: newest to oldest, as far as the listing goes.
PhysicalBefore(codes, from) ==
    [c \in codes |->
        LET list == listing[c].list
            valid == {d \in Days : /\ from # NoDay /\ d < from
                                   /\ list # NoDay => list < from /\ d >= list
                                   /\ BarOf(c, d) # NoBar /\ BarOf(c, d).close > 0}
        IN IF valid # {} THEN BarOf(c, Max(valid)).close ELSE NoClose]

\* The codes that the physical reader reads, which leaves out the others.
Catalogued(codes) == codes \cap Universe \cap Instruments

\* _validate_required_datasets: some day of the window has a partition of bars,
\* and some month of it one of statuses.
HasBars(from, asOf) ==
    \E k \in Keys : k[2] \in Sessions(from, asOf) /\ bars[k] # NoBar
HasStatuses(from, asOf) ==
    \E k \in Keys, d \in Sessions(from, asOf) :
        MonthOf[k[2]] = MonthOf[d] /\ statuses[k] # NoRow
Partitioned(from, asOf) == HasBars(from, asOf) /\ HasStatuses(from, asOf)

\* query_asof_scope, which wants a bar of the universe on a session.
QueryScope(asOf) ==
    LET universe == Universe \cap Instruments
    IN IF \A c \in universe : BarOf(c, asOf) = NoBar THEN Raised
       ELSE {c \in universe : /\ Listed(c, asOf) /\ BarOf(c, asOf) # NoBar
                              /\ BarOf(c, asOf).traded}

\* resolve_asl_asof_scope, which wants the partitions of the session.
PhysicalScope(asOf) ==
    IF ~Partitioned(asOf, asOf) THEN Raised
    ELSE {c \in Catalogued(Codes) : /\ Listed(c, asOf) /\ BarOf(c, asOf) # NoBar
                                    /\ BarOf(c, asOf).traded}

-----------------------------------------------------------------------------
(* A whole call against a lake at rest.                                    *)

View(codes, sessions, before) ==
    [sessions |-> sessions, before |-> before,
     bars |-> BarsRead(codes, sessions), statuses |-> StatusesRead(codes, sessions)]

Together(slices) ==
    IF Raised \in slices THEN Raised
    ELSE [rows |-> UNION {s.rows : s \in slices}, absent |-> UNION {s.absent : s \in slices}]

\* query_daily_facts over chunks, a partition of the requested codes.
QueryFacts(chunks, from, asOf) ==
    Together({Slice(View(codes, Sessions(from, asOf), QueryBefore(codes, from)), codes) :
                codes \in chunks})

\* load_asl_daily_slice
PhysicalFacts(codes, from, asOf) ==
    LET read == Catalogued(codes)
        sessions == Sessions(from, asOf)
    IN IF ~Partitioned(from, asOf) THEN Raised
       ELSE Slice(View(read, sessions, PhysicalBefore(read, from)), read)

=============================================================================
