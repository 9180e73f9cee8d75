------------------------------ MODULE Staging ------------------------------
(***************************************************************************)
(* The ADR-008 path, row by row: providers/tdx_daily.py and                *)
(* tencent_daily.py are asked for some sessions, warehouse/staging.py      *)
(* builds a candidate from what they gave, and promotion.py appends its    *)
(* CONFIRMED rows to a base snapshot behind the gates.                     *)
(*                                                                         *)
(* A snapshot is its content, as its id is the hash of it.  How the files  *)
(* and the registry rows of one promotion reach the disk is the subject of *)
(* Promotion: here a call is one step and its rows are spelled out.  The   *)
(* caller, which the repository leaves to its operator, is careful: it     *)
(* hands over the candidate of the last staging run with its own sessions, *)
(* the universe of the base, and only true suspensions as such.            *)
(***************************************************************************)
EXTENDS Integers, FiniteSets, FiniteSetsExt

CONSTANTS
    Codes, MainBoard,
    RootCloses,    \* the CONFIRMED rows of session 0, code by code
    Histories,     \* the closes that TDX may report, NoTrade where suspended
    Sessions,
    Recent,        \* the bars of a code that TDX is asked for: 5 in the code
    Tolerance,     \* of one preclose against another, in ticks
    LimitTolerance, \* limit_price_tolerance, in ticks: one in the configuration
    Faults,        \* what may go wrong with one key at the providers
    Failing,       \* bound: the codes that Tencent may give nothing for
    MaxBatch,      \* bound on the sessions of a staging run
    MaxFaults,     \* bound on the faults of a staging run
    MaxSnapshots,  \* bound on the snapshots promoted
    NoTrade, NoPrice, NoCandidate

ASSUME CodesAssumption ==
    MainBoard \subseteq Codes /\ DOMAIN RootCloses \subseteq Codes
ASSUME PriceAssumption ==
    /\ Tolerance \in Nat /\ LimitTolerance \in Nat
    /\ NoTrade \notin Int /\ NoPrice \notin Int /\ NoTrade # NoPrice
    /\ \A c \in DOMAIN RootCloses : RootCloses[c] \in Nat \ {0}
    /\ Histories \subseteq [Codes -> [Sessions -> Nat \cup {NoTrade}]]
ASSUME SessionAssumption ==
    /\ Sessions \subseteq Nat \ {0}
    /\ \E last \in Sessions : \A d \in Sessions : d <= last
ASSUME BoundAssumption ==
    /\ Recent \in Nat \ {0} /\ Failing \subseteq SUBSET Codes
    /\ MaxBatch \in Nat /\ MaxFaults \in Nat /\ MaxSnapshots \in Nat
ASSUME FaultAssumption ==
    Faults \subseteq {"malformed", "unexpected", "absent", "twice", "differs"}

Keys == Codes \X Sessions
Bars == [code : Codes, day : Nat, close : Nat, pre : Nat \cup {NoPrice}]

VARIABLES
    traded,     \* the closes at the exchange, which never change
    snapshots,  \* the usable snapshots: what each holds and how far
    published,  \* the promotion records: snapshot, base, sessions
    candidate,  \* tmp/staging/adr008: the last run's candidate and manifest
    cache       \* cache_dir: the sessions that Tencent's file of a code holds

vars == <<traded, snapshots, published, candidate, cache>>

\* The seed's history, cut down to its last session.
Root == [asOf |-> 0, pool |-> {},
         rows |-> {[code |-> c, day |-> 0, close |-> RootCloses[c],
                    pre |-> RootCloses[c]] : c \in DOMAIN RootCloses}]

Init ==
    /\ traded \in Histories
    /\ snapshots = {Root}
    /\ published = {}
    /\ candidate = NoCandidate
    /\ cache = [c \in Codes |-> {}]

-----------------------------------------------------------------------------
(* continuity.py and validate.py, which staging and promotion share.       *)

LastRow(rows, c) ==
    CHOOSE r \in rows : /\ r.code = c
                        /\ \A q \in rows : q.code = c => q.day <= r.day

\* load_seed_previous_closes: the last CONFIRMED close of each code, as of the
\* snapshot's date.
SeedCloses(snapshot) ==
    LET known == {r \in snapshot.rows : r.day <= snapshot.asOf}
    IN [c \in {r.code : r \in known} |-> LastRow(known, c).close]

\* The close of c before day d along closes, a function of keys.
Previous(closes, seed, c, d) ==
    LET earlier == {k \in DOMAIN closes : k[1] = c /\ k[2] < d /\ closes[k] > 0}
    IN IF earlier # {} THEN closes[<<c, Max({k[2] : k \in earlier})>>]
       ELSE IF c \in DOMAIN seed THEN seed[c] ELSE NoPrice

\* preclose_continuity_issues: a row with no known predecessor is not examined.
Near(x, y) == x - y <= Tolerance /\ y - x <= Tolerance
Mismatches(rows, closes, seed) ==
    {r \in rows : LET p == Previous(closes, seed, r.code, r.day)
                  IN p # NoPrice /\ ~Near(r.pre, p)}

-----------------------------------------------------------------------------
(* The providers.                                                          *)

TradedOn(c, days) == {d \in days : traded[c][d] # NoTrade}

\* fetch_tdx_daily: of the last few bars of the code, as of today, those that
\* are of the sessions.
TdxBars(c, days, today) ==
    {d \in TradedOn(c, days) :
        Cardinality({e \in TradedOn(c, Sessions) : d <= e /\ e <= today}) <= Recent}

\* fetch_tencent_daily with a cache_dir: a file is never looked at again for the
\* sessions it holds, and only an answer with rows makes one.
TencentFiles(days, failed) ==
    [c \in Codes |-> IF cache[c] # {} \/ c \in failed THEN cache[c]
                     ELSE TradedOn(c, days)]

FetchTencent(days, failed) ==
    /\ candidate = NoCandidate
    /\ cache' = TencentFiles(days, failed)
    /\ UNCHANGED <<traded, snapshots, published, candidate>>

\* What Tencent answers for a code, without a cache.
TencentBars(c, days) == TradedOn(c, days)

\* normalize_tdx_daily_row raises on a fault at some keys of the run: the row is
\* malformed, or lost to an error of an unknown class.
Normalized(k, fault) ==
    ~(k \in DOMAIN fault /\ fault[k] \in {"malformed", "unexpected"})

\* normalize_tencent_daily_row: a row that cannot be normalized is absent.
Heard(k, fault) == ~(k \in DOMAIN fault /\ fault[k] = "absent")

-----------------------------------------------------------------------------
(* Staging.                                                                *)

\* The rows of TDX and of Tencent that are left after normalization.
Reported(days, tdx, fault) ==
    {k \in Codes \X days : k[2] \in tdx[k[1]] /\ Normalized(k, fault)}
Confirming(tencent, fault) ==
    {k \in Keys : k[2] \in tencent[k[1]] /\ Heard(k, fault)}

\* reconcile_adr008_rows: TDX's row stands, Tencent's confirms it or does not;
\* it is given twice, or is another.
Verdict(k, confirming, fault) ==
    IF k \notin confirming THEN "PROVISIONAL"
    ELSE IF k \notin DOMAIN fault THEN "CONFIRMED"
    ELSE CASE fault[k] = "twice" -> "PROVISIONAL"
           [] fault[k] = "differs" -> "CONFLICTED"

\* Every close of TDX's becomes the next predecessor, confirmed or not; a row
\* without one is INCOMPLETE.
StagedRow(k, closes, confirming, seed, fault) ==
    LET pre == Previous(closes, seed, k[1], k[2])
    IN [code |-> k[1], day |-> k[2], close |-> closes[k], pre |-> pre,
        status |-> IF pre = NoPrice THEN "INCOMPLETE" ELSE Verdict(k, confirming, fault)]

\* The requested universe: a code of the seed, or of either provider.  The rows
\* of it that TDX has not given are filled in.
FillIns(seed, days, closes, confirming) ==
    LET heard == {k[1] : k \in DOMAIN closes \cup confirming}
    IN {[code |-> k[1], day |-> k[2], close |-> NoPrice,
         pre |-> Previous(closes, seed, k[1], k[2]), status |-> "INCOMPLETE"] :
          k \in ((DOMAIN seed \cup heard) \X days) \ DOMAIN closes}

\* failure_registry.py: a malformed row has a class of its own, other errors none.
Unclassified(fault) == {k \in DOMAIN fault : fault[k] = "unexpected"}

\* No unclassified failure, and the continuity gate over the staged rows.
Eligible(rows, closes, seed, fault) ==
    /\ Unclassified(fault) = {}
    /\ Mismatches({r \in rows : r.pre # NoPrice /\ r.close # NoPrice},
                  closes, seed) = {}

\* run_adr008_staging over the rows that the providers gave.
Stage(base, days, tdx, tencent, fault) ==
    LET seed == SeedCloses(base)
        closes == [k \in Reported(days, tdx, fault) |-> traded[k[1]][k[2]]]
        confirming == Confirming(tencent, fault)
        rows == {StagedRow(k, closes, confirming, seed, fault) : k \in DOMAIN closes}
    IN /\ candidate = NoCandidate /\ days # {}
       /\ candidate' = [days |-> days,
                        rows |-> rows \cup FillIns(seed, days, closes, confirming),
                        eligible |-> Eligible(rows, closes, seed, fault)]
       /\ UNCHANGED <<traded, snapshots, published, cache>>

\* The caller stages anew: the candidate is not promoted any more.
GiveUp ==
    /\ candidate # NoCandidate /\ candidate' = NoCandidate
    /\ UNCHANGED <<traded, snapshots, published, cache>>

-----------------------------------------------------------------------------
(* Promotion.                                                              *)

\* Only what is CONFIRMED is published; whether the run was eligible is not asked.
NewRows(rows) == {r \in rows : r.status = "CONFIRMED"}

Bar(r) == [code |-> r.code, day |-> r.day, close |-> r.close, pre |-> r.pre]

\* phase2d0_universe_from_snapshot: the main-board codes with a CONFIRMED row.
Members(snapshot) == {r.code : r \in snapshot.rows} \cap MainBoard

\* A session is a day on which the market trades: some code of the universe that
\* the root snapshot starts with does.
ASSUME MarketAssumption ==
    \A h \in Histories : \A d \in Sessions :
        \E c \in DOMAIN RootCloses \cap MainBoard : h[c][d] # NoTrade

\* theoretical_limit_price: a tenth above the preclose, to the nearest tick.
LimitPrice(pre) == (11 * pre + 5) \div 10
\* is_limit_close, by at_price
IsLimitClose(r) ==
    LET limit == LimitPrice(r.pre)
    IN r.close - limit <= LimitTolerance /\ limit - r.close <= LimitTolerance
LimitKeys(rows, codes) ==
    {<<r.code, r.day>> : r \in {q \in rows : q.code \in codes /\ IsLimitClose(q)}}

\* The caller derives the events of the staged rows: of all or of the CONFIRMED
\* ones, for every code or for the universe.
DerivedEvents(rows, base) ==
    {LimitKeys(some, codes) :
       some \in {NewRows(rows), {r \in rows : r.close # NoPrice /\ r.pre # NoPrice}},
       codes \in {Codes, Members(base)}}

\* Mutant: a predecessor is looked for among all staged rows, as staging does.
ContinuousAsStaged(rows, base) ==
    LET given == {r \in rows : r.close # NoPrice}
        closes == [k \in {<<r.code, r.day>> : r \in given} |->
                     (CHOOSE r \in given : r.code = k[1] /\ r.day = k[2]).close]
    IN Mismatches(NewRows(rows), closes, SeedCloses(base)) = {}

\* The continuity gate: along the rows about to be published, from this base.
Continuous(rows, base) ==
    LET new == NewRows(rows)
        closes == [k \in {<<r.code, r.day>> : r \in new} |->
                     (CHOOSE r \in new : r.code = k[1] /\ r.day = k[2]).close]
    IN Mismatches(new, closes, SeedCloses(base)) = {}

\* Mutant: any staged row covers its session.
CoveredByGiven(rows, base, days, verified) ==
    \A k \in Members(base) \X days :
       \/ \E r \in rows : <<r.code, r.day>> = k /\ r.close # NoPrice
       \/ k \in verified

\* classify_daily_coverage: no member misses a session without an explanation.
Covered(rows, base, days, verified) ==
    \A k \in Members(base) \X days :
       \/ \E r \in NewRows(rows) : <<r.code, r.day>> = k
       \/ k \in verified

\* Mutant: what should not be in the pool is not looked for.
PoolPresent(rows, base, events) ==
    LimitKeys(NewRows(rows), Members(base)) \subseteq events

\* The pool gates: the events are the members' limit closes, each traceable.
PoolMatches(rows, base, events) ==
    /\ events = LimitKeys(NewRows(rows), Members(base))
    /\ events \subseteq {<<r.code, r.day>> : r \in NewRows(rows)}

\* The price gate of _validate_new_rows.
Priced(rows) == \A r \in NewRows(rows) : r.close > 0

\* _duckdb_historical_parity: up to the base's as_of the file is the base's.
HistoryKept(rows, base) == \A r \in NewRows(rows) : r.day > base.asOf

\* promote_snapshot.  Content that is already a usable snapshot is answered
\* before any gate, unless its rows come in another order, which has another id.
Promote(base, events, verified) ==
    LET rows == candidate.rows
        days == candidate.days
        new == [asOf |-> Max(days),
                rows |-> base.rows \cup {Bar(r) : r \in NewRows(rows)},
                pool |-> base.pool \cup events]
    IN /\ candidate # NoCandidate
       /\ \/ /\ new \in snapshots
             /\ UNCHANGED <<snapshots, published>>
          \/ /\ Priced(rows)
             /\ HistoryKept(rows, base)
             /\ Covered(rows, base, days, verified)
             /\ PoolMatches(rows, base, events)
             /\ Continuous(rows, base)
             /\ snapshots' = snapshots \cup {new}
             /\ published' = published \cup
                   {[snapshot |-> new, base |-> base, days |-> days]}
       /\ UNCHANGED <<traded, candidate, cache>>

\* set_snapshot_status withdraws a snapshot, for seeding and as a base.
Withdraw(s) ==
    /\ snapshots' = snapshots \ {s}
    /\ UNCHANGED <<traded, published, candidate, cache>>

-----------------------------------------------------------------------------
Batches == UNION {kSubset(n, Sessions) : n \in 1 .. MaxBatch}
Suspended == {k \in Keys : traded[k[1]][k[2]] = NoTrade}
FaultsOf(days) ==
    UNION {[ks -> Faults] : ks \in UNION {kSubset(n, (Codes \X days) \ Suspended) :
                                            n \in 0 .. MaxFaults}}

\* Tencent is asked without a cache, or its files are used as they are.
StageSome ==
    \E base \in snapshots, days \in Batches :
       \E fault \in FaultsOf(days),
          tdx \in {[c \in Codes |-> TdxBars(c, days, today)] :
                     today \in {d \in Sessions : d >= Max(days)}},
          tencent \in {cache, [c \in Codes |-> TencentBars(c, days)]} :
             Stage(base, days, tdx, tencent, fault)

PromoteSome ==
    /\ candidate # NoCandidate
    /\ \E base \in snapshots, verified \in {{}, Suspended} :
          \E events \in DerivedEvents(candidate.rows, base) :
             Promote(base, events, verified)

Next ==
    /\ Cardinality(published) < MaxSnapshots
    /\ \/ \E days \in Batches, failed \in Failing : FetchTencent(days, failed)
       \/ StageSome \/ GiveUp
       \/ PromoteSome
       \/ \E s \in snapshots : Withdraw(s)

Spec == Init /\ [][Next]_vars

-----------------------------------------------------------------------------
Snapshots == [asOf : Nat, pool : SUBSET Keys, rows : SUBSET Bars]

TypeOK ==
    /\ traded \in Histories
    /\ snapshots \subseteq Snapshots
    /\ published \subseteq [snapshot : Snapshots, base : Snapshots, days : SUBSET Sessions]
    /\ candidate # NoCandidate =>
          /\ candidate.days \in (SUBSET Sessions) \ {{}}
          /\ \A r \in candidate.rows :
                /\ <<r.code, r.day>> \in Codes \X candidate.days
                /\ r.status = "CONFIRMED" => Bar(r) \in Bars /\ r.pre # NoPrice
    /\ cache \in [Codes -> SUBSET Sessions]

Earlier(s, r) == {q \in s.rows : q.code = r.code /\ q.day < r.day}

\* Whatever runs were staged from whatever seeds, and whichever base and batch
\* were put together, the preclose of a published row is, within the tolerance,
\* the close of the row published before it for the code.
PublishedChain ==
    \A p \in published : \A r \in p.snapshot.rows :
       r.day > 0 /\ Earlier(p.snapshot, r) # {} =>
          Near(r.pre, LastRow(Earlier(p.snapshot, r), r.code).close)

\* A code the universe has taken in has every bar it traded on the sessions of a
\* promotion, with the close the exchange had.
MembersCovered ==
    \A p \in published : \A k \in Members(p.base) \X p.days :
       traded[k[1]][k[2]] # NoTrade =>
          \E r \in p.snapshot.rows : /\ <<r.code, r.day>> = k
                                      /\ r.close = traded[k[1]][k[2]]

\* The pool that a chain of promotions adds up to names no bar that closed
\* further from the limit than the tolerance, and every other bar of a code the
\* root has.
PoolIsLimitCloses ==
    \A p \in published :
       LET new == {r \in p.snapshot.rows : r.day > 0}
       IN /\ p.snapshot.pool \subseteq LimitKeys(new, MainBoard)
          /\ LimitKeys(new, Members(Root)) \subseteq p.snapshot.pool

=============================================================================
