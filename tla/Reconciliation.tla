--------------------------- MODULE Reconciliation ---------------------------
(***************************************************************************)
(* warehouse/reconciliation.py: what is published for one code and one     *)
(* date, given the rows the providers gave for it.  A row is told apart by *)
(* its bar (open, high, low, close, volume and amount together, on a scale *)
(* on which what differs by at most Tolerance agrees), its preclose, and   *)
(* whether its pct_change agrees with the two.  Equal rows have one        *)
(* row_hash and different rows have different ones.                        *)
(***************************************************************************)
EXTENDS Integers, FiniteSets

CONSTANTS
    Bars, Precloses,  \* the prices in use
    Tolerance,        \* ReconciliationPolicy
    NoPrice           \* a preclose that is None

ASSUME PriceAssumption ==
    /\ Bars \subseteq Int /\ Precloses \subseteq Int
    /\ Tolerance \in Nat
    /\ NoPrice \notin Int

Rows == [bar : Bars, pre : Precloses \cup {NoPrice}, pct : BOOLEAN]

Providers == {"TUSHARE", "AKSHARE", "BAOSTOCK"}

\* ADR-008 publishes under the name of its primary provider.
Sources == Providers \cup {"TDX"}

Reasons == {"PROVIDER_INTERNAL_CONFLICT", "OHLC_CONFLICT",
            "PRECLOSE_DIVERGENCE_UNCONFIRMED"}

\* A row of the canonical layer: a provider's row, whole.
Published == [row : Rows, by : Sources, status : {"CONFIRMED", "PROVISIONAL"}]

Near(x, y) == x - y <= Tolerance /\ y - x <= Tolerance

BarsMatch(l, r) == Near(l.bar, r.bar)
PreclosesMatch(l, r) == l.pre = NoPrice \/ r.pre = NoPrice \/ Near(l.pre, r.pre)

-----------------------------------------------------------------------------
(* given[p] is the set of different rows that p gave.                      *)

\* A provider that contradicts itself is quarantined and says nothing.
Usable(given) == {p \in DOMAIN given : \E row \in given[p] : given[p] = {row}}
Contradicting(given) == {p \in DOMAIN given : \E l, r \in given[p] : l # r}
RowOf(given, p) == CHOOSE r \in given[p] : TRUE

BarsConflict(given) ==
    \E p, q \in Usable(given) : ~BarsMatch(RowOf(given, p), RowOf(given, q))

PreclosesDiverge(given) ==
    \E p, q \in Usable(given) : ~PreclosesMatch(RowOf(given, p), RowOf(given, q))

PctAgrees(row) == row.pct

\* A divergence in preclose alone is a corporate action if the adjustment factor
\* says so and TUSHARE's row is consistent with itself.
CorporateAction(given, adjusted) ==
    /\ PreclosesDiverge(given)
    /\ "TUSHARE" \in Usable(given)
    /\ adjusted
    /\ PctAgrees(RowOf(given, "TUSHARE"))

Conflicts(given, adjusted) ==
    IF BarsConflict(given) THEN {"OHLC_CONFLICT"}
    ELSE IF PreclosesDiverge(given) /\ ~CorporateAction(given, adjusted)
           THEN {"PRECLOSE_DIVERGENCE_UNCONFIRMED"}
           ELSE {}

Selected(given) ==
    IF "TUSHARE" \in Usable(given) THEN "TUSHARE"
    ELSE IF Cardinality(Usable(given)) = 1 THEN CHOOSE p \in Usable(given) : TRUE
    ELSE IF "AKSHARE" \in Usable(given) THEN "AKSHARE" ELSE "BAOSTOCK"

\* Mutant: any two providers confirm.
StatusOfTwo(given) ==
    IF Cardinality(Usable(given)) > 1 THEN "CONFIRMED" ELSE "PROVISIONAL"

Status(given) ==
    IF {"TUSHARE", "AKSHARE"} \subseteq Usable(given) THEN "CONFIRMED"
                                                       ELSE "PROVISIONAL"

\* reconcile_daily_rows for one key: what it publishes, at most one row.
Canonical(given, adjusted) ==
    IF Usable(given) = {} \/ Conflicts(given, adjusted) # {} THEN {}
    ELSE LET source == RowOf(given, Selected(given))
         IN  IF source.pre = NoPrice THEN {}
             ELSE {[row |-> source, by |-> Selected(given), status |-> Status(given)]}

\* What it quarantines.
Quarantine(given, adjusted) ==
    (IF Contradicting(given) # {} THEN {"PROVIDER_INTERNAL_CONFLICT"} ELSE {})
        \cup (IF Usable(given) = {} THEN {} ELSE Conflicts(given, adjusted))

\* The statuses of the reconciliation records it writes.
Verdicts(given, adjusted) ==
    (IF Contradicting(given) # {} THEN {"QUARANTINED"} ELSE {})
        \cup (IF Usable(given) = {} THEN {}
              ELSE IF Conflicts(given, adjusted) # {} THEN {"CONFLICTED"}
              ELSE IF Canonical(given, adjusted) = {} THEN {"PROVISIONAL"}
              ELSE {Status(given)})

\* Two different pool rows of a date contradict each other; one is published.
CanonicalPool(rows) == IF Cardinality(rows) = 1 THEN rows ELSE {}
QuarantinePool(rows) ==
    IF Cardinality(rows) > 1 THEN {"PROVIDER_INTERNAL_CONFLICT"} ELSE {}
=============================================================================
