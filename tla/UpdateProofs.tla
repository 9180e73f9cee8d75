---------------------------- MODULE UpdateProofs ----------------------------
(***************************************************************************)
(* Proofs about Update, for any calendar, window, providers, revisions,    *)
(* gaps and deaths.  The heart is that a published row is backed by a      *)
(* listed file that no cleanup can remove: a call removes only the files   *)
(* of its own run, the run starts at the frontier, and a run that has      *)
(* published has moved the frontier on.                                    *)
(***************************************************************************)
EXTENDS Update, TLAPS, FiniteSetTheorems

\* A listed file of an update that has published, or of the bootstrap.
Settled(f) == f.listed /\ (f.run[1] = "update" => f.run[2] < latest.asOf)

Safe(p, d, row) ==
    \E f \in raw : Settled(f) /\ f.by = p /\ d \in DOMAIN f.rows /\ f.rows[d] = row

\* What stands behind a published row.
Backed(d, c) ==
    /\ c.by \in Asked \cup {"TDX"}
    /\ c.by # "TDX" => Safe(c.by, d, c.row)
    /\ c.by = "TUSHARE" /\ c.status = "CONFIRMED" =>
          \E row \in Rows : Safe("AKSHARE", d, row) /\ BarsMatch(row, c.row)

RowsBacked ==
    \A d \in Sessions : deaths = 0 \/ NotReleased(d) =>
        \A n \in DOMAIN latest.daily[d] : Backed(d, latest.daily[d][n])

\* An update starts at the frontier, and its files hold what it got.
CallsConsistent ==
    /\ pc # "idle" => run \in Runs
    /\ pc \in {"fetch", "write"} =>
          run[1] = "update" /\ run[2] = latest.asOf /\ latest.asOf < run[3]
    /\ pc \in {"aux", "examine"} => run[1] = "backfill"
    /\ pc = "fetch" => \A f \in raw : f.run # run
    /\ pc = "write" => \A f \in raw : f.run = run => f.listed /\ f.rows = got[f.by]

\* The files of updates that never published started at the frontier or below,
\* and without a death there are none but those of the call under way.
FilesConsistent ==
    /\ \A f \in raw : f.run[1] = "update" => f.run[2] <= latest.asOf
    /\ deaths = 0 => \A f \in raw :
          Settled(f) \/ (pc \in {"fetch", "write"} /\ f.run = run /\ f.listed)

\* A date that a backfill releases is marked so from then on.
ReleasesMarked ==
    /\ IsFiniteSet(due.released)
    /\ \A d \in todo : <<d, Unconfirmed>> \in held
    /\ \A x \in due.released : ~NotReleased(x[1]) /\ (deaths = 0 => Backed(x[1], x[2]))

IInv == TypeOK /\ CallsConsistent /\ FilesConsistent /\ ReleasesMarked /\ RowsBacked
-----------------------------------------------------------------------------
(* Sets and sequences.                                                      *)

\* The image of a finite set is finite.
LEMMA ImageFinite ==
  ASSUME NEW S, IsFiniteSet(S), NEW f
  PROVE  IsFiniteSet({f[x] : x \in S})
  <1> DEFINE T == {f[x] : x \in S}
             g == [x \in S |-> f[x]]
  <1>1. g \in Surjection(S, T)
    BY DEF Surjection
  <1> QED
    BY <1>1, FS_Surjection

\* The sequence made of a finite set holds elements of it only.
LEMMA SequenceOfSet ==
  ASSUME NEW S, IsFiniteSet(S)
  PROVE  /\ SetToSeq(S) \in Seq(S)
         /\ \A n \in DOMAIN SetToSeq(S) : SetToSeq(S)[n] \in S
  <1> DEFINE k == Cardinality(S)
  <1>1. k \in Nat /\ ExistsBijection(1 .. k, S)
    BY FS_CardinalityType
  <1>2. PICK f \in [1 .. k -> S] : IsInjective(f)
    BY <1>1 DEF ExistsBijection, Bijection, Injection
  <1>3. SetToSeq(S) \in [1 .. k -> S]
    BY <1>2 DEF SetToSeq
  <1> HIDE DEF k
  <1>4. SetToSeq(S) \in Seq(S)
    BY <1>1, <1>3
  <1> QED
    BY <1>3, <1>4

-----------------------------------------------------------------------------
(* Reconciliation.                                                          *)

\* What is published is the one row of a usable provider, whole; a CONFIRMED
\* row of TUSHARE's agrees with the one row of AKSHARE's.
LEMMA CanonicalRow ==
  ASSUME NEW given, NEW adjusted, DOMAIN given \subseteq Sources,
         \A p \in DOMAIN given : given[p] \subseteq Rows,
         NEW c \in Canonical(given, adjusted)
  PROVE  /\ c \in Published
         /\ c.by \in DOMAIN given /\ given[c.by] = {c.row}
         /\ c.by = "TUSHARE" /\ c.status = "CONFIRMED" =>
              /\ "AKSHARE" \in DOMAIN given
              /\ \E row \in Rows : given["AKSHARE"] = {row} /\ BarsMatch(row, c.row)
         /\ Canonical(given, adjusted) = {c}
  <1> DEFINE s == Selected(given)
             U == Usable(given)
  <1>1. U # {} /\ ~BarsConflict(given)
    BY DEF Canonical, Conflicts
  <1>2. c = [row |-> RowOf(given, s), by |-> s, status |-> Status(given)]
        /\ Canonical(given, adjusted) = {c}
    BY DEF Canonical
  <1>3. ASSUME NEW p \in U
        PROVE  p \in DOMAIN given /\ given[p] = {RowOf(given, p)} /\ RowOf(given, p) \in Rows
    BY <1>3 DEF Usable, RowOf
  <1>4. s \in U
    <2>1. U \subseteq {"TUSHARE", "AKSHARE", "BAOSTOCK", "TDX"}
      BY DEF Usable, Sources, Providers
    <2>2. Cardinality({"TDX"}) = 1
      BY FS_Singleton
    <2>3. "TUSHARE" \in U \/ "AKSHARE" \in U \/ "BAOSTOCK" \in U \/ Cardinality(U) = 1
      <3>1. CASE U \subseteq {"TDX"}
        <4>1. U = {"TDX"}
          BY <1>1, <3>1
        <4> QED
          BY <2>2, <4>1
      <3> QED
        BY <2>1, <3>1
    <2>4. CASE "TUSHARE" \in U
      BY <2>4 DEF Selected
    <2>5. CASE "TUSHARE" \notin U /\ Cardinality(U) = 1
      BY <1>1, <2>5 DEF Selected
    <2>6. CASE "TUSHARE" \notin U /\ Cardinality(U) # 1 /\ "AKSHARE" \in U
      BY <2>6 DEF Selected
    <2>7. CASE "TUSHARE" \notin U /\ Cardinality(U) # 1 /\ "AKSHARE" \notin U
      <3>1. "BAOSTOCK" \in U
        BY <2>3, <2>7
      <3> QED
        BY <2>7, <3>1 DEF Selected
    <2> QED
      BY <2>4, <2>5, <2>6, <2>7
  <1>5. Status(given) \in {"CONFIRMED", "PROVISIONAL"}
    BY DEF Status
  <1>6. s \in Sources
    BY <1>3, <1>4
  <1>7. ASSUME s = "TUSHARE", Status(given) = "CONFIRMED"
        PROVE  /\ "AKSHARE" \in U
               /\ BarsMatch(RowOf(given, "AKSHARE"), RowOf(given, s))
    <2>1. "AKSHARE" \in U
      BY <1>7 DEF Status
    <2> QED
      BY <1>1, <1>4, <2>1 DEF BarsConflict
  <1> HIDE DEF s, U
  <1> QED
    BY <1>2, <1>3, <1>4, <1>5, <1>6, <1>7 DEF Published

\* At most one row is published, and in either case as a sequence.
LEMMA CanonicalSequence ==
  ASSUME NEW given, NEW adjusted, DOMAIN given \subseteq Sources,
         \A p \in DOMAIN given : given[p] \subseteq Rows
  PROVE  /\ IsFiniteSet(Canonical(given, adjusted))
         /\ SetToSeq(Canonical(given, adjusted)) \in Seq(Published)
         /\ \A n \in DOMAIN SetToSeq(Canonical(given, adjusted)) :
              SetToSeq(Canonical(given, adjusted))[n] \in Canonical(given, adjusted)
  <1> DEFINE C == Canonical(given, adjusted)
  <1>1. C \subseteq Published
    BY CanonicalRow
  <1>2. IsFiniteSet(C)
    <2>1. CASE C = {}
      BY <2>1, FS_EmptySet
    <2>2. CASE \E c \in C : C = {c}
      BY <2>2, FS_Singleton
    <2> QED
      BY <2>1, <2>2, CanonicalRow
  <1>3. SetToSeq(C) \in Seq(C) /\ \A n \in DOMAIN SetToSeq(C) : SetToSeq(C)[n] \in C
    BY <1>2, SequenceOfSet
  <1> HIDE DEF C
  <1>4. SetToSeq(C) \in Seq(Published)
    BY <1>1, <1>3
  <1> QED
    BY <1>2, <1>3, <1>4 DEF C

\* The statuses and reasons that are recorded.
LEMMA Recorded ==
  ASSUME NEW given, NEW adjusted
  PROVE  /\ Verdicts(given, adjusted) \subseteq Verdict
         /\ Quarantine(given, adjusted) \subseteq Reasons
  BY DEF Verdicts, Quarantine, Verdict, Reasons, Conflicts, Status

-----------------------------------------------------------------------------
(* What the definitions of Update give.                                     *)

LEMMA DatesAreNaturals ==
  /\ Dates \subseteq Nat /\ Sessions \subseteq Dates /\ First \in Sessions
  /\ Oldest \in Dates /\ \A d \in Dates : Oldest <= d
  BY DatesAssumption

LEMMA BatchOf ==
  ASSUME NEW b \in Batches
  PROVE  DOMAIN b \subseteq Sessions /\ \A d \in DOMAIN b : b[d] \in Rows
  BY DEF Batches

LEMMA NoBatchIsBatch == NoBatch \in Batches /\ NothingGot \in [Asked -> Batches]
  <1>1. NoBatch \in [{} -> Rows]
    BY DEF NoBatch
  <1> QED
    BY <1>1 DEF Batches, NothingGot

\* The rows of a provider over some sessions that it has rows for.
LEMMA RestrictedBatch ==
  ASSUME TypeOK, NEW p \in Asked, NEW S \in SUBSET Sessions,
         \A d \in S : offered[p][d] # NoRow
  PROVE  Restrict(offered[p], S) \in Batches
  <1>1. Restrict(offered[p], S) \in [S -> Rows]
    BY DEF TypeOK, Restrict
  <1> QED
    BY <1>1 DEF Batches

LEMMA DailyType ==
  ASSUME TypeOK, NEW d \in Sessions
  PROVE  /\ latest.daily[d] \in Seq(Published)
         /\ \A n \in DOMAIN latest.daily[d] :
              latest.daily[d][n] \in Published /\ n \in Nat
  <1>1. latest.daily[d] \in Seq(Published)
    BY DEF TypeOK, Snapshots
  <1> QED
    BY <1>1

\* What the providers are taken to say of a date is rows.
LEMMA FallbackType ==
  ASSUME TypeOK, NEW d \in Sessions
  PROVE  /\ DOMAIN Fallback(d) = Sources
         /\ \A p \in DOMAIN Fallback(d) : Fallback(d)[p] \subseteq Rows
  <1>1. ASSUME NEW p \in Sources PROVE Fallback(d)[p] \subseteq Rows
    <2>1. ASSUME p \in Asked, d \in DOMAIN got[p] PROVE got[p][d] \in Rows
      BY <2>1, BatchOf DEF TypeOK
    <2>2. PublishedBy(p, d) \subseteq Rows
      BY DailyType DEF PublishedBy, Published
    <2>3. Historical(p, d) \subseteq Rows
      <3>1. \A f \in raw : f.rows \in Batches
        BY DEF TypeOK, Files
      <3> QED
        BY <3>1, BatchOf DEF Historical
    <2> QED
      BY <2>1, <2>2, <2>3 DEF Fallback
  <1> QED
    BY <1>1 DEF Fallback

LEMMA ReplacementType ==
  ASSUME TypeOK, NEW d \in Sessions
  PROVE  /\ Replacement(d) \in Seq(Published)
         /\ \A n \in DOMAIN Replacement(d) :
              Replacement(d)[n] \in Canonical(Fallback(d), Confirmed(d))
  <1>1. CASE d \in Between(Sessions, Start, Target)
    BY <1>1, FallbackType, CanonicalSequence DEF Replacement
  <1>2. CASE d \notin Between(Sessions, Start, Target)
    BY <1>2 DEF Replacement
  <1> QED
    BY <1>1, <1>2

\* The rows that a backfill reads for a date.
LEMMA ReadingsType ==
  ASSUME TypeOK, NEW d \in Sessions, NEW given \in Readings(d)
  PROVE  /\ DOMAIN given = Asked
         /\ \A p \in Asked : given[p] \subseteq Rows /\ given[p] \subseteq Stored(p, d)
  <1>1. ASSUME NEW p \in Asked PROVE Stored(p, d) \subseteq Rows
    <2>1. \A f \in raw : f.rows \in Batches
      BY DEF TypeOK, Files
    <2> QED
      BY <2>1, BatchOf DEF Stored
  <1> QED
    BY <1>1 DEF Readings

-----------------------------------------------------------------------------
(* Backing is kept.                                                         *)

\* While files are added and the frontier goes on, what is backed stays so.
LEMMA BackedKept ==
  ASSUME TypeOK, TypeOK', raw \subseteq raw', latest.asOf <= latest'.asOf,
         NEW d, NEW c, Backed(d, c)
  PROVE  Backed(d, c)'
  <1>1. ASSUME NEW p, NEW row, Safe(p, d, row) PROVE Safe(p, d, row)'
    <2>1. PICK f \in raw : Settled(f) /\ f.by = p /\ d \in DOMAIN f.rows /\ f.rows[d] = row
      BY <1>1 DEF Safe
    <2>2. f \in raw' /\ f.run[1] = "update" => f.run[2] \in Nat
      BY DatesAreNaturals DEF TypeOK, Files, Runs
    <2>3. latest.asOf \in Nat /\ latest'.asOf \in Nat
      BY DatesAreNaturals DEF TypeOK, Snapshots
    <2>4. Settled(f)'
      BY <2>1, <2>2, <2>3 DEF Settled
    <2> QED
      BY <2>1, <2>4 DEF Safe
  <1> QED
    BY <1>1 DEF Backed

\* A step that publishes nothing and withdraws no mark.
LEMMA RowsStayBacked ==
  ASSUME RowsBacked, UNCHANGED latest,
         \A d, c : Backed(d, c) => Backed(d, c)',
         deaths' = 0 => deaths = 0,
         \A d \in Sessions : NotReleased(d)' => NotReleased(d)
  PROVE  RowsBacked'
  BY DEF RowsBacked

-----------------------------------------------------------------------------
(* The initial state.                                                       *)

\* A row of the bootstrap's snapshot is in the bootstrap's file.
LEMMA InitBacked == Init /\ TypeOK => RowsBacked
  <1> SUFFICES ASSUME Init, TypeOK, NEW d \in Sessions, NEW n \in DOMAIN latest.daily[d]
               PROVE  Backed(d, latest.daily[d][n])
    BY DEF RowsBacked
  <1> DEFINE given == Bootstrapped(d)
             c == latest.daily[d][n]
  <1>1. d <= First /\ c \in Canonical(given, FactorChanged(d, Oldest, First))
    <2>1. latest.daily[d] = IF d > First THEN <<>>
            ELSE SetToSeq(Canonical(given, FactorChanged(d, Oldest, First)))
      BY DEF Init
    <2>2. d \in Nat /\ First \in Nat
      BY DatesAreNaturals
    <2>3. \A p \in DOMAIN given : given[p] \subseteq Rows
      BY DEF Bootstrapped, TypeOK
    <2>4. DOMAIN given \subseteq Sources
      BY AskedAssumption DEF Bootstrapped, Sources
    <2> QED
      BY <2>1, <2>2, <2>3, <2>4, CanonicalSequence
  <1>2. DOMAIN given = Asked /\ \A p \in Asked : given[p] = {offered[p][d]} \ {NoRow}
    BY DEF Bootstrapped
  <1>3. \A p \in Asked : given[p] \subseteq Rows
    BY <1>2 DEF TypeOK
  <1>4. ASSUME NEW p \in Asked, NEW row, given[p] = {row} PROVE Safe(p, d, row)
    <2>1. d \in Served(p, Oldest, First) /\ offered[p][d] = row
      BY <1>1, <1>2, <1>4, DatesAreNaturals DEF Served, Between
    <2> DEFINE f == [run |-> BootstrapRun, by |-> p, listed |-> TRUE, at |-> 0,
                     rows |-> Restrict(offered[p], Served(p, Oldest, First))]
    <2>2. f \in raw
      BY <2>1 DEF Init
    <2>3. d \in DOMAIN f.rows /\ f.rows[d] = row
      BY <2>1 DEF Restrict
    <2> QED
      BY <2>2, <2>3 DEF Safe, Settled, BootstrapRun
  <1>5. /\ c.by \in Asked /\ given[c.by] = {c.row}
        /\ c.by = "TUSHARE" /\ c.status = "CONFIRMED" =>
             /\ "AKSHARE" \in Asked
             /\ \E row \in Rows : given["AKSHARE"] = {row} /\ BarsMatch(row, c.row)
    <2> HIDE DEF given, c
    <2> QED
      BY <1>1, <1>2, <1>3, CanonicalRow, AskedAssumption DEF Sources
  <1>6. Backed(d, c)
    <2> HIDE DEF given, c
    <2> QED
      BY <1>4, <1>5 DEF Backed
  <1> QED
    BY <1>6

LEMMA InitType == Init => TypeOK
  <1> SUFFICES ASSUME Init PROVE TypeOK
    OBVIOUS
  <1>1. offered \in [Asked -> [Sessions -> Rows \cup {NoRow}]]
    BY AskedAssumption DEF Init
  <1>2. ASSUME NEW d \in Sessions
        PROVE  /\ DOMAIN Bootstrapped(d) \subseteq Sources
               /\ \A p \in DOMAIN Bootstrapped(d) : Bootstrapped(d)[p] \subseteq Rows
    BY <1>1, AskedAssumption DEF Bootstrapped, Sources
  <1>3. BootstrapRun \in Runs
    BY DatesAreNaturals DEF BootstrapRun, Runs
  <1>4. raw \subseteq Files
    <2>1. ASSUME NEW p \in Asked
          PROVE  Restrict(offered[p], Served(p, Oldest, First)) \in Batches
      <3>1. Restrict(offered[p], Served(p, Oldest, First))
              \in [Served(p, Oldest, First) -> Rows]
        BY <1>1 DEF Restrict, Served, Between
      <3>2. Served(p, Oldest, First) \subseteq Sessions
        BY DEF Served, Between
      <3> QED
        BY <3>1, <3>2 DEF Batches
    <2> SUFFICES ASSUME NEW f \in raw PROVE f \in Files
      OBVIOUS
    <2>2. PICK p \in Asked :
            f = [run |-> BootstrapRun, by |-> p, listed |-> TRUE, at |-> 0,
                 rows |-> Restrict(offered[p], Served(p, Oldest, First))]
      BY DEF Init
    <2> QED
      BY <1>3, <2>1, <2>2 DEF Files
  <1>5. latest \in Snapshots
    <2>1. ASSUME NEW d \in Sessions
          PROVE  SetToSeq(Canonical(Bootstrapped(d), FactorChanged(d, Oldest, First)))
                   \in Seq(Published)
      BY <1>2, CanonicalSequence
    <2>2. latest.daily \in [Sessions -> Seq(Published)]
      BY <2>1 DEF Init
    <2>3. latest = [asOf |-> First, daily |-> latest.daily,
                    pool |-> Between(Sessions, Oldest, First)]
      BY DEF Init
    <2>4. First \in Dates /\ Between(Sessions, Oldest, First) \subseteq Sessions
      BY DatesAreNaturals DEF Between
    <2> QED
      BY <2>2, <2>3, <2>4 DEF Snapshots
  <1>6. /\ held \subseteq Sessions \X (Reasons \cup {Released})
        /\ records \subseteq Sessions \X Verdict
    <2>1. held \subseteq Sessions \X (Reasons \cup {Released})
      BY Recorded DEF Init, Between
    <2>2. Between(Sessions, Oldest, First) \subseteq Sessions /\ "INCOMPLETE" \in Verdict
      BY DEF Between, Verdict
    <2>3. (UNION {{d} \X Verdicts(Bootstrapped(d), FactorChanged(d, Oldest, First)) :
                    d \in Between(Sessions, Oldest, First)}) \subseteq Sessions \X Verdict
      BY <2>2, Recorded
    <2>4. \A heard : MissingAmong(heard, Between(Sessions, Oldest, First)) \X {"INCOMPLETE"}
                       \subseteq Sessions \X Verdict
      BY <2>2 DEF MissingAmong
    <2> QED
      BY <2>1, <2>3, <2>4 DEF Init
  <1>7. /\ got \in [Asked -> Batches] /\ pooled \in [Sessions -> PoolAnswers]
        /\ due \in [records : SUBSET (Sessions \X Verdict),
                    held : SUBSET (Sessions \X Reasons),
                    released : SUBSET (Sessions \X Published)]
    BY NoBatchIsBatch DEF Init, NoPool, PoolAnswers, NothingDue
  <1>8. /\ clock \in Nat /\ finished \subseteq Runs /\ pc = "idle" /\ run = NoRun
        /\ factors \in BOOLEAN /\ todo \subseteq Sessions
        /\ revisions = 0 /\ gaps = 0 /\ deaths = 0
    BY <1>3 DEF Init
  <1> QED
    BY <1>1, <1>4, <1>5, <1>6, <1>7, <1>8, BoundAssumption DEF TypeOK

LEMMA InitIInv == Init => IInv
  <1> SUFFICES ASSUME Init PROVE IInv
    OBVIOUS
  <1>1. TypeOK /\ RowsBacked
    BY InitType, InitBacked
  <1>2. CallsConsistent
    BY DEF Init, CallsConsistent
  <1>3. FilesConsistent
    BY DEF Init, FilesConsistent, Settled, BootstrapRun
  <1>4. ReleasesMarked
    BY FS_EmptySet DEF Init, ReleasesMarked, NothingDue
  <1> QED
    BY <1>1, <1>2, <1>3, <1>4 DEF IInv

-----------------------------------------------------------------------------
(* The steps, one lemma for each.                                           *)

\* A call that ends forgets what it had to do.
LEMMA LeaveKeeps ==
  ASSUME TypeOK, Leave
  PROVE  /\ pc' = "idle" /\ run' = NoRun
         /\ got' \in [Asked -> Batches] /\ pooled' \in [Sessions -> PoolAnswers]
         /\ factors' \in BOOLEAN /\ todo' = {}
         /\ due' \in [records : SUBSET (Sessions \X Verdict),
                      held : SUBSET (Sessions \X Reasons),
                      released : SUBSET (Sessions \X Published)]
         /\ CallsConsistent' /\ ReleasesMarked'
  <1>1. due' = NothingDue /\ due'.released = {} /\ todo' = {}
    BY DEF Leave, NothingDue
  <1>2. ReleasesMarked'
    BY <1>1, FS_EmptySet DEF ReleasesMarked
  <1>3. CallsConsistent'
    BY DEF Leave, CallsConsistent
  <1>4. NoPool \in [Sessions -> PoolAnswers]
    BY DEF NoPool, PoolAnswers
  <1>5. NothingDue \in [records : SUBSET (Sessions \X Verdict),
                        held : SUBSET (Sessions \X Reasons),
                        released : SUBSET (Sessions \X Published)]
    BY DEF NothingDue
  <1> QED
    BY <1>1, <1>2, <1>3, <1>4, <1>5, NoBatchIsBatch DEF Leave

\* Steps that touch neither files nor snapshot nor what is held, and do not
\* forget a death.
LEMMA CalmStep ==
  ASSUME IInv, TypeOK', UNCHANGED <<raw, latest, held>>, deaths' = 0 => deaths = 0
  PROVE  /\ \A d, c : Backed(d, c)' <=> Backed(d, c)
         /\ RowsBacked'
         /\ deaths' = 0 /\ (\A f \in raw : f.run = run => Settled(f)) => FilesConsistent'
         /\ pc' \in {"fetch", "write"} /\ pc \in {"fetch", "write"} /\ run' = run
              => FilesConsistent'
         /\ pc \notin {"fetch", "write"} => FilesConsistent'
         /\ deaths' # 0 => FilesConsistent'
  <1>1. \A f : Settled(f)' <=> Settled(f)
    BY DEF Settled
  <1>2. \A d, c : Backed(d, c)' <=> Backed(d, c)
    BY <1>1 DEF Backed, Safe
  <1>3. \A d : NotReleased(d)' <=> NotReleased(d)
    BY DEF NotReleased
  <1>4. RowsBacked'
    BY <1>2, <1>3, RowsStayBacked DEF IInv
  <1>5. FilesConsistent
    BY DEF IInv
  <1> QED
    BY <1>1, <1>2, <1>4, <1>5 DEF FilesConsistent

LEMMA ReviseStep ==
  ASSUME IInv, NEW p \in Asked, NEW d \in Sessions, NEW row \in Rows, Revise(p, d, row)
  PROVE  IInv'
  <1> USE DEF registry, call, storage
  <1>1. TypeOK'
    <2>1. offered' \in [Asked -> [Sessions -> Rows \cup {NoRow}]]
      BY DEF IInv, TypeOK, Revise
    <2>2. revisions' \in 0 .. MaxRevisions
      BY BoundAssumption DEF IInv, TypeOK, Revise
    <2> QED
      BY <2>1, <2>2 DEF IInv, TypeOK, Revise
  <1>2. \A e, c : Backed(e, c)' <=> Backed(e, c)
    BY <1>1, CalmStep DEF Revise
  <1>3. RowsBacked' /\ FilesConsistent'
    BY <1>1, CalmStep DEF Revise
  <1>4. CallsConsistent'
    BY DEF IInv, CallsConsistent, Revise
  <1>5. ReleasesMarked'
    BY <1>2 DEF IInv, ReleasesMarked, Revise, NotReleased
  <1> QED
    BY <1>1, <1>3, <1>4, <1>5 DEF IInv

\* The files that are cleaned up are of a run that starts at the frontier, and
\* back nothing.
LEMMA BeginUpdateStep ==
  ASSUME IInv, NEW to \in Dates, BeginUpdate(to)
  PROVE  IInv'
  <1> USE DEF registry, world
  <1> DEFINE id == <<"update", latest.asOf, to>>
  <1>1. latest.asOf \in Dates /\ latest.asOf \in Nat /\ id \in Runs
    BY DatesAreNaturals DEF IInv, TypeOK, Snapshots, Runs
  <1>2. run' = id /\ raw' = {f \in raw : f.run # id} /\ pc' = "fetch" /\ pc = "idle"
    BY DEF BeginUpdate, Cleanup
  <1>3. TypeOK'
    BY <1>1, <1>2 DEF IInv, TypeOK, BeginUpdate
  <1>4. \A f : Settled(f)' <=> Settled(f)
    BY DEF Settled, BeginUpdate
  <1>5. \A f \in raw : Settled(f) => f \in raw'
    BY <1>1, <1>2 DEF Settled
  <1>6. \A d, c : Backed(d, c) => Backed(d, c)'
    BY <1>4, <1>5 DEF Backed, Safe, BeginUpdate
  <1>7. \A d : NotReleased(d)' <=> NotReleased(d)
    BY DEF NotReleased, BeginUpdate
  <1>8. RowsBacked'
    BY <1>6, <1>7, RowsStayBacked DEF IInv, BeginUpdate
  <1>9. CallsConsistent'
    BY <1>1, <1>2 DEF CallsConsistent, BeginUpdate
  <1>10. FilesConsistent'
    BY <1>2, <1>4 DEF IInv, FilesConsistent, BeginUpdate
  <1>11. ReleasesMarked'
    BY <1>6, <1>7 DEF IInv, ReleasesMarked, BeginUpdate
  <1> QED
    BY <1>3, <1>8, <1>9, <1>10, <1>11 DEF IInv

LEMMA NoNewDatesStep ==
  ASSUME IInv, NoNewDates
  PROVE  IInv'
  <1> USE DEF world, storage
  <1>1. TypeOK /\ Leave /\ run \in Runs
    BY DEF IInv, NoNewDates, CallsConsistent
  <1>2. TypeOK'
    BY <1>1, LeaveKeeps DEF TypeOK, NoNewDates
  <1>3. \A f \in raw : f.run # run
    BY DEF IInv, CallsConsistent, NoNewDates
  <1>4. RowsBacked'
    BY <1>2, CalmStep DEF NoNewDates
  <1>5. FilesConsistent'
    BY <1>2, <1>3, CalmStep DEF NoNewDates
  <1> QED
    BY <1>1, <1>2, <1>4, <1>5, LeaveKeeps DEF IInv

LEMMA FetchStep ==
  ASSUME IInv, NEW served \in [Asked -> SUBSET Between(Sessions, Start, Target)],
         NEW pool \in [NewDates -> PoolAnswers], NEW adj \in BOOLEAN,
         Fetch(served, pool, adj)
  PROVE  IInv'
  <1> USE DEF world, storage, registry
  <1>1. got' \in [Asked -> Batches]
    <2>1. ASSUME NEW p \in Asked PROVE Restrict(offered[p], served[p]) \in Batches
      <3>1. served[p] \subseteq Served(p, Start, Target)
        BY DEF Fetch
      <3>2. served[p] \in SUBSET Sessions /\ \A d \in served[p] : offered[p][d] # NoRow
        BY <3>1 DEF Served, Between
      <3> QED
        BY <3>2, RestrictedBatch DEF IInv
    <2> QED
      BY <2>1 DEF Fetch
  <1>2. gaps' \in 0 .. MaxGaps
    <2> DEFINE A == {d \in NewDates : CanonicalPool(pool[d]) = {}}
               B == {k \in Asked \X Sessions : k[2] \in Served(k[1], Start, Target) \ served[k[1]]}
    <2>1. IsFiniteSet(Sessions)
      BY DatesAssumption, FS_Subset
    <2>2. IsFiniteSet(A)
      BY <2>1, FS_Subset DEF NewDates, Between
    <2>3. IsFiniteSet(Asked)
      <3>1. IsFiniteSet({"TUSHARE", "AKSHARE", "BAOSTOCK"})
        <4>1. IsFiniteSet({"TUSHARE"})
          BY FS_Singleton
        <4>2. IsFiniteSet({"TUSHARE"} \cup {"AKSHARE"})
          BY <4>1, FS_AddElement
        <4>3. IsFiniteSet(({"TUSHARE"} \cup {"AKSHARE"}) \cup {"BAOSTOCK"})
          BY <4>2, FS_AddElement
        <4>4. ({"TUSHARE"} \cup {"AKSHARE"}) \cup {"BAOSTOCK"} = {"TUSHARE", "AKSHARE", "BAOSTOCK"}
          OBVIOUS
        <4> QED
          BY <4>3, <4>4
      <3> QED
        BY <3>1, AskedAssumption, FS_Subset DEF Providers
    <2>4. IsFiniteSet(B)
      BY <2>1, <2>3, FS_Product, FS_Subset
    <2>5. Cardinality(A) \in Nat /\ Cardinality(B) \in Nat
      BY <2>2, <2>4, FS_CardinalityType
    <2>6. gaps' = gaps + Cardinality(A) + Cardinality(B) + (IF adj THEN 0 ELSE 1)
          /\ gaps' <= MaxGaps
      BY DEF Fetch
    <2> HIDE DEF A, B
    <2> QED
      BY <2>5, <2>6, BoundAssumption DEF IInv, TypeOK
  <1>3. pooled' \in [Sessions -> PoolAnswers]
    BY DEF Fetch, PoolAnswers
  <1>4. TypeOK'
    BY <1>1, <1>2, <1>3 DEF IInv, TypeOK, Fetch
  <1>5. RowsBacked' /\ FilesConsistent' /\ \A d, c : Backed(d, c)' <=> Backed(d, c)
    BY <1>4, CalmStep DEF Fetch
  <1>6. CallsConsistent'
    BY DEF IInv, CallsConsistent, Fetch
  <1>7. ReleasesMarked'
    BY <1>5 DEF IInv, ReleasesMarked, Fetch, NotReleased
  <1> QED
    BY <1>4, <1>5, <1>6, <1>7 DEF IInv

\* A written file joins those of the call under way.
LEMMA WriteStep ==
  ASSUME IInv, NEW p \in Asked, Write(p)
  PROVE  IInv'
  <1> USE DEF world, registry, call
  <1>1. run \in Runs /\ pc' = "write" /\ run[2] = latest.asOf /\ run' = run /\ latest' = latest
    BY DEF IInv, CallsConsistent, Write
  <1> DEFINE f == [run |-> run, by |-> p, rows |-> got[p], listed |-> TRUE, at |-> clock + 1]
  <1>2. f \in Files /\ raw' = raw \cup {f} /\ clock' = clock + 1
    BY <1>1 DEF IInv, TypeOK, Write, File, Files
  <1>0. f.run = run /\ f.by = p /\ f.rows = got[p] /\ f.listed = TRUE
    OBVIOUS
  <1> HIDE DEF f
  <1>3. TypeOK'
    <2>1. raw' \subseteq Files /\ clock' \in Nat
      BY <1>2 DEF IInv, TypeOK
    <2> QED
      BY <2>1 DEF IInv, TypeOK, Write
  <1>4. latest.asOf \in Nat
    BY DatesAreNaturals DEF IInv, TypeOK, Snapshots
  <1>5. \A d, c : Backed(d, c) => Backed(d, c)'
    <2>1. raw \subseteq raw' /\ latest.asOf <= latest'.asOf /\ TypeOK
      BY <1>1, <1>2, <1>4 DEF IInv
    <2> QED
      BY <1>3, <2>1, BackedKept
  <1>6. \A d : NotReleased(d)' <=> NotReleased(d)
    BY DEF NotReleased, Write
  <1>7. RowsBacked'
    BY <1>5, <1>6, RowsStayBacked DEF IInv, Write
  <1>8. CallsConsistent'
    BY <1>0, <1>1, <1>2 DEF IInv, CallsConsistent, Write
  <1>9. FilesConsistent'
    <2>1. \A g : Settled(g)' <=> Settled(g)
      BY <1>1 DEF Settled
    <2>2. \A g \in raw' : g.run[1] = "update" => g.run[2] <= latest'.asOf
      BY <1>0, <1>1, <1>2, <1>4 DEF IInv, FilesConsistent
    <2>3. ASSUME deaths' = 0, NEW g \in raw'
          PROVE  Settled(g)' \/ (g.run = run' /\ g.listed)
      <3>1. deaths = 0
        BY <2>3 DEF Write
      <3> QED
        BY <1>0, <1>1, <1>2, <2>1, <2>3, <3>1 DEF IInv, FilesConsistent
    <2> QED
      BY <1>1, <2>2, <2>3 DEF FilesConsistent
  <1>10. ReleasesMarked'
    BY <1>5, <1>6 DEF IInv, ReleasesMarked, Write
  <1> QED
    BY <1>3, <1>7, <1>8, <1>9, <1>10 DEF IInv

LEMMA DieWritingStep ==
  ASSUME IInv, NEW p \in Asked, DieWriting(p)
  PROVE  IInv'
  <1> USE DEF world, registry
  <1>1. run \in Runs /\ pc = "write" /\ run[2] = latest.asOf /\ latest' = latest /\ Leave
    BY DEF IInv, CallsConsistent, DieWriting
  <1> DEFINE f == [run |-> run, by |-> p, rows |-> got[p], listed |-> FALSE, at |-> clock + 1]
  <1>2. f \in Files /\ raw' = raw \cup {f} /\ clock' = clock + 1
    BY <1>1 DEF IInv, TypeOK, DieWriting, File, Files
  <1>0. f.run = run /\ f.by = p /\ f.rows = got[p] /\ f.listed = FALSE
    OBVIOUS
  <1> HIDE DEF f
  <1>3. deaths' \in 0 .. MaxDeaths /\ deaths' # 0
    BY BoundAssumption DEF IInv, TypeOK, DieWriting
  <1>4. TypeOK'
    <2>1. raw' \subseteq Files /\ clock' \in Nat
      BY <1>2 DEF IInv, TypeOK
    <2>2. TypeOK
      BY DEF IInv
    <2> QED
      BY <1>1, <1>3, <2>1, <2>2, LeaveKeeps DEF TypeOK, DieWriting
  <1>5. latest.asOf \in Nat
    BY DatesAreNaturals DEF IInv, TypeOK, Snapshots
  <1>6. \A d, c : Backed(d, c) => Backed(d, c)'
    <2>1. raw \subseteq raw' /\ latest.asOf <= latest'.asOf /\ TypeOK
      BY <1>1, <1>2, <1>5 DEF IInv
    <2> QED
      BY <1>4, <2>1, BackedKept
  <1>7. \A d : NotReleased(d)' <=> NotReleased(d)
    BY DEF NotReleased, DieWriting
  <1>8. RowsBacked'
    BY <1>3, <1>6, <1>7, RowsStayBacked, <1>1 DEF IInv
  <1>9. FilesConsistent'
    <2>1. \A g \in raw' : g.run[1] = "update" => g.run[2] <= latest'.asOf
      BY <1>0, <1>1, <1>2, <1>5 DEF IInv, FilesConsistent
    <2> QED
      BY <1>3, <2>1 DEF FilesConsistent
  <1> QED
    BY <1>1, <1>4, <1>8, <1>9, LeaveKeeps DEF IInv

\* Of the date it is published for, what a provider is taken to say is in a
\* listed file that the new frontier has settled.
LEMMA FallbackBacked ==
  ASSUME IInv, TypeOK', PublishUpdate,
         NEW d \in Sessions, deaths = 0 \/ NotReleased(d),
         NEW p \in Sources, p # "TDX", NEW row \in Fallback(d)[p]
  PROVE  p \in Asked /\ Safe(p, d, row)'
  <1> USE DEF storage
  <1>1. run \in Runs /\ run[2] = latest.asOf /\ latest.asOf < run[3] /\ latest'.asOf = run[3]
    BY DEF IInv, CallsConsistent, PublishUpdate, Target
  <1>2. latest.asOf \in Nat /\ run[3] \in Nat /\ raw' = raw
    BY <1>1, DatesAreNaturals DEF IInv, TypeOK, Snapshots, Runs, PublishUpdate
  <1>3. ASSUME NEW f \in raw, f.listed PROVE Settled(f)'
    <2>1. f.run[1] = "update" => f.run[2] <= latest.asOf /\ f.run[2] \in Nat
      BY DatesAreNaturals DEF IInv, TypeOK, Files, Runs, FilesConsistent
    <2> QED
      BY <1>1, <1>2, <1>3, <2>1 DEF Settled
  <1>4. CASE p \in Asked /\ d \in DOMAIN got[p]
    <2>1. row = got[p][d]
      BY <1>4 DEF Fallback
    <2>2. got[p] # NoBatch
      BY <1>4 DEF NoBatch
    <2>3. PICK f \in raw : f.run = run /\ f.by = p
      BY <1>4, <2>2 DEF PublishUpdate, Unwritten, Written
    <2>4. f.listed /\ f.rows = got[p]
      BY <2>3 DEF IInv, CallsConsistent, PublishUpdate
    <2> QED
      BY <1>2, <1>3, <1>4, <2>1, <2>3, <2>4 DEF Safe
  <1>5. CASE row \in PublishedBy(p, d)
    <2>1. PICK n \in DOMAIN latest.daily[d] :
            latest.daily[d][n].by = p /\ latest.daily[d][n].row = row
      BY <1>5 DEF PublishedBy
    <2>2. Backed(d, latest.daily[d][n])
      BY DEF IInv, RowsBacked
    <2> DEFINE c == latest.daily[d][n]
    <2>3. c.by = p /\ c.row = row /\ Backed(d, c)
      BY <2>1, <2>2
    <2> HIDE DEF c
    <2>4. p \in Asked /\ Safe(p, d, row)
      BY <2>3 DEF Backed
    <2>5. PICK f \in raw : Settled(f) /\ f.by = p /\ d \in DOMAIN f.rows /\ f.rows[d] = row
      BY <2>4 DEF Safe
    <2>6. f.listed
      BY <2>5 DEF Settled
    <2> QED
      BY <1>2, <1>3, <2>4, <2>5, <2>6 DEF Safe
  <1>6. CASE p \in Asked /\ row \in Historical(p, d)
    <2>1. PICK f \in raw : f.listed /\ f.by = p /\ d \in DOMAIN f.rows /\ f.rows[d] = row
      BY <1>6 DEF Historical
    <2> QED
      BY <1>2, <1>3, <1>6, <2>1 DEF Safe
  <1> QED
    BY <1>4, <1>5, <1>6 DEF Fallback

\* What an update publishes has the types of a snapshot.
LEMMA PublishUpdateType ==
  ASSUME IInv, PublishUpdate
  PROVE  TypeOK'
  <1> USE DEF world, storage, call
  <1>1. TypeOK /\ run \in Runs /\ Target \in Dates
    BY DEF IInv, CallsConsistent, PublishUpdate, Target, Runs
  <1>2. latest' \in Snapshots
    <2>1. \A d \in Sessions : Final(d) \in Seq(Published)
      BY <1>1, DailyType, ReplacementType DEF Final
    <2>2. FinalPool \in SUBSET Sessions
      BY <1>1 DEF FinalPool, TypeOK, Snapshots, NewDates, Between
    <2> QED
      BY <1>1, <2>1, <2>2 DEF PublishUpdate, Snapshots
  <1>3. due' \in [records : SUBSET (Sessions \X Verdict),
                  held : SUBSET (Sessions \X Reasons),
                  released : SUBSET (Sessions \X Published)]
    <2> DEFINE W == Between(Sessions, Start, Target)
               R == UNION {{d} \X Verdicts(Fallback(d), Confirmed(d)) : d \in W}
               M == Missing \X {"INCOMPLETE"}
               Q == UNION {{d} \X Quarantine(Fallback(d), Confirmed(d)) : d \in W}
               P == UNION {{d} \X QuarantinePool(pooled[d]) : d \in NewDates}
    <2>1. W \subseteq Sessions /\ NewDates \subseteq Sessions
      BY DEF Between, NewDates
    <2>2. R \subseteq Sessions \X Verdict
      BY <2>1, Recorded
    <2>3. M \subseteq Sessions \X Verdict
      BY <2>1 DEF Missing, MissingAmong, Verdict
    <2>4. Q \subseteq Sessions \X Reasons
      BY <2>1, Recorded
    <2>5. P \subseteq Sessions \X Reasons
      BY <2>1 DEF QuarantinePool, Reasons
    <2>6. due' = [records |-> R \cup M, held |-> Q \cup P, released |-> {}]
      BY Zenon DEF PublishUpdate
    <2> HIDE DEF R, M, Q, P
    <2> QED
      BY <2>2, <2>3, <2>4, <2>5, <2>6
  <1> QED
    BY <1>1, <1>2, <1>3 DEF TypeOK, PublishUpdate

\* A replaced row is one the providers are taken to say, a kept one was backed.
LEMMA PublishUpdateStep ==
  ASSUME IInv, PublishUpdate
  PROVE  IInv'
  <1> USE DEF world, storage, call
  <1>1. TypeOK /\ TypeOK'
    BY PublishUpdateType DEF IInv
  <1>2. run \in Runs /\ run[2] = latest.asOf /\ latest.asOf < run[3] /\ latest'.asOf = run[3]
    BY DEF IInv, CallsConsistent, PublishUpdate, Target
  <1>3. latest.asOf \in Nat /\ run[3] \in Nat /\ raw' = raw /\ run' = run /\ pc' = "record"
    BY <1>1, <1>2, DatesAreNaturals DEF TypeOK, Snapshots, Runs, PublishUpdate
  <1>4. RowsBacked'
    <2> SUFFICES ASSUME NEW d \in Sessions, deaths' = 0 \/ NotReleased(d)',
                        NEW n \in DOMAIN latest'.daily[d]
                 PROVE  Backed(d, latest.daily[d][n])'
      BY DEF RowsBacked
    <2>1. deaths = 0 \/ NotReleased(d)
      BY DEF NotReleased, PublishUpdate
    <2>2. latest'.daily[d] = Final(d)
      BY DEF PublishUpdate
    <2>3. CASE Replacement(d) = <<>>
      <3>1. latest'.daily[d] = latest.daily[d]
        BY <2>2, <2>3 DEF Final
      <3>2. Backed(d, latest.daily[d][n])
        BY <2>1, <3>1 DEF IInv, RowsBacked
      <3> DEFINE c == latest.daily[d][n]
      <3>3. Backed(d, c) /\ latest'.daily[d][n] = c
        BY <3>1, <3>2
      <3> HIDE DEF c
      <3>4. \A x : Backed(d, x) => Backed(d, x)'
        BY <1>1, <1>2, <1>3, BackedKept
      <3>5. \A x : latest'.daily[d][n] = x /\ Backed(d, x)' => Backed(d, latest.daily[d][n])'
        BY DEF Backed
      <3> QED
        BY <3>3, <3>4, <3>5
    <2>4. CASE Replacement(d) # <<>>
      <3>1. latest'.daily[d] = Replacement(d)
        BY <2>2, <2>4 DEF Final
      <3>2. latest'.daily[d][n] \in Canonical(Fallback(d), Confirmed(d))
        BY <1>1, <3>1, ReplacementType
      <3>3. PICK c \in Canonical(Fallback(d), Confirmed(d)) : c = latest'.daily[d][n]
        BY <3>2
      <3>4. /\ c.by \in Sources /\ Fallback(d)[c.by] = {c.row}
            /\ c.by = "TUSHARE" /\ c.status = "CONFIRMED" =>
                 \E row \in Rows : Fallback(d)["AKSHARE"] = {row} /\ BarsMatch(row, c.row)
        BY <1>1, CanonicalRow, FallbackType
      <3>5. c.by # "TDX" => c.by \in Asked /\ Safe(c.by, d, c.row)'
        BY <1>1, <2>1, <3>4, FallbackBacked
      <3>6. \A row : Fallback(d)["AKSHARE"] = {row} => Safe("AKSHARE", d, row)'
        BY <1>1, <2>1, FallbackBacked DEF Sources, Providers
      <3>7. Backed(d, c)'
        BY <3>4, <3>5, <3>6 DEF Backed
      <3> QED
        BY <3>3, <3>7 DEF Backed
    <2> QED
      BY <2>3, <2>4
  <1>5. CallsConsistent'
    BY <1>2, <1>3 DEF CallsConsistent
  <1>6. FilesConsistent'
    <2>1. \A f \in raw : f.run[1] = "update" => f.run[2] <= latest.asOf /\ f.run[2] \in Nat
      BY DatesAreNaturals DEF IInv, TypeOK, Files, Runs, FilesConsistent
    <2>2. \A f \in raw : f.run[1] = "update" => f.run[2] < latest'.asOf
      BY <1>2, <1>3, <2>1
    <2>3. deaths = 0 => \A f \in raw : f.listed
      BY DEF IInv, FilesConsistent, Settled
    <2> QED
      BY <1>2, <1>3, <2>1, <2>2, <2>3 DEF FilesConsistent, Settled, PublishUpdate
  <1>7. ReleasesMarked'
    <2>1. due'.released = {} /\ todo' = todo /\ held' = held
      BY DEF PublishUpdate
    <2> QED
      BY <2>1, FS_EmptySet DEF IInv, ReleasesMarked
  <1> QED
    BY <1>1, <1>4, <1>5, <1>6, <1>7 DEF IInv

\* Of a date that was released something stays, whatever is held anew.
LEMMA HoldingMarks ==
  ASSUME TypeOK, NEW some \in SUBSET due.held, held' = Holding(some)
  PROVE  /\ held' \subseteq Sessions \X (Reasons \cup {Released})
         /\ \A d : ~NotReleased(d) => ~NotReleased(d)'
         /\ \A h \in held : h[2] # Released => h \in held'
  <1>1. held' \subseteq Sessions \X (Reasons \cup {Released})
    BY DEF TypeOK, Holding
  <1>2. ASSUME NEW d, ~NotReleased(d) PROVE ~NotReleased(d)'
    <2>1. PICK h \in held : h \in {d} \X {Released, Unconfirmed}
      BY <1>2 DEF NotReleased
    <2>2. CASE h \in held'
      BY <2>1, <2>2 DEF NotReleased
    <2>3. CASE h \notin held'
      <3>1. h[1] = d /\ <<h[1], Unconfirmed>> \in some
        BY <2>1, <2>3 DEF Holding
      <3>2. <<d, Unconfirmed>> \in held'
        BY <3>1 DEF Holding
      <3> QED
        BY <3>2 DEF NotReleased
    <2> QED
      BY <2>2, <2>3
  <1>3. \A h \in held : h[2] # Released => h \in held'
    BY DEF Holding
  <1> QED
    BY <1>1, <1>2, <1>3

\* What a call records of a date that was released holds it again.
LEMMA RecordResultsStep ==
  ASSUME IInv, RecordResults
  PROVE  IInv'
  <1> USE DEF world, storage, call
  <1>1. UNCHANGED <<raw, latest, due, todo, deaths, run>> /\ pc = "record" /\ pc' = "finish"
    BY DEF RecordResults
  <1>2. Released # Unconfirmed
    BY DEF Released, Unconfirmed
  <1>3. TypeOK'
    <2>1. due.records \subseteq Sessions \X Verdict /\ due.held \subseteq Sessions \X Reasons
      BY DEF IInv, TypeOK
    <2>2. records' \subseteq Sessions \X Verdict
      BY <2>1 DEF IInv, TypeOK, RecordResults
    <2>3. held' \subseteq Sessions \X (Reasons \cup {Released})
      BY HoldingMarks DEF IInv, RecordResults
    <2> QED
      BY <2>2, <2>3 DEF IInv, TypeOK, RecordResults
  <1>4. \A d, c : Backed(d, c)' <=> Backed(d, c)
    BY <1>1 DEF Backed, Safe, Settled
  <1>5. \A d : ~NotReleased(d) => ~NotReleased(d)'
    BY HoldingMarks DEF IInv, RecordResults
  <1>6. RowsBacked'
    BY <1>1, <1>4, <1>5, RowsStayBacked DEF IInv
  <1>7. CallsConsistent'
    BY <1>1 DEF IInv, CallsConsistent
  <1>8. FilesConsistent'
    BY <1>1 DEF IInv, FilesConsistent, Settled
  <1>9. ReleasesMarked'
    <2>1. \A d \in todo : <<d, Unconfirmed>> \in held'
      BY <1>2, HoldingMarks DEF IInv, ReleasesMarked, RecordResults
    <2> QED
      BY <1>1, <1>4, <1>5, <2>1 DEF IInv, ReleasesMarked
  <1> QED
    BY <1>3, <1>6, <1>7, <1>8, <1>9 DEF IInv

\* A death between two records leaves marked whatever was.
LEMMA DieRecordingStep ==
  ASSUME IInv, DieRecording
  PROVE  IInv'
  <1> USE DEF world, storage
  <1>1. TypeOK /\ Leave /\ UNCHANGED <<raw, latest>>
    BY DEF IInv, DieRecording
  <1>2. deaths' \in 0 .. MaxDeaths /\ deaths' # 0
    BY BoundAssumption DEF IInv, TypeOK, DieRecording
  <1>3. records' \subseteq Sessions \X Verdict
    BY <1>1 DEF TypeOK, DieRecording
  <1>4. /\ held' \subseteq Sessions \X (Reasons \cup {Released})
        /\ \A d : ~NotReleased(d) => ~NotReleased(d)'
    <2>1. CASE held' = held
      BY <1>1, <2>1 DEF TypeOK, NotReleased
    <2>2. CASE \E some \in SUBSET due.held : held' = Holding(some)
      BY <1>1, <2>2, HoldingMarks
    <2> QED
      BY <2>1, <2>2 DEF DieRecording
  <1>5. TypeOK'
    BY <1>1, <1>2, <1>3, <1>4, LeaveKeeps DEF TypeOK, DieRecording
  <1>6. \A d, c : Backed(d, c)' <=> Backed(d, c)
    BY <1>1 DEF Backed, Safe, Settled
  <1>7. RowsBacked'
    BY <1>1, <1>2, <1>4, <1>6, RowsStayBacked DEF IInv
  <1>8. FilesConsistent'
    BY <1>1, <1>2 DEF IInv, FilesConsistent
  <1> QED
    BY <1>1, <1>5, <1>7, <1>8, LeaveKeeps DEF IInv

LEMMA FinishStep ==
  ASSUME IInv, Finish
  PROVE  IInv'
  <1> USE DEF world, storage
  <1>1. TypeOK /\ Leave /\ run \in Runs
    BY DEF IInv, Finish, CallsConsistent
  <1>2. TypeOK'
    BY <1>1, LeaveKeeps DEF TypeOK, Finish
  <1>3. RowsBacked' /\ FilesConsistent'
    BY <1>2, CalmStep DEF Finish
  <1> QED
    BY <1>1, <1>2, <1>3, LeaveKeeps DEF IInv

LEMMA BeginBackfillStep ==
  ASSUME IInv, NEW from \in Dates, NEW to \in Dates, BeginBackfill(from, to)
  PROVE  IInv'
  <1> USE DEF world, storage, registry
  <1>1. <<"backfill", from, to>> \in Runs
    BY DEF Runs
  <1>2. TypeOK'
    BY <1>1 DEF IInv, TypeOK, BeginBackfill
  <1>3. RowsBacked' /\ FilesConsistent' /\ \A d, c : Backed(d, c)' <=> Backed(d, c)
    BY <1>2, CalmStep DEF BeginBackfill
  <1>4. CallsConsistent'
    BY <1>1 DEF CallsConsistent, BeginBackfill
  <1>5. ReleasesMarked'
    BY <1>3 DEF IInv, ReleasesMarked, BeginBackfill, NotReleased
  <1> QED
    BY <1>2, <1>3, <1>4, <1>5 DEF IInv

LEMMA FetchFactorsStep ==
  ASSUME IInv, NEW adj \in BOOLEAN, FetchFactors(adj)
  PROVE  IInv'
  <1> USE DEF world, storage, registry
  <1>1. gaps' \in 0 .. MaxGaps
    BY BoundAssumption DEF IInv, TypeOK, FetchFactors
  <1>2. TypeOK'
    BY <1>1 DEF IInv, TypeOK, FetchFactors
  <1>3. RowsBacked' /\ FilesConsistent' /\ \A d, c : Backed(d, c)' <=> Backed(d, c)
    BY <1>2, CalmStep DEF FetchFactors
  <1>4. CallsConsistent'
    BY DEF IInv, CallsConsistent, FetchFactors
  <1>5. ReleasesMarked'
    <2>1. \A d \in todo' : <<d, Unconfirmed>> \in held'
      BY DEF FetchFactors
    <2> QED
      BY <1>3, <2>1 DEF IInv, ReleasesMarked, FetchFactors, NotReleased
  <1> QED
    BY <1>2, <1>3, <1>4, <1>5 DEF IInv

\* A released row was read from files that only a death leaves unlisted.
LEMMA ExamineStep ==
  ASSUME IInv, NEW d \in Sessions, Examine(d)
  PROVE  IInv'
  <1> USE DEF world, storage, call
  <1> DEFINE adjusted == FactorChanged(d, run[2], run[3])
  <1>1. UNCHANGED <<raw, latest, deaths, run, pc>> /\ pc = "examine" /\ todo' = todo \ {d}
    BY DEF Examine
  <1>2. PICK given \in Readings(d) :
          \/ /\ held' = (held \ {<<d, Unconfirmed>>}) \cup {<<d, Released>>}
             /\ due' = [due EXCEPT !.released = @ \cup ({d} \X Canonical(given, adjusted)),
                                   !.records = @ \cup {<<d, "CONFIRMED">>}]
          \/ UNCHANGED <<held, due>>
    BY DEF Examine
  <1> HIDE DEF adjusted
  <1> DEFINE C == Canonical(given, adjusted)
  <1>3. /\ DOMAIN given = Asked /\ DOMAIN given \subseteq Sources
        /\ \A p \in DOMAIN given : given[p] \subseteq Rows /\ given[p] \subseteq Stored(p, d)
    BY <1>2, ReadingsType, AskedAssumption DEF IInv, Sources
  <1>4. C \subseteq Published /\ IsFiniteSet(C)
    BY <1>3, CanonicalRow, CanonicalSequence
  <1>5. ASSUME deaths = 0, NEW p \in Asked, NEW row, given[p] = {row}
        PROVE  Safe(p, d, row)
    <2>1. PICK f \in raw : f.by = p /\ d \in DOMAIN f.rows /\ f.rows[d] = row
      BY <1>3, <1>5 DEF Stored
    <2>2. Settled(f)
      BY <1>1, <1>5 DEF IInv, FilesConsistent
    <2> QED
      BY <2>1, <2>2 DEF Safe
  <1>6. ASSUME deaths = 0, NEW c \in C PROVE Backed(d, c)
    <2>1. /\ c.by \in DOMAIN given /\ given[c.by] = {c.row}
          /\ c.by = "TUSHARE" /\ c.status = "CONFIRMED" =>
               /\ "AKSHARE" \in DOMAIN given
               /\ \E row \in Rows : given["AKSHARE"] = {row} /\ BarsMatch(row, c.row)
      <3>1. c \in Canonical(given, adjusted)
        BY <1>6
      <3>2. \A p \in DOMAIN given : given[p] \subseteq Rows
        BY <1>3
      <3>3. DOMAIN given \subseteq Sources
        BY <1>3
      <3> QED
        BY <3>1, <3>2, <3>3, CanonicalRow
    <2> QED
      BY <1>3, <1>5, <1>6, <2>1 DEF Backed
  <1> HIDE DEF C
  <1>7. TypeOK'
    <2>1. held' \subseteq Sessions \X (Reasons \cup {Released})
      BY <1>2 DEF IInv, TypeOK
    <2>2. due' \in [records : SUBSET (Sessions \X Verdict),
                    held : SUBSET (Sessions \X Reasons),
                    released : SUBSET (Sessions \X Published)]
      <3>1. {d} \X C \subseteq Sessions \X Published
        BY <1>4
      <3>2. {<<d, "CONFIRMED">>} \subseteq Sessions \X Verdict
        BY DEF Verdict
      <3>3. due' = [due EXCEPT !.released = @ \cup ({d} \X C),
                               !.records = @ \cup {<<d, "CONFIRMED">>}]
            \/ due' = due
        BY <1>2 DEF C
      <3>4. due \in [records : SUBSET (Sessions \X Verdict),
                     held : SUBSET (Sessions \X Reasons),
                     released : SUBSET (Sessions \X Published)]
        BY DEF IInv, TypeOK
      <3>5. due.released \cup ({d} \X C) \in SUBSET (Sessions \X Published)
            /\ due.records \cup {<<d, "CONFIRMED">>} \in SUBSET (Sessions \X Verdict)
        BY <3>1, <3>2, <3>4
      <3> QED
        BY <3>3, <3>4, <3>5
    <2> QED
      BY <1>1, <2>1, <2>2 DEF IInv, TypeOK, Examine
  <1>8. \A e, c : Backed(e, c)' <=> Backed(e, c)
    BY <1>1 DEF Backed, Safe, Settled
  <1>9. ASSUME NEW e, ~NotReleased(e) PROVE ~NotReleased(e)'
    <2>1. PICK h \in held : h \in {e} \X {Released, Unconfirmed}
      BY <1>9 DEF NotReleased
    <2>2. CASE h \in held'
      BY <2>1, <2>2 DEF NotReleased
    <2>3. CASE h \notin held'
      <3>1. e = d /\ <<d, Released>> \in held'
        BY <1>2, <2>1, <2>3
      <3> QED
        BY <3>1 DEF NotReleased
    <2> QED
      BY <2>2, <2>3
  <1>10. RowsBacked'
    BY <1>1, <1>8, <1>9, RowsStayBacked DEF IInv
  <1>11. CallsConsistent' /\ FilesConsistent'
    BY <1>1 DEF IInv, CallsConsistent, FilesConsistent, Settled
  <1>12. ReleasesMarked'
    <2>1. \A e \in todo' : <<e, Unconfirmed>> \in held'
      <3> SUFFICES ASSUME NEW e \in todo' PROVE <<e, Unconfirmed>> \in held'
        OBVIOUS
      <3>1. e # d /\ <<e, Unconfirmed>> \in held
        BY <1>1 DEF IInv, ReleasesMarked
      <3> QED
        BY <1>2, <3>1
    <2>2. CASE UNCHANGED <<held, due>>
      BY <1>1, <1>8, <1>9, <2>1, <2>2 DEF IInv, ReleasesMarked
    <2>3. CASE /\ held' = (held \ {<<d, Unconfirmed>>}) \cup {<<d, Released>>}
               /\ due'.released = due.released \cup ({d} \X C)
      <3>1. IsFiniteSet(due'.released)
        <4>1. IsFiniteSet({d} \X C)
          BY <1>4, FS_Singleton, FS_Product
        <4>2. IsFiniteSet(due.released)
          BY DEF IInv, ReleasesMarked
        <4>3. IsFiniteSet(due.released \cup ({d} \X C))
          BY <4>1, <4>2, FS_Union
        <4> QED
          BY <2>3, <4>3
      <3>2. ~NotReleased(d)'
        <4>1. <<d, Released>> \in held' /\ <<d, Released>> \in {d} \X {Released, Unconfirmed}
          BY <2>3
        <4> QED
          BY <4>1 DEF NotReleased
      <3>3. \A x \in {d} \X C : x[1] = d /\ x[2] \in C
        OBVIOUS
      <3>4. \A x \in due'.released :
              ~NotReleased(x[1])' /\ (deaths' = 0 => Backed(x[1], x[2])')
        BY <1>1, <1>6, <1>8, <1>9, <2>3, <3>2, <3>3 DEF IInv, ReleasesMarked
      <3> QED
        BY <2>1, <3>1, <3>4 DEF ReleasesMarked
    <2>4. \/ UNCHANGED <<held, due>>
          \/ /\ held' = (held \ {<<d, Unconfirmed>>}) \cup {<<d, Released>>}
             /\ due'.released = due.released \cup ({d} \X C)
      <3>1. due.released = due.released /\ DOMAIN due = {"records", "held", "released"}
        BY DEF IInv, TypeOK
      <3> QED
        BY <1>2, <3>1 DEF C
    <2> QED
      BY <2>2, <2>3, <2>4
  <1> QED
    BY <1>7, <1>10, <1>11, <1>12 DEF IInv

\* The rows of a date after a backfill: those it had, and the released ones.
LEMMA WithReleasedRows ==
  ASSUME IInv, NEW d \in Sessions
  PROVE  /\ WithReleased(d) \in Seq(Published)
         /\ \A n \in DOMAIN WithReleased(d) :
              \/ \E m \in DOMAIN latest.daily[d] : WithReleased(d)[n] = latest.daily[d][m]
              \/ <<d, WithReleased(d)[n]>> \in due.released
         /\ \A m \in DOMAIN latest.daily[d] :
              \E n \in DOMAIN WithReleased(d) : WithReleased(d)[n] = latest.daily[d][m]
  <1> DEFINE Y == {y \in due.released : y[1] = d}
             R == {x[2] : x \in Y}
             s == latest.daily[d]
             t == SetToSeq(R)
  <1>1. IsFiniteSet(Y) /\ Y \subseteq Sessions \X Published
    BY FS_Subset DEF IInv, ReleasesMarked, TypeOK
  <1>2. IsFiniteSet(R)
    <2> DEFINE g == [x \in Y |-> x[2]]
    <2>1. IsFiniteSet({g[x] : x \in Y})
      BY <1>1, ImageFinite
    <2>2. {g[x] : x \in Y} = R
      OBVIOUS
    <2> QED
      BY <2>1, <2>2
  <1>3. R \subseteq Published /\ \A c \in R : <<d, c>> \in due.released
    BY <1>1
  <1>4. t \in Seq(R) /\ \A n \in DOMAIN t : t[n] \in R
    BY <1>2, SequenceOfSet
  <1>5. s \in Seq(Published)
    BY DailyType DEF IInv
  <1>6. WithReleased(d) = s \o t
    BY DEF WithReleased
  <1> HIDE DEF R, s, t
  <1>7. t \in Seq(Published)
    BY <1>3, <1>4
  <1>8. /\ s \o t \in Seq(Published) /\ DOMAIN (s \o t) = 1 .. Len(s) + Len(t)
        /\ \A n \in 1 .. Len(s) + Len(t) :
             (s \o t)[n] = IF n <= Len(s) THEN s[n] ELSE t[n - Len(s)]
        /\ DOMAIN s = 1 .. Len(s) /\ DOMAIN t = 1 .. Len(t)
        /\ Len(s) \in Nat /\ Len(t) \in Nat
    BY <1>5, <1>7
  <1>9. ASSUME NEW n \in DOMAIN (s \o t)
        PROVE  (\E m \in DOMAIN s : (s \o t)[n] = s[m]) \/ <<d, (s \o t)[n]>> \in due.released
    <2>1. CASE n <= Len(s)
      BY <1>8, <2>1
    <2>2. CASE n > Len(s)
      <3>1. n - Len(s) \in DOMAIN t /\ (s \o t)[n] = t[n - Len(s)]
        BY <1>8, <2>2
      <3> QED
        BY <1>3, <1>4, <3>1
    <2> QED
      <3>1. n \in Nat
        BY <1>8
      <3>2. n <= Len(s) \/ n > Len(s)
        BY <1>8, <3>1
      <3> QED
        BY <2>1, <2>2, <3>2
  <1>10. ASSUME NEW m \in DOMAIN s
         PROVE  \E n \in DOMAIN (s \o t) : (s \o t)[n] = s[m]
    BY <1>8
  <1> QED
    BY <1>6, <1>8, <1>9, <1>10 DEF s

LEMMA PublishBackfillStep ==
  ASSUME IInv, PublishBackfill
  PROVE  IInv'
  <1> USE DEF world, storage, call
  <1>1. UNCHANGED <<raw, held, due, todo, deaths, run>> /\ pc = "examine" /\ pc' = "record"
    BY DEF PublishBackfill
  <1>2. TypeOK /\ run \in Runs /\ run[3] \in Dates
    BY DEF IInv, CallsConsistent, PublishBackfill, Runs
  <1>3. latest.asOf \in Nat /\ run[3] \in Nat
    BY <1>2, DatesAreNaturals DEF TypeOK, Snapshots
  <1>4. CASE latest' = latest
    <2>1. TypeOK'
      BY <1>2, <1>4 DEF TypeOK, PublishBackfill
    <2>2. RowsBacked' /\ FilesConsistent' /\ \A d, c : Backed(d, c)' <=> Backed(d, c)
      BY <1>1, <1>4, <2>1, CalmStep
    <2>3. CallsConsistent'
      BY <1>1, <1>2 DEF CallsConsistent
    <2>4. ReleasesMarked'
      BY <1>1, <2>2 DEF IInv, ReleasesMarked, NotReleased
    <2> QED
      BY <2>1, <2>2, <2>3, <2>4 DEF IInv
  <1>5. CASE /\ run[3] >= latest.asOf
             /\ latest' = [asOf |-> run[3], pool |-> latest.pool,
                           daily |-> [d \in Sessions |-> WithReleased(d)]]
    <2>1. latest' \in Snapshots
      BY <1>2, <1>5, WithReleasedRows DEF TypeOK, Snapshots
    <2>2. TypeOK'
      BY <1>2, <2>1 DEF TypeOK, PublishBackfill
    <2>3. \A d, c : Backed(d, c) => Backed(d, c)'
      BY <1>1, <1>2, <1>3, <1>5, <2>2, BackedKept
    <2>4. RowsBacked'
      <3> SUFFICES ASSUME NEW d \in Sessions, deaths = 0 \/ NotReleased(d),
                          NEW n \in DOMAIN latest'.daily[d]
                   PROVE  Backed(d, latest.daily[d][n])'
        BY <1>1 DEF RowsBacked, NotReleased
      <3>1. latest'.daily[d] = WithReleased(d)
        BY <1>5
      <3>2. PICK c : c = latest'.daily[d][n]
        OBVIOUS
      <3>3. CASE \E m \in DOMAIN latest.daily[d] : c = latest.daily[d][m]
        <4>1. Backed(d, c)
          BY <3>3 DEF IInv, RowsBacked
        <4> QED
          BY <2>3, <3>2, <4>1 DEF Backed
      <3>4. CASE <<d, c>> \in due.released
        <4>1. ~NotReleased(d) /\ (deaths = 0 => Backed(d, c))
          BY <3>4 DEF IInv, ReleasesMarked
        <4>2. Backed(d, c)'
          BY <2>3, <4>1
        <4> QED
          BY <3>2, <4>2 DEF Backed
      <3> QED
        BY <3>1, <3>2, <3>3, <3>4, WithReleasedRows
    <2>5. CallsConsistent'
      BY <1>1, <1>2 DEF CallsConsistent
    <2>6. FilesConsistent'
      <3>1. \A f \in raw : f.run[1] = "update" => f.run[2] <= latest.asOf /\ f.run[2] \in Nat
        BY <1>2, DatesAreNaturals DEF IInv, TypeOK, Files, Runs, FilesConsistent
      <3>2. latest'.asOf = run[3]
        BY <1>5
      <3>3. \A f \in raw : f.run[1] = "update" => f.run[2] <= latest'.asOf
        BY <1>3, <1>5, <3>1, <3>2
      <3>4. \A f \in raw : Settled(f) => Settled(f)'
        BY <1>3, <1>5, <3>1, <3>2 DEF Settled
      <3> QED
        BY <1>1, <3>3, <3>4 DEF IInv, FilesConsistent
    <2>7. ReleasesMarked'
      <3>1. \A d : NotReleased(d)' <=> NotReleased(d)
        BY <1>1 DEF NotReleased
      <3> QED
        BY <1>1, <2>3, <3>1 DEF IInv, ReleasesMarked
    <2> QED
      BY <2>2, <2>4, <2>5, <2>6, <2>7 DEF IInv
  <1> QED
    BY <1>3, <1>4, <1>5 DEF PublishBackfill

\* A promotion is of a session past the frontier.
LEMMA PromoteStep ==
  ASSUME IInv, NEW d \in Sessions, NEW row \in Rows, Promote(d, row)
  PROVE  IInv' /\ latest.asOf < d
  <1> USE DEF world, storage, call
  <1> DEFINE c == [row |-> row, by |-> "TDX", status |-> "CONFIRMED"]
  <1>1. UNCHANGED <<raw, held, due, todo, deaths, run, pc>> /\ pc = "idle"
    BY DEF Promote
  <1>2. TypeOK /\ latest.asOf \in Nat /\ d \in Nat /\ d \in Dates
    BY DatesAreNaturals DEF IInv, TypeOK, Snapshots
  <1>3. latest.asOf < d
    <2>1. d \in Between(Sessions, latest.asOf + 1, d)
      BY DEF Promote
    <2> QED
      BY <1>2, <2>1 DEF Between
  <1>4. latest' = [asOf |-> d, pool |-> latest.pool \cup {d},
                   daily |-> [latest.daily EXCEPT ![d] = <<c>>]]
    BY DEF Promote
  <1>5. c \in Published /\ Backed(d, c)'
    BY DEF Published, Sources, Backed
  <1> HIDE DEF c
  <1>6. latest.daily \in [Sessions -> Seq(Published)] /\ latest.pool \in SUBSET Sessions
    BY <1>2 DEF TypeOK, Snapshots
  <1>7. TypeOK'
    <2>1. [latest.daily EXCEPT ![d] = <<c>>] \in [Sessions -> Seq(Published)]
      BY <1>5, <1>6
    <2>2. latest' \in Snapshots
      BY <1>2, <1>4, <1>6, <2>1 DEF Snapshots
    <2> QED
      BY <1>2, <2>2 DEF TypeOK, Promote
  <1>8. \A e, x : Backed(e, x) => Backed(e, x)'
    BY <1>1, <1>2, <1>3, <1>4, <1>7, BackedKept
  <1>9. RowsBacked'
    <2> SUFFICES ASSUME NEW e \in Sessions, deaths = 0 \/ NotReleased(e),
                        NEW n \in DOMAIN latest'.daily[e]
                 PROVE  Backed(e, latest.daily[e][n])'
      BY <1>1 DEF RowsBacked, NotReleased
    <2>1. CASE e = d
      <3>1. latest'.daily[e] = <<c>>
        BY <1>4, <1>6, <2>1
      <3>2. latest'.daily[e][n] = c
        BY <3>1
      <3> QED
        BY <1>5, <2>1, <3>2 DEF Backed
    <2>2. CASE e # d
      <3>1. latest'.daily[e] = latest.daily[e]
        BY <1>4, <1>6, <2>2
      <3>2. PICK x : x = latest.daily[e][n]
        OBVIOUS
      <3>3. Backed(e, x)'
        BY <1>8, <3>1, <3>2 DEF IInv, RowsBacked
      <3> QED
        BY <3>1, <3>2, <3>3 DEF Backed
    <2> QED
      BY <2>1, <2>2
  <1>10. CallsConsistent'
    BY <1>1 DEF CallsConsistent
  <1>11. FilesConsistent'
    <2>1. \A f \in raw : f.run[1] = "update" => f.run[2] <= latest.asOf /\ f.run[2] \in Nat
      BY DatesAreNaturals DEF IInv, TypeOK, Files, Runs, FilesConsistent
    <2>2. latest'.asOf = d
      BY <1>4
    <2> QED
      BY <1>1, <1>2, <1>3, <2>1, <2>2 DEF IInv, FilesConsistent, Settled
  <1>12. ReleasesMarked'
    <2>1. \A e : NotReleased(e)' <=> NotReleased(e)
      BY <1>1 DEF NotReleased
    <2> QED
      BY <1>1, <1>8, <2>1 DEF IInv, ReleasesMarked
  <1> QED
    BY <1>3, <1>7, <1>9, <1>10, <1>11, <1>12 DEF IInv

LEMMA DieStep ==
  ASSUME IInv, Die
  PROVE  IInv'
  <1> USE DEF world, storage, registry
  <1>1. TypeOK /\ Leave
    BY DEF IInv, Die
  <1>2. deaths' \in 0 .. MaxDeaths /\ deaths' # 0
    BY BoundAssumption DEF IInv, TypeOK, Die
  <1>3. TypeOK'
    BY <1>1, <1>2, LeaveKeeps DEF TypeOK, Die
  <1>4. RowsBacked' /\ FilesConsistent'
    BY <1>2, <1>3, CalmStep DEF Die
  <1> QED
    BY <1>1, <1>3, <1>4, LeaveKeeps DEF IInv

LEMMA StutterStep ==
  ASSUME IInv, UNCHANGED vars
  PROVE  IInv'
  <1> USE DEF vars, world, storage, registry, call
  <1>1. TypeOK'
    BY DEF IInv, TypeOK
  <1>2. CallsConsistent' /\ FilesConsistent'
    BY DEF IInv, CallsConsistent, FilesConsistent, Settled
  <1>3. \A d, c : Backed(d, c)' <=> Backed(d, c)
    BY <1>1, CalmStep
  <1>4. RowsBacked' /\ ReleasesMarked'
    BY <1>1, <1>3, CalmStep DEF IInv, ReleasesMarked, NotReleased
  <1> QED
    BY <1>1, <1>2, <1>4 DEF IInv

LEMMA NextStep ==
  ASSUME IInv, [Next]_vars
  PROVE  IInv'
  <1>1. CASE \E to \in Dates : BeginUpdate(to)
    BY <1>1, BeginUpdateStep
  <1>2. CASE \E from, to \in Dates : BeginBackfill(from, to)
    BY <1>2, BeginBackfillStep
  <1>3. CASE Step
    <2>1. CASE \E served \in [Asked -> SUBSET Between(Sessions, Start, Target)],
                 pool \in [NewDates -> PoolAnswers], adj \in BOOLEAN :
                 Fetch(served, pool, adj)
      BY <2>1, FetchStep
    <2>2. CASE \E p \in Asked : Write(p)
      BY <2>2, WriteStep
    <2>3. CASE \E adj \in BOOLEAN : FetchFactors(adj)
      BY <2>3, FetchFactorsStep
    <2>4. CASE \E d \in Sessions : Examine(d)
      BY <2>4, ExamineStep
    <2> QED
      BY <1>3, <2>1, <2>2, <2>3, <2>4, NoNewDatesStep, PublishUpdateStep,
         PublishBackfillStep, RecordResultsStep, FinishStep DEF Step
  <1>4. CASE \E p \in Asked, d \in Sessions, row \in Rows : Revise(p, d, row)
    BY <1>4, ReviseStep
  <1>5. CASE \E d \in Sessions, row \in Rows : Promote(d, row)
    BY <1>5, PromoteStep
  <1>6. CASE \E p \in Asked : DieWriting(p)
    BY <1>6, DieWritingStep
  <1> QED
    BY <1>1, <1>2, <1>3, <1>4, <1>5, <1>6, DieRecordingStep, DieStep, StutterStep DEF Next

LEMMA Invariance == Spec => []IInv
  <1>1. IInv /\ [Next]_vars => IInv'
    BY NextStep
  <1> QED
    BY InitIInv, <1>1, PTL DEF Spec

\* Every state of the runs that extend the warehouse, deaths and repeats
\* included, has the declared types: a snapshot's rows are rows of providers
\* that were asked or of a promotion, and its pool is of sessions.
THEOREM TypeCorrect == Spec => []TypeOK
  <1>1. IInv => TypeOK
    BY DEF IInv
  <1> QED
    BY Invariance, <1>1, PTL

\* A published row is in a listed raw file of its provider, whatever calls of
\* _update_impl died, were repeated and cleaned up what they had written.
THEOREM RowsTraced == Spec => []Traced
  <1>1. IInv => Traced
    <2> SUFFICES ASSUME IInv, NEW d \in Sessions, deaths = 0 \/ NotReleased(d),
                        NEW n \in DOMAIN latest.daily[d],
                        latest.daily[d][n].by \in Asked
                 PROVE  Listed(latest.daily[d][n].by, d, latest.daily[d][n].row)
      BY DEF Traced
    <2>1. PICK c : c = latest.daily[d][n]
      OBVIOUS
    <2>2. Backed(d, c) /\ c.by \in Asked
      BY <2>1 DEF IInv, RowsBacked
    <2>3. c.by # "TDX"
      BY <2>2, AskedAssumption DEF Providers
    <2>4. Listed(c.by, d, c.row)
      BY <2>2, <2>3 DEF Backed, Safe, Settled, Listed
    <2> QED
      BY <2>1, <2>4
  <1> QED
    BY Invariance, <1>1, PTL

\* A TUSHARE row published as CONFIRMED agrees with a row that AKSHARE gave for
\* its date and that is still listed (reconcile_daily_rows over fallback rows).
THEOREM ConfirmedByBoth == Spec => []ConfirmedByTwo
  <1>1. IInv => ConfirmedByTwo
    <2> SUFFICES ASSUME IInv, NEW d \in Sessions, deaths = 0 \/ NotReleased(d),
                        NEW n \in DOMAIN latest.daily[d],
                        latest.daily[d][n].by = "TUSHARE",
                        latest.daily[d][n].status = "CONFIRMED"
                 PROVE  \E f \in raw :
                          /\ f.listed /\ f.by = "AKSHARE" /\ d \in DOMAIN f.rows
                          /\ BarsMatch(f.rows[d], latest.daily[d][n].row)
      BY DEF ConfirmedByTwo
    <2>1. PICK c : c = latest.daily[d][n]
      OBVIOUS
    <2>2. Backed(d, c) /\ c.by = "TUSHARE" /\ c.status = "CONFIRMED"
      BY <2>1 DEF IInv, RowsBacked
    <2>3. PICK row \in Rows : Safe("AKSHARE", d, row) /\ BarsMatch(row, c.row)
      BY <2>2 DEF Backed
    <2> QED
      BY <2>1, <2>3 DEF Safe, Settled
  <1> QED
    BY Invariance, <1>1, PTL

-----------------------------------------------------------------------------
(* The snapshots are the chain of CanonicalChain.                           *)

\* The published rows of a date, as CanonicalChain sees them.
RowsOf(d) == IF d \in Sessions THEN Range(latest.daily[d]) ELSE {}

LEMMA RowsOfType ==
  ASSUME TypeOK
  PROVE  /\ \A d \in Dates : RowsOf(d) \in SUBSET Published
         /\ latest.asOf \in Dates /\ latest.pool \subseteq Dates
  <1>1. ASSUME NEW d \in Dates PROVE RowsOf(d) \subseteq Published
    <2>1. CASE d \in Sessions
      <3>1. Range(latest.daily[d]) \subseteq Published
        BY <2>1, DailyType DEF Range
      <3> QED
        BY <2>1, <3>1 DEF RowsOf
    <2> QED
      BY <2>1 DEF RowsOf
  <1> QED
    BY <1>1, DatesAreNaturals DEF TypeOK, Snapshots

\* A replacement is never empty, and there is none below the window.
LEMMA UpdateExtends ==
  ASSUME IInv, IInv', PublishUpdate
  PROVE  /\ latest.asOf <= latest'.asOf
         /\ \A d \in Dates : RowsOf(d) # {} => RowsOf(d)' # {}
         /\ \A d \in Dates : d < latest.asOf - Window => RowsOf(d) \subseteq RowsOf(d)'
         /\ latest.pool \subseteq latest'.pool
         /\ \A d \in latest'.pool \ latest.pool : d > latest.asOf
  <1>1. TypeOK /\ run \in Runs /\ latest.asOf < run[3]
        /\ latest' = [asOf |-> run[3], daily |-> [d \in Sessions |-> Final(d)],
                      pool |-> FinalPool]
    BY DEF IInv, CallsConsistent, PublishUpdate, Target
  <1>2. latest.asOf \in Nat /\ run[3] \in Nat /\ Window \in Nat
    BY <1>1, DatesAreNaturals, DatesAssumption DEF TypeOK, Snapshots, Runs
  <1>3. ASSUME NEW d \in Dates, RowsOf(d) # {} PROVE RowsOf(d)' # {}
    <2>1. d \in Sessions /\ latest'.daily[d] = Final(d)
      BY <1>1, <1>3 DEF RowsOf
    <2>2. CASE Replacement(d) = <<>>
      BY <1>3, <2>1, <2>2 DEF RowsOf, Final
    <2>3. CASE Replacement(d) # <<>>
      <3>1. Replacement(d) \in Seq(Published)
        BY <1>1, <2>1, ReplacementType
      <3>2. 1 \in DOMAIN Replacement(d)
        BY <2>3, <3>1
      <3>3. latest'.daily[d] = Replacement(d)
        BY <2>1, <2>3 DEF Final
      <3>4. latest'.daily[d][1] \in Range(latest'.daily[d])
        BY <3>2, <3>3 DEF Range
      <3> QED
        BY <2>1, <3>4 DEF RowsOf
    <2> QED
      BY <2>2, <2>3
  <1>4. ASSUME NEW d \in Dates, d < latest.asOf - Window
        PROVE  RowsOf(d) \subseteq RowsOf(d)'
    <2>1. d \notin Between(Sessions, Start, Target)
      BY <1>2, <1>4, DatesAreNaturals DEF Between, Start
    <2>2. Replacement(d) = <<>>
      BY <2>1 DEF Replacement
    <2>3. d \in Sessions => latest'.daily[d] = latest.daily[d]
      BY <1>1, <2>2 DEF Final
    <2> QED
      BY <2>3 DEF RowsOf
  <1>5. \A d \in NewDates : d > latest.asOf
    BY <1>2, DatesAreNaturals DEF NewDates, Between
  <1>6. /\ latest.pool \subseteq latest'.pool
        /\ \A d \in latest'.pool \ latest.pool : d > latest.asOf
    BY <1>1, <1>5 DEF FinalPool
  <1> QED
    BY <1>1, <1>2, <1>3, <1>4, <1>6

\* A backfill adds to the rows.
LEMMA BackfillExtends ==
  ASSUME IInv, PublishBackfill, latest' # latest
  PROVE  /\ latest.asOf <= latest'.asOf /\ latest'.pool = latest.pool
         /\ \A d \in Dates : RowsOf(d) \subseteq RowsOf(d)'
  <1>1. run \in Runs /\ TypeOK
    BY DEF IInv, CallsConsistent, PublishBackfill
  <1>2. ~(run[3] < latest.asOf)
        /\ latest' = [asOf |-> run[3], pool |-> latest.pool,
                      daily |-> [d \in Sessions |-> WithReleased(d)]]
    BY DEF PublishBackfill
  <1>3. latest.asOf <= latest'.asOf
    <2>1. latest.asOf \in Nat /\ run[3] \in Nat
      BY <1>1, DatesAreNaturals DEF TypeOK, Snapshots, Runs
    <2>2. latest'.asOf = run[3]
      BY <1>2
    <2> QED
      BY <1>2, <2>1, <2>2
  <1>4. ASSUME NEW d \in Sessions PROVE Range(latest.daily[d]) \subseteq Range(latest'.daily[d])
    <2>1. latest'.daily[d] = WithReleased(d)
      BY <1>2
    <2>2. \A m \in DOMAIN latest.daily[d] :
            \E n \in DOMAIN WithReleased(d) : WithReleased(d)[n] = latest.daily[d][m]
      BY WithReleasedRows
    <2> QED
      BY <2>1, <2>2 DEF Range
  <1> QED
    BY <1>2, <1>3, <1>4 DEF RowsOf

\* A promotion adds a date.
LEMMA PromotionExtends ==
  ASSUME IInv, NEW d \in Sessions, NEW row \in Rows, Promote(d, row)
  PROVE  /\ latest.asOf < latest'.asOf
         /\ latest.pool \subseteq latest'.pool
         /\ \A e \in latest'.pool \ latest.pool : e > latest.asOf
         /\ \A e \in Dates : RowsOf(e) # {} => RowsOf(e)' # {}
         /\ \A e \in Dates : e <= latest.asOf => RowsOf(e) \subseteq RowsOf(e)'
  <1>1. latest.asOf < d /\ latest.asOf \in Nat /\ d \in Nat
    BY PromoteStep, DatesAreNaturals DEF IInv, TypeOK, Snapshots
  <1> DEFINE c == [row |-> row, by |-> "TDX", status |-> "CONFIRMED"]
  <1>2. latest' = [asOf |-> d, pool |-> latest.pool \cup {d},
                   daily |-> [latest.daily EXCEPT ![d] = <<c>>]]
    BY DEF Promote
  <1>3. latest.daily \in [Sessions -> Seq(Published)]
    BY DEF IInv, TypeOK, Snapshots
  <1> HIDE DEF c
  <1>4. \A e \in Sessions : e # d => latest'.daily[e] = latest.daily[e]
    BY <1>2, <1>3
  <1>5. latest'.daily[d] = <<c>> /\ c \in Range(latest'.daily[d])
    <2>1. latest'.daily[d] = <<c>>
      BY <1>2, <1>3
    <2>2. 1 \in DOMAIN <<c>> /\ <<c>>[1] = c
      OBVIOUS
    <2> QED
      BY <2>1, <2>2 DEF Range
  <1>6. \A e \in Dates : e # d => RowsOf(e)' = RowsOf(e)
    BY <1>4 DEF RowsOf
  <1>7. RowsOf(d)' # {}
    BY <1>5 DEF RowsOf
  <1>8. latest'.asOf = d /\ latest'.pool = latest.pool \cup {d}
    BY <1>2
  <1>9. ASSUME NEW e \in Dates, RowsOf(e) # {} PROVE RowsOf(e)' # {}
    BY <1>6, <1>7, <1>9, Zenon
  <1>10. ASSUME NEW e \in Dates, e <= latest.asOf PROVE RowsOf(e) \subseteq RowsOf(e)'
    <2>1. e # d
      BY <1>1, <1>10, DatesAreNaturals
    <2>2. RowsOf(e)' = RowsOf(e)
      BY <1>6, <2>1, Zenon
    <2> QED
      BY <2>2, Zenon
  <1>11. latest.asOf < latest'.asOf
    BY <1>1, <1>8
  <1>12. /\ latest.pool \subseteq latest'.pool
         /\ \A e \in latest'.pool \ latest.pool : e > latest.asOf
    BY <1>1, <1>8
  <1> QED
    BY <1>9, <1>10, <1>11, <1>12, Zenon

\* Only the three that publish change the snapshot.
LEMMA OthersPublishNothing ==
  ASSUME IInv, [Next]_vars, latest' # latest
  PROVE  \/ PublishUpdate \/ PublishBackfill
         \/ \E d \in Sessions, row \in Rows : Promote(d, row)
  BY DEF Next, vars, registry, Step, BeginUpdate, BeginBackfill, NoNewDates, Fetch,
         Write, FetchFactors, Examine, RecordResults, Finish, Revise, DieWriting,
         DieRecording, Die

LEMMA ChainStep ==
  ASSUME IInv, IInv', [Next]_vars
  PROVE  [Chain!Next]_(Chain!vars)
  <1>1. CASE latest' = latest
    BY <1>1 DEF Chain!vars
  <1>2. CASE latest' # latest
    <2>1. /\ latest.asOf <= latest'.asOf
          /\ \A d \in Dates : RowsOf(d) # {} => RowsOf(d)' # {}
          /\ \A d \in Dates : d < latest.asOf - Window => RowsOf(d) \subseteq RowsOf(d)'
          /\ latest.pool \subseteq latest'.pool
          /\ \A d \in latest'.pool \ latest.pool : d > latest.asOf
      <3>1. latest.asOf \in Nat /\ latest'.asOf \in Nat /\ Window \in Nat
        BY DatesAreNaturals, DatesAssumption DEF IInv, TypeOK, Snapshots
      <3>2. CASE PublishUpdate
        BY <3>2, UpdateExtends
      <3>3. CASE PublishBackfill
        BY <1>2, <3>3, BackfillExtends
      <3>4. CASE \E d \in Sessions, row \in Rows : Promote(d, row)
        <4>1. PICK d \in Sessions, row \in Rows : Promote(d, row)
          BY <3>4
        <4>2. \A e \in Dates : e < latest.asOf - Window => e <= latest.asOf
          BY <3>1, DatesAreNaturals
        <4> QED
          BY <3>1, <4>1, <4>2, PromotionExtends
      <3> QED
        BY <1>2, <3>2, <3>3, <3>4, OthersPublishNothing
    <2>2. /\ \A d \in Dates : RowsOf(d) \in SUBSET Published /\ RowsOf(d)' \in SUBSET Published
          /\ latest'.asOf \in Dates
      <3>1. TypeOK /\ TypeOK'
        BY DEF IInv
      <3>2. ASSUME NEW d \in Dates PROVE RowsOf(d)' \in SUBSET Published
        <4>1. CASE d \in Sessions
          <5>1. latest'.daily[d] \in Seq(Published)
            BY <3>1, <4>1 DEF TypeOK, Snapshots
          <5>2. Range(latest'.daily[d]) \subseteq Published
            BY <5>1 DEF Range
          <5> QED
            BY <4>1, <5>2 DEF RowsOf
        <4> QED
          BY <4>1 DEF RowsOf
      <3> QED
        BY <3>1, <3>2, RowsOfType DEF TypeOK, Snapshots
    <2>3. Chain!Publish
      BY <2>1, <2>2 DEF Chain!Publish, RowsOf
    <2> QED
      BY <2>3 DEF Chain!Next
  <1> QED
    BY <1>1, <1>2

\* The snapshots that latest_snapshot answers with, whatever updates, backfills
\* and promotions ran and died in between, are a chain: the frontier never goes
\* back, no published date is lost, and rows below the window stay.
THEOREM Refinement == Spec => RefinesChain
  <1>1. Init => Chain!Init
    <2> SUFFICES ASSUME Init PROVE Chain!Init
      OBVIOUS
    <2>1. TypeOK
      BY InitType
    <2> QED
      BY <2>1, RowsOfType DEF Chain!Init, RowsOf
  <1>2. IInv /\ IInv' /\ [Next]_vars => [Chain!Next]_(Chain!vars)
    BY ChainStep
  <1> QED
    BY Invariance, <1>1, <1>2, PTL DEF Spec, RefinesChain, Chain!Spec

-----------------------------------------------------------------------------
(* What is missing has a record.                                            *)

\* A file of a run that has published.
Spoken(f) == f.listed /\ (pc \in {"fetch", "write"} => f.run # run)

HasRecord(d) ==
    \E v \in Verdict : <<d, v>> \in records \/ (pc = "record" /\ <<d, v>> \in due.records)

FilesWithin ==
    /\ \A f \in raw : DOMAIN f.rows # {}
    /\ \A f \in raw : Spoken(f) =>
          f.run[3] <= latest.asOf /\ \A d \in DOMAIN f.rows : d <= latest.asOf
GotWithin ==
    pc = "write" => \A p \in Asked : DOMAIN got[p] \subseteq Between(Sessions, Start, Target)
MissingRecorded ==
    \A d \in Between(Sessions, Oldest, latest.asOf), f \in raw :
        latest.daily[d] = <<>> /\ Spoken(f) /\ Reaches(f, d) => HasRecord(d)

Accounts == deaths = 0 => FilesWithin /\ GotWithin /\ MissingRecorded

\* Whatever is given for a date is recorded.
LEMMA GivenIsRecorded ==
  ASSUME NEW given, NEW adjusted, NEW p \in DOMAIN given, given[p] # {}
  PROVE  \E v \in Verdict : v \in Verdicts(given, adjusted)
  <1>1. PICK row \in given[p] : TRUE
    OBVIOUS
  <1>2. CASE given[p] = {row}
    <2>1. Usable(given) # {}
      BY <1>1, <1>2 DEF Usable
    <2> QED
      BY <2>1 DEF Verdicts, Verdict, Status
  <1>3. CASE given[p] # {row}
    <2>1. Contradicting(given) # {}
      BY <1>1, <1>3 DEF Contradicting
    <2> QED
      BY <2>1 DEF Verdicts, Verdict
  <1> QED
    BY <1>2, <1>3

LEMMA InitAccounts == Init /\ TypeOK => Accounts
  <1> SUFFICES ASSUME Init, TypeOK PROVE FilesWithin /\ GotWithin /\ MissingRecorded
    BY DEF Accounts
  <1> DEFINE W == Between(Sessions, Oldest, First)
             heard == UNION {Served(p, Oldest, First) : p \in Asked}
  <1>1. latest.asOf = First /\ pc = "idle"
    BY DEF Init
  <1>2. ASSUME NEW f \in raw
        PROVE  \E p \in Asked : /\ f.rows = Restrict(offered[p], Served(p, Oldest, First))
                                /\ Served(p, Oldest, First) # {} /\ f.run = BootstrapRun
    BY DEF Init
  <1>3. ASSUME NEW f \in raw
        PROVE  /\ DOMAIN f.rows # {} /\ DOMAIN f.rows \subseteq heard
               /\ DOMAIN f.rows \subseteq W /\ f.run[3] = First
    <2>1. PICK p \in Asked : /\ f.rows = Restrict(offered[p], Served(p, Oldest, First))
                             /\ Served(p, Oldest, First) # {} /\ f.run = BootstrapRun
      BY <1>2
    <2>2. DOMAIN f.rows = Served(p, Oldest, First)
      BY <2>1 DEF Restrict
    <2>3. Served(p, Oldest, First) \subseteq W
      BY DEF Served
    <2> QED
      BY <2>1, <2>2, <2>3 DEF BootstrapRun
  <1>4. FilesWithin
    <2>1. \A d \in W : d <= First
      BY DEF Between
    <2>2. First <= First
      BY DatesAreNaturals
    <2> QED
      BY <1>1, <1>3, <2>1, <2>2 DEF FilesWithin
  <1>5. GotWithin
    BY <1>1 DEF GotWithin
  <1>6. ASSUME NEW d \in W, NEW f \in raw PROVE HasRecord(d)
    <2>1. CASE d \in heard
      <3>1. PICK p \in Asked : d \in Served(p, Oldest, First)
        BY <2>1
      <3> DEFINE given == Bootstrapped(d)
                 adjusted == FactorChanged(d, Oldest, First)
      <3>2. p \in DOMAIN given /\ given[p] # {}
        BY <3>1 DEF Served, Bootstrapped
      <3>3. PICK v \in Verdict : v \in Verdicts(given, adjusted)
        BY <3>2, GivenIsRecorded
      <3>4. <<d, v>> \in records
        BY <3>3 DEF Init
      <3> QED
        BY <3>4 DEF HasRecord
    <2>2. CASE d \notin heard
      <3>1. heard # {}
        BY <1>3
      <3>2. d \in MissingAmong(heard, W)
        BY <2>2, <3>1 DEF MissingAmong
      <3>3. <<d, "INCOMPLETE">> \in records
        BY <3>2 DEF Init
      <3> QED
        BY <3>3 DEF HasRecord, Verdict
    <2> QED
      BY <2>1, <2>2
  <1>7. MissingRecorded
    BY <1>1, <1>6 DEF MissingRecorded
  <1> QED
    BY <1>4, <1>5, <1>7

\* A step that publishes nothing and records nothing less.
LEMMA AccountsCalm ==
  ASSUME Accounts, UNCHANGED latest, raw' \subseteq raw, deaths' = 0 => deaths = 0,
         \A f \in raw' : Spoken(f)' => Spoken(f),
         records \subseteq records', pc = "record" => due.records \subseteq records',
         GotWithin => GotWithin'
  PROVE  Accounts'
  <1> SUFFICES ASSUME deaths' = 0 PROVE (FilesWithin /\ GotWithin /\ MissingRecorded)'
    BY DEF Accounts
  <1>1. FilesWithin /\ GotWithin /\ MissingRecorded
    BY DEF Accounts
  <1>2. FilesWithin'
    BY <1>1 DEF FilesWithin
  <1>3. \A d : HasRecord(d) => HasRecord(d)'
    BY DEF HasRecord
  <1>4. \A f, d : Reaches(f, d)' <=> Reaches(f, d)
    BY DEF Reaches
  <1>5. MissingRecorded'
    BY <1>1, <1>3, <1>4 DEF MissingRecorded, Between
  <1> QED
    BY <1>1, <1>2, <1>5

LEMMA CalmSteps ==
  ASSUME IInv, Accounts, pc # "record",
         \/ \E to \in Dates : BeginUpdate(to)
         \/ \E from, to \in Dates : BeginBackfill(from, to)
         \/ \E p \in Asked, d \in Sessions, row \in Rows : Revise(p, d, row)
         \/ NoNewDates \/ Finish
         \/ \E adj \in BOOLEAN : FetchFactors(adj)
         \/ \E d \in Sessions : Examine(d)
  PROVE  Accounts'
  <1>1. UNCHANGED <<latest, deaths>> /\ raw' \subseteq raw /\ records' = records /\ pc' # "write"
    BY DEF BeginUpdate, Cleanup, BeginBackfill, Revise, NoNewDates, Finish, Leave, FetchFactors,
           Examine, world, storage, registry, call
  <1>2. \A f \in raw' : Spoken(f)' => Spoken(f)
    <2>1. ASSUME NEW f \in raw, f.listed PROVE pc \in {"fetch", "write"} => f.run # run
      <3>1. pc # "write"
        BY DEF BeginUpdate, BeginBackfill, Revise, NoNewDates, Finish, FetchFactors, Examine
      <3> QED
        BY <3>1 DEF IInv, CallsConsistent
    <2> QED
      BY <1>1, <2>1 DEF Spoken
  <1>3. GotWithin'
    BY <1>1 DEF GotWithin
  <1> QED
    BY <1>1, <1>2, <1>3, AccountsCalm

LEMMA FetchAccounts ==
  ASSUME IInv, Accounts, NEW served \in [Asked -> SUBSET Between(Sessions, Start, Target)],
         NEW pool, NEW adj, Fetch(served, pool, adj)
  PROVE  Accounts'
  <1>1. UNCHANGED <<latest, deaths, raw, records, run>> /\ pc = "fetch" /\ pc' = "write"
    BY DEF Fetch, storage, registry
  <1>2. GotWithin'
    <2>1. \A p \in Asked : DOMAIN got'[p] \subseteq Between(Sessions, Start, Target)
      BY DEF Fetch, Restrict
    <2>2. Between(Sessions, Start, Target)' = Between(Sessions, Start, Target)
      BY <1>1 DEF Between, Start, Target
    <2> QED
      BY <2>1, <2>2 DEF GotWithin
  <1> QED
    BY <1>1, <1>2, AccountsCalm DEF Spoken

LEMMA RecordAccounts ==
  ASSUME Accounts, RecordResults
  PROVE  Accounts'
  <1>1. /\ UNCHANGED <<latest, deaths, raw>> /\ pc = "record" /\ pc' = "finish"
        /\ records' = records \cup due.records
    BY DEF RecordResults, storage
  <1> QED
    BY <1>1, AccountsCalm DEF Spoken, GotWithin

\* A file that is written is not empty and not yet of a run that has published.
LEMMA WriteAccounts ==
  ASSUME IInv, Accounts, NEW p \in Asked, Write(p)
  PROVE  Accounts'
  <1> SUFFICES ASSUME deaths = 0 PROVE (FilesWithin /\ GotWithin /\ MissingRecorded)'
    BY DEF Accounts, Write
  <1>1. /\ UNCHANGED <<latest, records, due, pc, run, got>> /\ pc = "write"
        /\ raw' = raw \cup {File(p, TRUE)}
    BY DEF Write, registry, call
  <1>2. FilesWithin /\ GotWithin /\ MissingRecorded
    BY DEF Accounts
  <1>3. File(p, TRUE).run = run /\ File(p, TRUE).rows = got[p]
    BY DEF File
  <1>4. DOMAIN got[p] # {}
    <2>1. got[p] # NoBatch /\ got[p] \in Batches
      BY DEF Write, Unwritten, IInv, TypeOK
    <2>2. PICK S \in SUBSET Sessions : got[p] \in [S -> Rows]
      BY <2>1 DEF Batches
    <2>3. S # {}
      BY <2>1, <2>2 DEF NoBatch
    <2> QED
      BY <2>2, <2>3
  <1>5. \A f \in raw' : Spoken(f)' => f \in raw /\ Spoken(f)
    BY <1>1, <1>3 DEF Spoken
  <1>6. FilesWithin'
    BY <1>1, <1>2, <1>3, <1>4, <1>5 DEF FilesWithin
  <1>7. GotWithin'
    BY <1>1, <1>2 DEF GotWithin, Between, Start, Target
  <1>8. MissingRecorded'
    BY <1>1, <1>2, <1>5 DEF MissingRecorded, HasRecord, Reaches, Between
  <1> QED
    BY <1>6, <1>7, <1>8

\* A date that no file reaches, or that keeps its record.
LEMMA FrontierAccounts ==
  ASSUME IInv, FilesWithin, MissingRecorded,
         NEW d \in Sessions, Oldest <= d, NEW f \in raw, Spoken(f), Reaches(f, d),
         latest.daily[d] = <<>>
  PROVE  HasRecord(d)
  <1>1. d <= latest.asOf
    <2>1. CASE d \in DOMAIN f.rows
      BY <2>1 DEF FilesWithin
    <2>2. CASE d <= f.run[3]
      <3>1. f.run[3] \in Nat /\ latest.asOf \in Nat /\ d \in Nat
        BY DatesAreNaturals DEF IInv, TypeOK, Files, Runs, Snapshots
      <3>2. f.run[3] <= latest.asOf
        BY DEF FilesWithin
      <3> QED
        BY <2>2, <3>1, <3>2
    <2> QED
      BY <2>1, <2>2 DEF Reaches
  <1>2. d \in Between(Sessions, Oldest, latest.asOf)
    BY <1>1 DEF Between
  <1> QED
    BY <1>2 DEF MissingRecorded

\* An update records every date that it was given a row of, and every new date
\* if it was given any.
LEMMA PublishUpdateAccounts ==
  ASSUME IInv, Accounts, PublishUpdate
  PROVE  Accounts'
  <1> SUFFICES ASSUME deaths = 0 PROVE (FilesWithin /\ GotWithin /\ MissingRecorded)'
    BY DEF Accounts, PublishUpdate
  <1> DEFINE W == Between(Sessions, Start, Target)
  <1>1. FilesWithin /\ GotWithin /\ MissingRecorded
    BY DEF Accounts
  <1>2. /\ raw' = raw /\ records' = records /\ run' = run /\ pc = "write" /\ pc' = "record"
        /\ latest'.asOf = Target
        /\ \A d \in Sessions : latest'.daily[d] = Final(d)
    BY DEF PublishUpdate, storage, call
  <1>3. /\ run[1] = "update" /\ run[2] = latest.asOf /\ run[3] = Target /\ latest.asOf < Target
        /\ latest.asOf \in Nat /\ Target \in Nat
    BY <1>2, DatesAreNaturals DEF IInv, CallsConsistent, TypeOK, Runs, Snapshots, Target
  <1>4. \A f \in raw : f.run = run => f.rows = got[f.by] /\ f.by \in Asked
                                      /\ DOMAIN f.rows \subseteq W
    BY <1>1, <1>2 DEF IInv, CallsConsistent, GotWithin, TypeOK, Files
  <1>5. \A d \in W : d \in Sessions /\ d \in Nat /\ d <= Target
    BY DatesAreNaturals DEF Between
  <1>6. \A f \in raw : f.listed => Spoken(f) \/ f.run = run
    BY DEF Spoken
  <1>7. FilesWithin'
    <2>1. ASSUME NEW f \in raw, Spoken(f)'
          PROVE  f.run[3] <= Target /\ \A d \in DOMAIN f.rows : d <= Target
      <3>1. CASE f.run = run
        BY <1>3, <1>4, <1>5, <3>1
      <3>2. CASE f.run # run
        <4>1. Spoken(f)
          BY <1>6, <2>1, <3>2 DEF Spoken
        <4>2. f.run[3] <= latest.asOf /\ \A d \in DOMAIN f.rows : d <= latest.asOf
          BY <1>1, <4>1 DEF FilesWithin
        <4>3. f.run[3] \in Nat /\ f.rows \in Batches
          BY DatesAreNaturals DEF IInv, TypeOK, Files, Runs
        <4>4. \A d \in DOMAIN f.rows : d \in Nat
          BY <4>3, BatchOf, DatesAreNaturals
        <4> QED
          BY <1>3, <4>2, <4>3, <4>4
      <3> QED
        BY <3>1, <3>2
    <2> QED
      BY <1>1, <1>2, <2>1 DEF FilesWithin
  <1>8. GotWithin'
    BY <1>2 DEF GotWithin
  <1>9. ASSUME NEW d \in W, NEW p \in Sources, Fallback(d)[p] # {} PROVE HasRecord(d)'
    <2>1. PICK v \in Verdict : v \in Verdicts(Fallback(d), Confirmed(d))
      <3>1. p \in DOMAIN Fallback(d)
        BY DEF Fallback
      <3> QED
        BY <1>9, <3>1, GivenIsRecorded
    <2>2. <<d, v>> \in due'.records
      BY <2>1 DEF PublishUpdate
    <2> QED
      BY <1>2, <2>2 DEF HasRecord
  <1>10. ASSUME NEW p \in Asked, NEW d \in DOMAIN got[p], d \in W
         PROVE  p \in Sources /\ Fallback(d)[p] # {}
    <2>1. p \in Sources
      BY AskedAssumption DEF Sources
    <2> QED
      BY <2>1 DEF Fallback
  <1>11. ASSUME NEW d \in Sessions, Oldest <= d, d <= Target, NEW f \in raw, f.run = run,
                Reaches(f, d)
         PROVE  HasRecord(d)'
    <2>1. CASE d \in DOMAIN f.rows
      <3>1. d \in W
        BY <1>4, <1>11, <2>1
      <3> QED
        BY <1>4, <1>9, <1>10, <1>11, <2>1, <3>1
    <2>2. CASE latest.asOf < d
      <3>1. d \in NewDates
        <4>1. d \in Nat
          BY DatesAreNaturals
        <4>2. latest.asOf + 1 <= d
          BY <1>3, <2>2, <4>1
        <4> QED
          BY <1>11, <4>2 DEF NewDates, Between
      <3>2. d \in W
        BY <1>3, <1>11, <2>2, DatesAreNaturals, DatesAssumption DEF Between, Start
      <3>3. CASE d \in Heard
        BY <1>9, <3>2, <3>3 DEF Heard
      <3>4. CASE d \notin Heard
        <4>1. PICK e \in DOMAIN f.rows : TRUE
          BY <1>1 DEF FilesWithin
        <4>2. e \in Heard
          BY <1>4, <1>10, <1>11, <4>1 DEF Heard
        <4>3. d \in Missing
          BY <3>1, <3>4, <4>2 DEF Missing, MissingAmong
        <4>4. <<d, "INCOMPLETE">> \in due'.records
          BY <4>3 DEF PublishUpdate
        <4> QED
          BY <1>2, <4>4 DEF HasRecord, Verdict
      <3> QED
        BY <3>3, <3>4
    <2> QED
      BY <1>3, <1>11, <2>1, <2>2 DEF Reaches
  <1>12. ASSUME NEW d \in Sessions, Oldest <= d, d <= Target, NEW f \in raw,
                latest'.daily[d] = <<>>, Spoken(f)', Reaches(f, d)
         PROVE  HasRecord(d)'
    <2>1. CASE f.run = run
      BY <1>11, <1>12, <2>1
    <2>2. CASE f.run # run
      <3>1. Spoken(f)
        BY <1>6, <1>12, <2>2 DEF Spoken
      <3>2. latest.daily[d] = <<>>
        BY <1>2, <1>12 DEF Final
      <3>3. HasRecord(d)
        BY <1>1, <1>12, <3>1, <3>2, FrontierAccounts
      <3> QED
        BY <1>2, <3>3 DEF HasRecord
    <2> QED
      BY <2>1, <2>2
  <1>13. MissingRecorded'
    <2>1. \A d \in Between(Sessions, Oldest, Target) : d \in Sessions /\ Oldest <= d /\ d <= Target
      BY DEF Between
    <2>2. \A f, d : Reaches(f, d)' <=> Reaches(f, d)
      BY DEF Reaches
    <2> QED
      BY <1>2, <1>12, <2>1, <2>2 DEF MissingRecorded, Between
  <1> QED
    BY <1>7, <1>8, <1>13

\* A frontier that moves on without an update passes no date that a file reaches.
LEMMA FrontierMoves ==
  ASSUME IInv, Accounts, UNCHANGED <<raw, records, deaths>>, latest.asOf <= latest'.asOf,
         latest'.asOf \in Nat, pc \notin {"fetch", "write", "record"}, pc' # "write",
         \A d \in Sessions : latest'.daily[d] = <<>> => latest.daily[d] = <<>>
  PROVE  Accounts'
  <1> SUFFICES ASSUME deaths = 0 PROVE (FilesWithin /\ GotWithin /\ MissingRecorded)'
    BY DEF Accounts
  <1>1. FilesWithin /\ GotWithin /\ MissingRecorded
    BY DEF Accounts
  <1>2. \A f \in raw : Spoken(f)' => Spoken(f)
    BY DEF Spoken
  <1>3. FilesWithin'
    <2>1. latest.asOf \in Nat
      BY DatesAreNaturals DEF IInv, TypeOK, Snapshots
    <2>2. \A f \in raw : f.run[3] \in Nat /\ f.rows \in Batches
      BY DatesAreNaturals DEF IInv, TypeOK, Files, Runs
    <2>3. \A f \in raw : \A d \in DOMAIN f.rows : d \in Nat
      BY <2>2, BatchOf, DatesAreNaturals
    <2>4. ASSUME NEW f \in raw, Spoken(f)
          PROVE  f.run[3] <= latest'.asOf /\ \A d \in DOMAIN f.rows : d <= latest'.asOf
      <3>1. f.run[3] <= latest.asOf /\ \A d \in DOMAIN f.rows : d <= latest.asOf
        BY <1>1, <2>4 DEF FilesWithin
      <3> QED
        BY <2>1, <2>2, <2>3, <3>1
    <2> QED
      BY <1>1, <1>2, <2>4 DEF FilesWithin
  <1>4. GotWithin'
    BY DEF GotWithin
  <1>5. MissingRecorded'
    <2>1. \A f, d : Reaches(f, d)' <=> Reaches(f, d)
      BY DEF Reaches
    <2>2. \A d : HasRecord(d) => HasRecord(d)'
      BY DEF HasRecord
    <2>3. \A d \in Between(Sessions, Oldest, latest'.asOf) : d \in Sessions /\ Oldest <= d
      BY DEF Between
    <2>4. \A d \in Sessions, f \in raw :
             Oldest <= d /\ Spoken(f) /\ Reaches(f, d) /\ latest.daily[d] = <<>> => HasRecord(d)
      BY <1>1, FrontierAccounts
    <2> QED
      BY <1>2, <2>1, <2>2, <2>3, <2>4 DEF MissingRecorded, Between
  <1> QED
    BY <1>3, <1>4, <1>5

LEMMA AccountsStep ==
  ASSUME IInv, IInv', Accounts, [Next]_vars
  PROVE  Accounts'
  <1>1. CASE \/ \E to \in Dates : BeginUpdate(to)
             \/ \E from, to \in Dates : BeginBackfill(from, to)
             \/ \E p \in Asked, d \in Sessions, row \in Rows : Revise(p, d, row)
             \/ NoNewDates \/ Finish
             \/ \E adj \in BOOLEAN : FetchFactors(adj)
             \/ \E d \in Sessions : Examine(d)
    <2>1. pc # "record"
      BY <1>1 DEF BeginUpdate, BeginBackfill, Revise, NoNewDates, Finish, FetchFactors, Examine
    <2> QED
      BY <1>1, <2>1, CalmSteps
  <1>2. CASE \E served \in [Asked -> SUBSET Between(Sessions, Start, Target)],
                pool \in [NewDates -> PoolAnswers], adj \in BOOLEAN :
               Fetch(served, pool, adj)
    BY <1>2, FetchAccounts
  <1>3. CASE \E p \in Asked : Write(p)
    BY <1>3, WriteAccounts
  <1>4. CASE PublishUpdate
    BY <1>4, PublishUpdateAccounts
  <1>5. CASE RecordResults
    BY <1>5, RecordAccounts
  <1>6. CASE PublishBackfill
    <2>1. /\ UNCHANGED <<raw, records, deaths>> /\ pc = "examine" /\ pc' = "record"
          /\ latest' = latest \/ (~(run[3] < latest.asOf) /\ latest'.asOf = run[3]
                                  /\ \A d \in Sessions : latest'.daily[d] = WithReleased(d))
      BY <1>6 DEF PublishBackfill, storage
    <2>2. latest.asOf \in Nat /\ run[3] \in Nat
      BY <2>1, DatesAreNaturals DEF IInv, TypeOK, Snapshots, Runs, CallsConsistent
    <2>3. latest.asOf <= latest'.asOf /\ latest'.asOf \in Nat
      BY <2>1, <2>2
    <2>4. ASSUME NEW d \in Sessions, latest'.daily[d] = <<>> PROVE latest.daily[d] = <<>>
      <3>1. CASE latest' = latest
        BY <2>4, <3>1
      <3>2. CASE latest'.daily[d] = WithReleased(d)
        <4>1. latest.daily[d] \in Seq(Published)
          BY DailyType DEF IInv
        <4>2. SUFFICES ASSUME latest.daily[d] # <<>> PROVE FALSE
          OBVIOUS
        <4>3. PICK m \in DOMAIN latest.daily[d] : TRUE
          <5>1. \A s \in Seq(Published) : s # <<>> => 1 \in DOMAIN s
            OBVIOUS
          <5> QED
            BY <4>1, <4>2, <5>1
        <4>4. PICK n \in DOMAIN WithReleased(d) : TRUE
          BY WithReleasedRows
        <4>5. WithReleased(d) = <<>>
          BY <2>4, <3>2
        <4> QED
          BY <4>4, <4>5
      <3> QED
        BY <2>1, <3>1, <3>2
    <2> QED
      BY <2>1, <2>3, <2>4, FrontierMoves
  <1>7. CASE \E d \in Sessions, row \in Rows : Promote(d, row)
    <2>1. PICK d \in Sessions, row \in Rows : Promote(d, row)
      BY <1>7
    <2>2. /\ UNCHANGED <<raw, records, deaths, pc>> /\ pc = "idle" /\ latest'.asOf = d
          /\ Between(Sessions, latest.asOf + 1, d) = {d}
          /\ latest'.daily = [latest.daily EXCEPT ![d] =
                                <<[row |-> row, by |-> "TDX", status |-> "CONFIRMED"]>>]
      BY <2>1 DEF Promote, storage
    <2>3. latest.asOf \in Nat /\ d \in Nat /\ latest.asOf + 1 <= d
      BY <2>2, DatesAreNaturals DEF IInv, TypeOK, Snapshots, Between
    <2>4. \A e \in Sessions : latest'.daily[e] = <<>> => latest.daily[e] = <<>>
      BY <2>2 DEF IInv, TypeOK, Snapshots
    <2> QED
      BY <2>2, <2>3, <2>4, FrontierMoves
  <1>8. CASE (\E p \in Asked : DieWriting(p)) \/ DieRecording \/ Die
    <2>1. deaths' = deaths + 1 /\ deaths \in Nat
      <3>1. deaths' = deaths + 1
        BY <1>8 DEF DieWriting, DieRecording, Die
      <3>2. deaths \in Nat
        BY BoundAssumption DEF IInv, TypeOK
      <3> QED
        BY <3>1, <3>2
    <2> QED
      BY <2>1 DEF Accounts
  <1>9. CASE UNCHANGED vars
    BY <1>9 DEF vars, world, storage, registry, call, Accounts, FilesWithin, GotWithin,
                MissingRecorded, HasRecord, Spoken, Reaches, Between, Start, Target
  <1> QED
    BY <1>1, <1>2, <1>3, <1>4, <1>5, <1>6, <1>7, <1>8, <1>9 DEF Next, Step

\* As long as no call dies, what _update_impl and _missing_records leave
\* unpublished of the sessions they were given rows for or came to with a row of
\* the code has a reconciliation record.
THEOREM MissingExplained == Spec => []Explained
  <1>1. Init => IInv /\ Accounts
    BY InitIInv, InitAccounts DEF IInv
  <1>2. (IInv /\ Accounts) /\ [Next]_vars => (IInv /\ Accounts)'
    <2>1. IInv /\ [Next]_vars => IInv'
      BY NextStep
    <2> QED
      BY <2>1, AccountsStep
  <1>3. IInv /\ Accounts => Explained
    BY DEF Accounts, MissingRecorded, HasRecord, Spoken, Explained
  <1> QED
    BY <1>1, <1>2, <1>3, PTL DEF Spec

=============================================================================
