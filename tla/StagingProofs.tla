---------------------------- MODULE StagingProofs ----------------------------
(***************************************************************************)
(* Proofs about Staging for any codes, histories, sessions, tolerance and  *)
(* number of promotions.  The inductive invariant says of every snapshot,  *)
(* withdrawn ones that a promotion recorded included, that its rows are    *)
(* the exchange's, one to a key and none past its date, and of a candidate *)
(* that its CONFIRMED rows are such rows of its sessions.  The date of a   *)
(* snapshot bounds its rows only because the market trades on a session:   *)
(* a batch without a row could else end before its base.                   *)
(***************************************************************************)
EXTENDS Staging, WellFoundedInduction, TLAPS

\* A nonempty set of naturals below a bound has a greatest element.
LEMMA Greatest ==
  ASSUME NEW S \in SUBSET Nat, NEW n \in Nat, \A x \in S : x <= n, S # {}
  PROVE  /\ Max(S) \in S /\ \A x \in S : x <= Max(S)
  <1> DEFINE T == {k \in Nat : n - k \in S}
             R == OpToRel(<, Nat)
  <1>1. PICK s \in S : TRUE
    OBVIOUS
  <1>2. n - s \in T
    <2>1. n - s \in Nat /\ n - (n - s) = s
      OBVIOUS
    <2> QED
      BY <2>1
  <1>3. IsWellFoundedOn(R, Nat)
    BY NatLessThanWellFounded
  <1>4. \A x, y \in Nat : x < y => <<x, y>> \in R
    BY DEF OpToRel
  <1> HIDE DEF R
  <1>5. PICK t \in T : \A u \in T : ~(<<u, t>> \in R)
    <2>1. T \subseteq Nat /\ T # {}
      BY <1>2
    <2> HIDE DEF T
    <2> QED
      BY <1>3, <2>1, WFMin
  <1>6. n - t \in S /\ t \in Nat
    BY <1>5
  <1>7. ASSUME NEW x \in S PROVE n - t >= x
    <2>1. n - x \in T /\ n - x \in Nat /\ x \in Nat
      <3>1. n - x \in Nat /\ n - (n - x) = x
        OBVIOUS
      <3> QED
        BY <3>1
    <2>2. ~(n - x < t)
      BY <1>4, <1>5, <1>6, <2>1
    <2> QED
      BY <1>6, <2>1, <2>2
  <1>8. \E m \in S : \A y \in S : m >= y
    BY <1>6, <1>7
  <1>9. Max(S) \in S /\ \A y \in S : Max(S) >= y
    BY <1>8 DEF Max
  <1> QED
    BY <1>9

-----------------------------------------------------------------------------
(* The inductive invariant.                                                 *)

OneToAKey(rows) == \A q, r \in rows : q.code = r.code /\ q.day = r.day => q = r

\* The rows of a snapshot.
Kept(s) ==
    /\ OneToAKey(s.rows)
    /\ \A r \in s.rows : r.day <= s.asOf
    /\ \A r \in s.rows : r.day > 0 => traded[r.code][r.day] = r.close
    /\ Root.rows \subseteq s.rows

Chained(s) ==
    \A r \in s.rows :
       r.day > 0 /\ Earlier(s, r) # {} =>
          Near(r.pre, LastRow(Earlier(s, r), r.code).close)

Traded(s) == {r \in s.rows : r.day > 0}

PoolKept(s) ==
    /\ s.pool \subseteq LimitKeys(Traded(s), MainBoard)
    /\ LimitKeys(Traded(s), Members(Root)) \subseteq s.pool

Sound(s) == Kept(s) /\ Chained(s) /\ PoolKept(s)

\* What a candidate would publish.
Genuine ==
    candidate # NoCandidate =>
       /\ OneToAKey(NewRows(candidate.rows))
       /\ \A r \in NewRows(candidate.rows) : traded[r.code][r.day] = r.close

IInv ==
    /\ TypeOK /\ Genuine /\ MembersCovered
    /\ \A s \in snapshots : Sound(s)
    /\ \A p \in published : Sound(p.snapshot)

-----------------------------------------------------------------------------
(* Last rows and predecessors.                                              *)

LEMMA LastRowIs ==
  ASSUME NEW R, NEW q \in R, OneToAKey(R), \A e \in R : e.day \in Nat,
         \A e \in R : e.code = q.code => e.day <= q.day
  PROVE  LastRow(R, q.code) = q
  <1> DEFINE Last(r) == r.code = q.code /\ \A e \in R : e.code = q.code => e.day <= r.day
  <1>1. Last(q)
    OBVIOUS
  <1>2. LastRow(R, q.code) = CHOOSE r \in R : Last(r)
    BY DEF LastRow
  <1>3. \A r \in R : Last(r) => r = q
    BY <1>1 DEF OneToAKey
  <1> HIDE DEF Last
  <1> QED
    BY <1>1, <1>2, <1>3

LEMMA LastRowExists ==
  ASSUME NEW R, NEW n \in Nat, \A e \in R : e.day \in Nat /\ e.day <= n,
         NEW c, \E e \in R : e.code = c
  PROVE  \E q \in R : q.code = c /\ \A e \in R : e.code = c => e.day <= q.day
  <1> DEFINE S == {e.day : e \in {f \in R : f.code = c}}
  <1>1. S \in SUBSET Nat /\ S # {} /\ \A x \in S : x <= n
    OBVIOUS
  <1>2. Max(S) \in S /\ \A x \in S : x <= Max(S)
    <2> HIDE DEF S
    <2> QED
      BY <1>1, Greatest
  <1>3. PICK q \in R : q.code = c /\ q.day = Max(S)
    BY <1>2
  <1> QED
    BY <1>2, <1>3

\* Of rows as a snapshot keeps them, the last one of a code is the only one.
LEMMA LastOfKept ==
  ASSUME NEW s \in Snapshots, Kept(s), NEW c, \E e \in s.rows : e.code = c
  PROVE  /\ LastRow(s.rows, c) \in s.rows /\ LastRow(s.rows, c).code = c
         /\ \A e \in s.rows : e.code = c => e.day <= LastRow(s.rows, c).day
  <1>1. s.asOf \in Nat /\ \A e \in s.rows : e.day \in Nat /\ e.day <= s.asOf
    BY DEF Snapshots, Bars, Kept
  <1>2. PICK q \in s.rows : q.code = c /\ \A e \in s.rows : e.code = c => e.day <= q.day
    BY <1>1, LastRowExists
  <1>3. OneToAKey(s.rows)
    BY DEF Kept
  <1>4. LastRow(s.rows, q.code) = q
    BY <1>1, <1>2, <1>3, LastRowIs
  <1> QED
    BY <1>2, <1>4

LEMMA SeedOfKept ==
  ASSUME NEW s \in Snapshots, Kept(s)
  PROVE  /\ DOMAIN SeedCloses(s) = {r.code : r \in s.rows}
         /\ \A c \in DOMAIN SeedCloses(s) :
              SeedCloses(s)[c] = LastRow(s.rows, c).close /\ SeedCloses(s)[c] \in Nat
  <1>1. {r \in s.rows : r.day <= s.asOf} = s.rows
    BY DEF Kept
  <1>2. SeedCloses(s) = [c \in {r.code : r \in s.rows} |-> LastRow(s.rows, c).close]
    BY <1>1 DEF SeedCloses
  <1>3. ASSUME NEW c \in {r.code : r \in s.rows} PROVE LastRow(s.rows, c).close \in Nat
    <2>1. LastRow(s.rows, c) \in s.rows
      BY LastOfKept
    <2> QED
      BY <2>1 DEF Snapshots, Bars
  <1> QED
    BY <1>2, <1>3

\* The predecessor along closes, where there is one, and of the seed elsewhere.
LEMMA PreviousIs ==
  ASSUME NEW closes, DOMAIN closes \subseteq Codes \X Nat,
         \A k \in DOMAIN closes : closes[k] \in Nat,
         NEW seed, NEW c \in Codes, NEW d \in Nat
  PROVE  \/ \E m \in Nat :
              /\ <<c, m>> \in DOMAIN closes /\ m < d /\ closes[<<c, m>>] > 0
              /\ Previous(closes, seed, c, d) = closes[<<c, m>>]
              /\ \A k \in Nat : <<c, k>> \in DOMAIN closes /\ k < d
                                /\ closes[<<c, k>>] > 0 => k <= m
         \/ /\ \A k \in Nat : <<c, k>> \in DOMAIN closes /\ k < d => ~(closes[<<c, k>>] > 0)
            /\ Previous(closes, seed, c, d) = IF c \in DOMAIN seed THEN seed[c] ELSE NoPrice
  <1> DEFINE earlier == {k \in DOMAIN closes : k[1] = c /\ k[2] < d /\ closes[k] > 0}
             S == {k[2] : k \in earlier}
  <1>1. \A k \in earlier : k = <<c, k[2]>> /\ k[2] \in Nat /\ k[2] < d
    OBVIOUS
  <1>2. \A k \in Nat : <<c, k>> \in DOMAIN closes /\ k < d /\ closes[<<c, k>>] > 0
                         => <<c, k>> \in earlier
    OBVIOUS
  <1>3. Previous(closes, seed, c, d) =
          IF earlier # {} THEN closes[<<c, Max(S)>>]
          ELSE IF c \in DOMAIN seed THEN seed[c] ELSE NoPrice
    BY DEF Previous
  <1>4. CASE earlier = {}
    BY <1>2, <1>3, <1>4
  <1>5. CASE earlier # {}
    <2>1. S \in SUBSET Nat /\ S # {} /\ \A x \in S : x <= d
      BY <1>1, <1>5
    <2>2. Max(S) \in S /\ \A x \in S : x <= Max(S)
      <3> HIDE DEF S
      <3> QED
        BY <2>1, Greatest
    <2>3. PICK k \in earlier : k[2] = Max(S)
      BY <2>2
    <2>4. k = <<c, Max(S)>> /\ Max(S) \in Nat /\ Max(S) < d
      BY <1>1, <2>3
    <2>5. <<c, Max(S)>> \in DOMAIN closes /\ closes[<<c, Max(S)>>] > 0
      BY <2>3, <2>4
    <2>6. \A j \in Nat : <<c, j>> \in DOMAIN closes /\ j < d
                           /\ closes[<<c, j>>] > 0 => j <= Max(S)
      <3>1. \A j \in Nat : <<c, j>> \in earlier => j \in S
        OBVIOUS
      <3> QED
        BY <1>2, <2>2, <3>1
    <2> QED
      BY <1>3, <1>5, <2>4, <2>5, <2>6
  <1> QED
    BY <1>4, <1>5

-----------------------------------------------------------------------------
(* Staging.                                                                 *)

LEMMA TradedClose ==
  ASSUME TypeOK, NEW c \in Codes, NEW d \in Sessions, traded[c][d] # NoTrade
  PROVE  traded[c][d] \in Nat
  BY PriceAssumption DEF TypeOK

LEMMA ReportedType ==
  ASSUME TypeOK, NEW days \in SUBSET Sessions, NEW today \in Sessions, NEW fault
  PROVE  LET tdx == [c \in Codes |-> TdxBars(c, days, today)]
         IN \A k \in Reported(days, tdx, fault) :
              /\ k \in Codes \X days /\ k = <<k[1], k[2]>>
              /\ traded[k[1]][k[2]] \in Nat
  <1> DEFINE tdx == [c \in Codes |-> TdxBars(c, days, today)]
  <1>1. ASSUME NEW k \in Reported(days, tdx, fault)
        PROVE  /\ k \in Codes \X days /\ k = <<k[1], k[2]>>
               /\ traded[k[1]][k[2]] \in Nat
    <2>1. k \in Codes \X days /\ k[2] \in tdx[k[1]]
      BY DEF Reported
    <2>2. k[1] \in Codes /\ k[2] \in Sessions /\ k = <<k[1], k[2]>>
      BY <2>1
    <2>3. traded[k[1]][k[2]] # NoTrade
      BY <2>1, <2>2 DEF TdxBars, TradedOn
    <2> QED
      BY <2>1, <2>2, <2>3, TradedClose
  <1> QED
    BY <1>1

\* The CONFIRMED rows of a run are TDX's rows, with a known predecessor.
LEMMA StagedConfirmed ==
  ASSUME TypeOK, NEW base \in Snapshots, Kept(base), NEW days \in SUBSET Sessions,
         NEW today \in Sessions, NEW tencent, NEW fault,
         Stage(base, days, [c \in Codes |-> TdxBars(c, days, today)], tencent, fault)
  PROVE  /\ candidate'.days = days /\ days # {}
         /\ \A r \in candidate'.rows :
              /\ <<r.code, r.day>> \in Codes \X days
              /\ r.status = "CONFIRMED" =>
                   /\ Bar(r) \in Bars /\ r.pre # NoPrice
                   /\ traded[r.code][r.day] = r.close
         /\ OneToAKey(NewRows(candidate'.rows))
  <1> DEFINE tdx == [c \in Codes |-> TdxBars(c, days, today)]
             seed == SeedCloses(base)
             closes == [k \in Reported(days, tdx, fault) |-> traded[k[1]][k[2]]]
             confirming == Confirming(tencent, fault)
             rows == {StagedRow(k, closes, confirming, seed, fault) : k \in DOMAIN closes}
             filled == FillIns(seed, days, closes, confirming)
  <1>1. /\ days # {} /\ candidate'.days = days /\ candidate'.rows = rows \cup filled
    BY DEF Stage
  <1>2. \A k \in DOMAIN closes :
          /\ k \in Codes \X days /\ k = <<k[1], k[2]>>
          /\ closes[k] = traded[k[1]][k[2]] /\ closes[k] \in Nat
    BY ReportedType
  <1>3. days \subseteq Nat
    BY SessionAssumption
  <1>4. DOMAIN closes \subseteq Codes \X Nat
    BY <1>2, <1>3
  <1>5. /\ DOMAIN seed \subseteq Codes
        /\ \A c \in DOMAIN seed : seed[c] \in Nat
    <2>1. DOMAIN seed = {r.code : r \in base.rows}
          /\ \A c \in DOMAIN seed : seed[c] \in Nat
      BY SeedOfKept
    <2>2. \A r \in base.rows : r.code \in Codes
      BY DEF Snapshots, Bars
    <2> QED
      BY <2>1, <2>2
  <1> HIDE DEF seed, closes, confirming, tdx
  <1>6. ASSUME NEW k \in DOMAIN closes
        PROVE  LET r == StagedRow(k, closes, confirming, seed, fault)
               IN /\ r.code = k[1] /\ r.day = k[2] /\ r.close = traded[k[1]][k[2]]
                  /\ r.close \in Nat /\ r.pre \in Nat \cup {NoPrice}
                  /\ r.status = "CONFIRMED" => r.pre # NoPrice
    <2> DEFINE r == StagedRow(k, closes, confirming, seed, fault)
    <2>1. k[1] \in Codes /\ k[2] \in Nat
      BY <1>2, <1>3
    <2>2. Previous(closes, seed, k[1], k[2]) \in Nat \cup {NoPrice}
      <3>1. \A j \in DOMAIN closes : closes[j] \in Nat
        BY <1>2
      <3>2. \/ \E m \in Nat : /\ <<k[1], m>> \in DOMAIN closes
                              /\ Previous(closes, seed, k[1], k[2]) = closes[<<k[1], m>>]
            \/ Previous(closes, seed, k[1], k[2])
                 = IF k[1] \in DOMAIN seed THEN seed[k[1]] ELSE NoPrice
        BY <1>4, <2>1, <3>1, PreviousIs
      <3> QED
        BY <1>5, <3>1, <3>2
    <2>3. /\ r.code = k[1] /\ r.day = k[2] /\ r.close = closes[k]
          /\ r.pre = Previous(closes, seed, k[1], k[2])
          /\ r.pre = NoPrice => r.status = "INCOMPLETE"
      BY DEF StagedRow
    <2> QED
      BY <1>2, <2>2, <2>3
  <1>7. ASSUME NEW r \in filled
        PROVE  /\ <<r.code, r.day>> \in Codes \X days /\ r.status = "INCOMPLETE"
    <2>1. PICK k \in (DOMAIN seed \cup {j[1] : j \in DOMAIN closes \cup confirming}) \X days :
            r.code = k[1] /\ r.day = k[2] /\ r.status = "INCOMPLETE"
      BY DEF FillIns
    <2>2. \A j \in confirming : j[1] \in Codes
      BY DEF confirming, Confirming, Keys
    <2> QED
      BY <1>2, <1>5, <2>1, <2>2
  <1>8. ASSUME NEW r \in rows
        PROVE  /\ <<r.code, r.day>> \in Codes \X days
               /\ r.status = "CONFIRMED" =>
                    /\ Bar(r) \in Bars /\ r.pre # NoPrice
                    /\ traded[r.code][r.day] = r.close
    <2>1. PICK k \in DOMAIN closes : r = StagedRow(k, closes, confirming, seed, fault)
      OBVIOUS
    <2>2. /\ r.code = k[1] /\ r.day = k[2] /\ r.close = traded[k[1]][k[2]]
          /\ r.close \in Nat /\ r.pre \in Nat \cup {NoPrice}
          /\ r.status = "CONFIRMED" => r.pre # NoPrice
      BY <1>6, <2>1
    <2>3. k[1] \in Codes /\ k[2] \in days /\ k[2] \in Nat
      BY <1>2, <1>3
    <2> QED
      BY <2>2, <2>3 DEF Bar, Bars
  <1>9. ASSUME NEW q \in NewRows(rows \cup filled), NEW r \in NewRows(rows \cup filled),
               q.code = r.code, q.day = r.day
        PROVE  q = r
    <2>1. q \in rows /\ r \in rows
      BY <1>7 DEF NewRows
    <2>2. PICK j \in DOMAIN closes : q = StagedRow(j, closes, confirming, seed, fault)
      BY <2>1
    <2>3. PICK k \in DOMAIN closes : r = StagedRow(k, closes, confirming, seed, fault)
      BY <2>1
    <2>4. q.code = j[1] /\ q.day = j[2] /\ r.code = k[1] /\ r.day = k[2]
      BY <1>6, <2>2, <2>3
    <2>5. j = k
      BY <1>2, <1>9, <2>4
    <2> QED
      BY <2>2, <2>3, <2>5
  <1>10. OneToAKey(NewRows(candidate'.rows))
    BY <1>1, <1>9 DEF OneToAKey
  <1> QED
    BY <1>1, <1>7, <1>8, <1>10

LEMMA StageStep ==
  ASSUME IInv, StageSome
  PROVE  IInv'
  <1>1. PICK base \in snapshots, days \in Batches :
          \E today \in {d \in Sessions : d >= Max(days)} : \E tencent, fault :
            Stage(base, days, [c \in Codes |-> TdxBars(c, days, today)], tencent, fault)
    BY DEF StageSome
  <1>2. days \in SUBSET Sessions
    BY DEF Batches, kSubset
  <1>3. base \in Snapshots /\ Kept(base)
    BY DEF IInv, TypeOK, Sound
  <1>4. UNCHANGED <<traded, snapshots, published, cache>>
    BY <1>1 DEF Stage
  <1>5. /\ candidate'.days \in (SUBSET Sessions) \ {{}}
        /\ \A r \in candidate'.rows :
              /\ <<r.code, r.day>> \in Codes \X candidate'.days
              /\ r.status = "CONFIRMED" =>
                   /\ Bar(r) \in Bars /\ r.pre # NoPrice
                   /\ traded[r.code][r.day] = r.close
        /\ OneToAKey(NewRows(candidate'.rows))
    <2>1. PICK today \in Sessions : \E tencent, fault :
            Stage(base, days, [c \in Codes |-> TdxBars(c, days, today)], tencent, fault)
      BY <1>1
    <2>2. TypeOK
      BY DEF IInv
    <2>3. /\ candidate'.days = days /\ days # {}
          /\ \A r \in candidate'.rows :
               /\ <<r.code, r.day>> \in Codes \X days
               /\ r.status = "CONFIRMED" =>
                    /\ Bar(r) \in Bars /\ r.pre # NoPrice
                    /\ traded[r.code][r.day] = r.close
          /\ OneToAKey(NewRows(candidate'.rows))
      BY <1>2, <1>3, <2>1, <2>2, StagedConfirmed
    <2> QED
      BY <1>2, <2>3
  <1>6. TypeOK'
    BY <1>4, <1>5 DEF IInv, TypeOK
  <1>7. Genuine'
    BY <1>4, <1>5 DEF Genuine, NewRows
  <1> QED
    BY <1>4, <1>6, <1>7
    DEF IInv, MembersCovered, Sound, Kept, Chained, PoolKept, Traded, Earlier

-----------------------------------------------------------------------------
(* Promotion.                                                               *)

\* What the gates let through, and the snapshot that it makes.
Admitted(base, events, verified) ==
    /\ candidate # NoCandidate /\ base \in snapshots
    /\ verified \in {{}, Suspended}
    /\ Priced(candidate.rows)
    /\ HistoryKept(candidate.rows, base)
    /\ Covered(candidate.rows, base, candidate.days, verified)
    /\ PoolMatches(candidate.rows, base, events)
    /\ Continuous(candidate.rows, base)

Published(base, events) ==
    [asOf |-> Max(candidate.days),
     rows |-> base.rows \cup {Bar(r) : r \in NewRows(candidate.rows)},
     pool |-> base.pool \cup events]

\* The rows of a candidate that a promotion may publish.
LEMMA NewRow ==
  ASSUME TypeOK, Genuine, candidate # NoCandidate, NEW r \in NewRows(candidate.rows)
  PROVE  /\ r \in candidate.rows /\ r.code \in Codes
         /\ r.day \in candidate.days /\ r.day \in Sessions /\ r.day \in Nat \ {0}
         /\ r.close \in Nat /\ r.pre \in Nat
         /\ Bar(r) \in Bars /\ traded[r.code][r.day] = r.close
         /\ Bar(r).code = r.code /\ Bar(r).day = r.day
         /\ Bar(r).close = r.close /\ Bar(r).pre = r.pre
  <1>1. r \in candidate.rows /\ r.status = "CONFIRMED"
    BY DEF NewRows
  <1>2. <<r.code, r.day>> \in Codes \X candidate.days /\ candidate.days \subseteq Sessions
        /\ Bar(r) \in Bars /\ r.pre # NoPrice
    BY <1>1 DEF TypeOK
  <1>3. traded[r.code][r.day] = r.close
    BY DEF Genuine
  <1>4. /\ Bar(r).code = r.code /\ Bar(r).day = r.day
        /\ Bar(r).close = r.close /\ Bar(r).pre = r.pre
    BY DEF Bar
  <1>5. r.close \in Nat /\ r.pre \in Nat
    BY <1>2, <1>4 DEF Bars
  <1> QED
    BY <1>1, <1>2, <1>3, <1>4, <1>5, SessionAssumption

\* A root is a snapshot as any other.
LEMMA RootSound ==
  ASSUME traded \in Histories
  PROVE  Root \in Snapshots /\ Sound(Root)
  <1>1. \A r \in Root.rows :
          /\ r.code \in DOMAIN RootCloses /\ r.day = 0 /\ r.close = RootCloses[r.code]
          /\ r \in Bars
          /\ r = [code |-> r.code, day |-> 0, close |-> RootCloses[r.code],
                  pre |-> RootCloses[r.code]]
    BY CodesAssumption, PriceAssumption DEF Root, Bars
  <1>2. Root.asOf = 0 /\ Root.pool = {}
    BY DEF Root
  <1>3. Root \in Snapshots
    BY <1>1, <1>2 DEF Snapshots, Root
  <1>4. Traded(Root) = {}
    BY <1>1 DEF Traded
  <1>5. Kept(Root)
    BY <1>1, <1>2 DEF Kept, OneToAKey
  <1>6. Chained(Root)
    BY <1>1 DEF Chained
  <1>7. PoolKept(Root)
    BY <1>2, <1>4 DEF PoolKept, LimitKeys
  <1> QED
    BY <1>3, <1>5, <1>6, <1>7 DEF Sound

\* The market trades on the sessions of a batch, so the batch ends after its base.
LEMMA Dated ==
  ASSUME IInv, NEW base, NEW events, NEW verified, Admitted(base, events, verified)
  PROVE  /\ Max(candidate.days) \in Nat
         /\ \A d \in candidate.days : d <= Max(candidate.days) /\ base.asOf < d
         /\ base.asOf < Max(candidate.days)
  <1> DEFINE days == candidate.days
  <1>1. base \in Snapshots /\ Kept(base) /\ TypeOK /\ Genuine
    BY DEF IInv, TypeOK, Admitted, Sound
  <1>2. days \subseteq Sessions /\ days # {} /\ days \in SUBSET Nat
    BY <1>1, SessionAssumption DEF TypeOK, Admitted
  <1>3. PICK last \in Nat : \A d \in days : d <= last
    BY <1>2, SessionAssumption
  <1>4. Max(days) \in days /\ \A d \in days : d <= Max(days)
    <2> HIDE DEF days
    <2> QED
      BY <1>2, <1>3, Greatest
  <1>5. ASSUME NEW d \in days PROVE base.asOf < d
    <2>1. PICK c \in DOMAIN RootCloses \cap MainBoard : traded[c][d] # NoTrade
      BY <1>1, <1>2, MarketAssumption DEF TypeOK
    <2>2. \E r \in Root.rows : r.code = c
      <3> DEFINE r == [code |-> c, day |-> 0, close |-> RootCloses[c],
                       pre |-> RootCloses[c]]
      <3>1. r \in Root.rows /\ r.code = c
        BY <2>1 DEF Root
      <3> QED
        BY <3>1
    <2>3. c \in Members(base)
      BY <1>1, <2>1, <2>2 DEF Kept, Members
    <2>4. <<c, d>> \notin verified
      BY <2>1 DEF Admitted, Suspended
    <2>5. PICK r \in NewRows(candidate.rows) : <<r.code, r.day>> = <<c, d>>
      <3>1. <<c, d>> \in Members(base) \X days
        BY <2>3
      <3> QED
        BY <2>4, <3>1 DEF Admitted, Covered
    <2>6. r.day > base.asOf /\ r.day = d
      BY <2>5 DEF Admitted, HistoryKept
    <2> QED
      BY <1>1, <1>2, <2>6 DEF Snapshots
  <1> QED
    BY <1>2, <1>4, <1>5

LEMMA PublishedKept ==
  ASSUME IInv, NEW base, NEW events, NEW verified, Admitted(base, events, verified)
  PROVE  Published(base, events) \in Snapshots /\ Kept(Published(base, events))
  <1> DEFINE new == Published(base, events)
             batch == NewRows(candidate.rows)
  <1>1. base \in Snapshots /\ Kept(base) /\ TypeOK /\ Genuine /\ candidate # NoCandidate
    BY DEF IInv, TypeOK, Admitted, Sound
  <1>2. /\ new.asOf = Max(candidate.days) /\ new.pool = base.pool \cup events
        /\ new.rows = base.rows \cup {Bar(r) : r \in batch}
    BY DEF Published
  <1>3. \A r \in batch :
          /\ r.code \in Codes /\ r.day \in Sessions /\ r.day \in candidate.days
          /\ r.day \in Nat /\ Bar(r) \in Bars
          /\ traded[r.code][r.day] = r.close
          /\ Bar(r).code = r.code /\ Bar(r).day = r.day /\ Bar(r).close = r.close
    BY <1>1, NewRow
  <1>4. \A r \in base.rows : r \in Bars /\ r.day \in Nat /\ r.day <= base.asOf
    BY <1>1 DEF Snapshots, Bars, Kept
  <1>5. base.asOf \in Nat /\ new.asOf \in Nat /\ base.asOf < new.asOf
        /\ \A d \in candidate.days : d <= new.asOf /\ base.asOf < d
    BY <1>1, <1>2, Dated DEF Snapshots
  <1>6. events \subseteq Keys
    BY <1>3 DEF Admitted, PoolMatches, LimitKeys, Keys
  <1>7. new \in Snapshots
    <2>1. new.rows \in SUBSET Bars /\ new.pool \in SUBSET Keys
      BY <1>1, <1>2, <1>3, <1>4, <1>6 DEF Snapshots
    <2>2. new = [asOf |-> new.asOf, pool |-> new.pool, rows |-> new.rows]
      BY DEF Published
    <2> HIDE DEF new
    <2> QED
      BY <1>5, <2>1, <2>2 DEF Snapshots
  <1>8. OneToAKey(new.rows)
    <2>1. SUFFICES ASSUME NEW q \in new.rows, NEW r \in new.rows,
                          q.code = r.code, q.day = r.day
                   PROVE  q = r
      BY DEF OneToAKey
    <2>2. CASE q \in base.rows /\ r \in base.rows
      BY <1>1, <2>1, <2>2 DEF Kept, OneToAKey
    <2>3. CASE q \in {Bar(e) : e \in batch} /\ r \in {Bar(e) : e \in batch}
      <3>1. PICK e \in batch, f \in batch : q = Bar(e) /\ r = Bar(f)
        BY <2>3
      <3>2. e = f
        BY <1>1, <1>3, <2>1, <3>1 DEF Genuine, OneToAKey
      <3> QED
        BY <3>1, <3>2
    <2>4. \A e \in batch : base.asOf < Bar(e).day /\ Bar(e).day \in Nat
      BY <1>3, <1>5
    <2> QED
      BY <1>2, <1>4, <1>5, <2>1, <2>2, <2>3, <2>4
  <1>9. \A r \in new.rows : r.day <= new.asOf
    BY <1>2, <1>3, <1>4, <1>5
  <1>10. \A r \in new.rows : r.day > 0 => traded[r.code][r.day] = r.close
    BY <1>1, <1>2, <1>3 DEF Kept
  <1>11. Root.rows \subseteq new.rows
    BY <1>1, <1>2 DEF Kept
  <1> QED
    BY <1>7, <1>8, <1>9, <1>10, <1>11 DEF Kept

\* The continuity gate looks where the chain of the published rows does.
LEMMA PublishedChained ==
  ASSUME IInv, NEW base, NEW events, NEW verified, Admitted(base, events, verified)
  PROVE  Chained(Published(base, events))
  <1> DEFINE new == Published(base, events)
             batch == NewRows(candidate.rows)
             closes == [k \in {<<r.code, r.day>> : r \in batch} |->
                          (CHOOSE r \in batch : r.code = k[1] /\ r.day = k[2]).close]
             seed == SeedCloses(base)
  <1>1. base \in Snapshots /\ Kept(base) /\ Chained(base) /\ TypeOK /\ Genuine
        /\ candidate # NoCandidate
    BY DEF IInv, TypeOK, Admitted, Sound
  <1>2. new.rows = base.rows \cup {Bar(r) : r \in batch}
    BY DEF Published
  <1>3. \A r \in batch :
          /\ r.code \in Codes /\ r.day \in Nat \ {0} /\ r.close \in Nat /\ r.pre \in Nat
          /\ base.asOf < r.day
          /\ Bar(r).code = r.code /\ Bar(r).day = r.day /\ Bar(r).close = r.close
          /\ Bar(r).pre = r.pre
    BY <1>1, NewRow, Dated
  <1>4. \A r \in base.rows : r \in Bars /\ r.day \in Nat /\ r.day <= base.asOf
    BY <1>1 DEF Snapshots, Bars, Kept
  <1>5. base.asOf \in Nat /\ new \in Snapshots /\ Kept(new)
    BY <1>1, PublishedKept DEF Snapshots
  <1>6. \A r \in batch : <<r.code, r.day>> \in DOMAIN closes
                         /\ closes[<<r.code, r.day>>] = r.close
                         /\ closes[<<r.code, r.day>>] > 0
    <2>1. ASSUME NEW r \in batch
          PROVE  (CHOOSE e \in batch : e.code = r.code /\ e.day = r.day) = r
      <3> DEFINE e == CHOOSE e \in batch : e.code = r.code /\ e.day = r.day
      <3>1. e \in batch /\ e.code = r.code /\ e.day = r.day
        OBVIOUS
      <3> HIDE DEF e
      <3> QED
        BY <1>1, <3>1 DEF Genuine, OneToAKey, e
    <2> QED
      BY <2>1 DEF Admitted, Priced
  <1>7. /\ DOMAIN closes = {<<r.code, r.day>> : r \in batch}
        /\ DOMAIN closes \subseteq Codes \X Nat
        /\ \A k \in DOMAIN closes : closes[k] \in Nat /\ closes[k] > 0
    <2>1. DOMAIN closes = {<<r.code, r.day>> : r \in batch}
      OBVIOUS
    <2> HIDE DEF closes
    <2> QED
      BY <1>3, <1>6, <2>1
  <1>8. \A r \in batch : Previous(closes, seed, r.code, r.day) # NoPrice =>
                           Near(r.pre, Previous(closes, seed, r.code, r.day))
    BY DEF Admitted, Continuous, Mismatches
  <1> SUFFICES ASSUME NEW r \in new.rows, r.day > 0, Earlier(new, r) # {}
               PROVE  Near(r.pre, LastRow(Earlier(new, r), r.code).close)
    BY DEF Chained
  <1> HIDE DEF new, closes, seed, batch
  <1>9. CASE r \in base.rows
    <2>1. Earlier(new, r) = Earlier(base, r)
      BY <1>2, <1>3, <1>4, <1>5, <1>9 DEF Earlier
    <2> QED
      BY <1>1, <1>9, <2>1 DEF Chained
  <1>10. CASE r \notin base.rows
    <2>1. PICK b \in batch : r = Bar(b)
      BY <1>2, <1>10
    <2>2. r.code = b.code /\ r.day = b.day /\ r.pre = b.pre
          /\ b.code \in Codes /\ b.day \in Nat /\ base.asOf < b.day
      BY <1>3, <2>1
    <2> DEFINE c == b.code
               d == b.day
    <2>3. OneToAKey(Earlier(new, r)) /\ \A e \in Earlier(new, r) : e.day \in Nat /\ e.code = c
      <3>1. \A e \in new.rows : e.day \in Nat
        BY <1>5 DEF Snapshots, Bars
      <3> QED
        BY <1>5, <2>2, <3>1 DEF Kept, OneToAKey, Earlier
    <2>4. \/ \E m \in Nat :
                /\ <<c, m>> \in DOMAIN closes /\ m < d
                /\ Previous(closes, seed, c, d) = closes[<<c, m>>]
                /\ \A k \in Nat : <<c, k>> \in DOMAIN closes /\ k < d => k <= m
          \/ /\ \A k \in Nat : ~(<<c, k>> \in DOMAIN closes /\ k < d)
             /\ Previous(closes, seed, c, d) = IF c \in DOMAIN seed THEN seed[c] ELSE NoPrice
      <3>1. \A k \in DOMAIN closes : closes[k] \in Nat
        BY <1>7
      <3>2. c \in Codes /\ d \in Nat
        BY <2>2
      <3>3. \/ \E m \in Nat :
              /\ <<c, m>> \in DOMAIN closes /\ m < d /\ closes[<<c, m>>] > 0
              /\ Previous(closes, seed, c, d) = closes[<<c, m>>]
              /\ \A k \in Nat : <<c, k>> \in DOMAIN closes /\ k < d
                                /\ closes[<<c, k>>] > 0 => k <= m
            \/ /\ \A k \in Nat : <<c, k>> \in DOMAIN closes /\ k < d => ~(closes[<<c, k>>] > 0)
               /\ Previous(closes, seed, c, d) = IF c \in DOMAIN seed THEN seed[c] ELSE NoPrice
        BY <1>7, <3>1, <3>2, PreviousIs
      <3> QED
        BY <1>7, <3>3
    <2>5. CASE \E m \in Nat :
                /\ <<c, m>> \in DOMAIN closes /\ m < d
                /\ Previous(closes, seed, c, d) = closes[<<c, m>>]
                /\ \A k \in Nat : <<c, k>> \in DOMAIN closes /\ k < d => k <= m
      <3>1. PICK m \in Nat :
                /\ <<c, m>> \in DOMAIN closes /\ m < d
                /\ Previous(closes, seed, c, d) = closes[<<c, m>>]
                /\ \A k \in Nat : <<c, k>> \in DOMAIN closes /\ k < d => k <= m
        BY <2>5
      <3>2. PICK f \in batch : f.code = c /\ f.day = m
        BY <1>7, <3>1
      <3>3. f.close \in Nat /\ base.asOf < m /\ Previous(closes, seed, c, d) = f.close
        BY <1>3, <1>6, <3>1, <3>2
      <3>4. Bar(f) \in Earlier(new, r) /\ Bar(f).code = c /\ Bar(f).day = m
            /\ Bar(f).close = f.close
        BY <1>2, <1>3, <2>2, <3>1, <3>2 DEF Earlier
      <3>5. ASSUME NEW e \in Earlier(new, r) PROVE e.day <= m
        <4>1. e \in new.rows /\ e.code = c /\ e.day < d
          BY <2>2 DEF Earlier
        <4>2. CASE e \in base.rows
          BY <1>4, <1>5, <3>3, <4>2
        <4>3. CASE e \notin base.rows
          <5>1. PICK g \in batch : e = Bar(g)
            BY <1>2, <4>1, <4>3
          <5>2. g.code = c /\ g.day = e.day /\ e.day \in Nat
            BY <1>3, <4>1, <5>1
          <5> QED
            BY <1>7, <3>1, <4>1, <5>2
        <4> QED
          BY <4>2, <4>3
      <3>6. LastRow(Earlier(new, r), c) = Bar(f)
        BY <2>3, <3>4, <3>5, LastRowIs
      <3>7. f.close # NoPrice
        BY <3>3, PriceAssumption
      <3> QED
        BY <1>8, <2>1, <2>2, <3>3, <3>4, <3>6, <3>7
    <2>6. CASE /\ \A k \in Nat : ~(<<c, k>> \in DOMAIN closes /\ k < d)
               /\ Previous(closes, seed, c, d) = IF c \in DOMAIN seed THEN seed[c] ELSE NoPrice
      <3>1. ASSUME NEW e \in Earlier(new, r) PROVE e \in base.rows /\ e.code = c
        <4>1. e \in new.rows /\ e.code = c /\ e.day < d
          BY <2>2 DEF Earlier
        <4>2. ASSUME NEW g \in batch, e = Bar(g) PROVE FALSE
          <5>1. g.code = c /\ g.day = e.day /\ e.day \in Nat
            BY <1>3, <4>1, <4>2
          <5> QED
            BY <1>7, <2>6, <4>1, <5>1
        <4> QED
          BY <1>2, <4>1, <4>2
      <3>2. \E e \in base.rows : e.code = c
        BY <3>1
      <3>3. /\ LastRow(base.rows, c) \in base.rows /\ LastRow(base.rows, c).code = c
            /\ \A e \in base.rows : e.code = c => e.day <= LastRow(base.rows, c).day
        BY <1>1, <3>2, LastOfKept
      <3>4. c \in DOMAIN seed /\ seed[c] = LastRow(base.rows, c).close /\ seed[c] \in Nat
        BY <1>1, <3>2, SeedOfKept DEF seed
      <3>5. LastRow(base.rows, c) \in Earlier(new, r)
        BY <1>2, <1>4, <1>5, <2>2, <3>3 DEF Earlier
      <3>6. LastRow(Earlier(new, r), c) = LastRow(base.rows, c)
        <4> DEFINE q == LastRow(base.rows, c)
        <4>1. q \in Earlier(new, r) /\ q.code = c
          BY <3>3, <3>5
        <4>2. \A e \in Earlier(new, r) : e.day <= q.day
          BY <3>1, <3>3
        <4> HIDE DEF q
        <4>3. LastRow(Earlier(new, r), q.code) = q
          BY <2>3, <4>1, <4>2, LastRowIs
        <4> QED
          BY <4>1, <4>3 DEF q
      <3>7. Previous(closes, seed, c, d) = seed[c] /\ seed[c] # NoPrice
        BY <2>6, <3>4, PriceAssumption
      <3> QED
        BY <1>8, <2>1, <2>2, <3>4, <3>6, <3>7
    <2> QED
      BY <2>4, <2>5, <2>6
  <1> QED
    BY <1>9, <1>10

\* The pool gate is about the batch, the base's pool about the rows before it.
LEMMA PublishedPool ==
  ASSUME IInv, NEW base, NEW events, NEW verified, Admitted(base, events, verified)
  PROVE  PoolKept(Published(base, events))
  <1> DEFINE new == Published(base, events)
             batch == NewRows(candidate.rows)
  <1>1. base \in Snapshots /\ Kept(base) /\ PoolKept(base) /\ TypeOK /\ Genuine
        /\ candidate # NoCandidate
    BY DEF IInv, TypeOK, Admitted, Sound
  <1>2. /\ new.rows = base.rows \cup {Bar(r) : r \in batch}
        /\ new.pool = base.pool \cup events
    BY DEF Published
  <1>3. \A r \in batch :
          /\ r.day \in Nat \ {0} /\ Bar(r).code = r.code /\ Bar(r).day = r.day
          /\ Bar(r).close = r.close /\ Bar(r).pre = r.pre
          /\ IsLimitClose(Bar(r)) = IsLimitClose(r)
    <2>1. \A r \in batch :
          /\ r.day \in Nat \ {0} /\ Bar(r).code = r.code /\ Bar(r).day = r.day
          /\ Bar(r).close = r.close /\ Bar(r).pre = r.pre
      BY <1>1, NewRow
    <2> QED
      BY <2>1 DEF IsLimitClose
  <1>4. events = LimitKeys(batch, Members(base))
    BY DEF Admitted, PoolMatches
  <1>5. Members(Root) \subseteq Members(base) /\ Members(base) \subseteq MainBoard
    BY <1>1 DEF Members, Kept
  <1>6. Traded(new) = Traded(base) \cup {Bar(r) : r \in batch}
    BY <1>2, <1>3 DEF Traded
  <1> HIDE DEF new, batch
  <1>7. ASSUME NEW codes
        PROVE  LimitKeys(Traded(new), codes)
                 = LimitKeys(Traded(base), codes) \cup LimitKeys(batch, codes)
    BY <1>3, <1>6 DEF LimitKeys
  <1>8. LimitKeys(batch, Members(Root)) \subseteq events
        /\ events \subseteq LimitKeys(batch, MainBoard)
    BY <1>4, <1>5 DEF LimitKeys
  <1> QED
    BY <1>1, <1>2, <1>7, <1>8 DEF PoolKept, new

LEMMA PromoteStep ==
  ASSUME IInv, PromoteSome
  PROVE  IInv'
  <1>1. PICK base \in snapshots, verified \in {{}, Suspended} :
          \E events \in DerivedEvents(candidate.rows, base) : Promote(base, events, verified)
    BY DEF PromoteSome
  <1>2. PICK events : Promote(base, events, verified)
    BY <1>1
  <1>3. UNCHANGED <<traded, candidate, cache>>
    BY <1>2 DEF Promote
  <1>4. CASE UNCHANGED <<snapshots, published>>
    BY <1>3, <1>4 DEF IInv, TypeOK, Genuine, MembersCovered, Sound, Kept, Chained, PoolKept
  <1>5. CASE ~UNCHANGED <<snapshots, published>>
    <2> DEFINE new == Published(base, events)
               entry == [snapshot |-> new, base |-> base, days |-> candidate.days]
    <2>1. /\ Admitted(base, events, verified)
          /\ snapshots' = snapshots \cup {new} /\ published' = published \cup {entry}
      BY <1>1, <1>2, <1>5 DEF Promote, Admitted, Published
    <2>2. new \in Snapshots /\ Sound(new)
      BY <2>1, PublishedKept, PublishedChained, PublishedPool DEF Sound
    <2>3. base \in Snapshots /\ candidate.days \in SUBSET Sessions /\ TypeOK /\ Genuine
          /\ candidate # NoCandidate
      BY <2>1 DEF IInv, TypeOK, Admitted
    <2>4. ASSUME NEW k \in Members(base) \X candidate.days, traded[k[1]][k[2]] # NoTrade
          PROVE  \E r \in new.rows : <<r.code, r.day>> = k /\ r.close = traded[k[1]][k[2]]
      <3>1. k = <<k[1], k[2]>> /\ k \notin verified
        BY <1>1, <2>4 DEF Suspended
      <3>2. PICK r \in NewRows(candidate.rows) : <<r.code, r.day>> = k
        BY <2>1, <2>4, <3>1 DEF Admitted, Covered
      <3>3. Bar(r).code = r.code /\ Bar(r).day = r.day /\ Bar(r).close = r.close
            /\ traded[r.code][r.day] = r.close
        BY <2>3, NewRow
      <3>4. Bar(r) \in new.rows
        BY DEF Published
      <3> QED
        BY <3>1, <3>2, <3>3, <3>4
    <2>5. entry.snapshot = new /\ entry.base = base /\ entry.days = candidate.days
          /\ entry \in [snapshot : Snapshots, base : Snapshots, days : SUBSET Sessions]
      BY <2>2, <2>3
    <2> HIDE DEF new, entry
    <2>6. TypeOK'
      BY <1>3, <2>1, <2>2, <2>3, <2>5 DEF TypeOK
    <2>7. Genuine'
      BY <1>3, <2>3 DEF Genuine
    <2>8. MembersCovered'
      <3>1. \A p \in published : \A k \in Members(p.base) \X p.days :
               traded[k[1]][k[2]] # NoTrade =>
                  \E r \in p.snapshot.rows : /\ <<r.code, r.day>> = k
                                             /\ r.close = traded[k[1]][k[2]]
        BY DEF IInv, MembersCovered
      <3>2. \A k \in Members(entry.base) \X entry.days :
               traded[k[1]][k[2]] # NoTrade =>
                  \E r \in entry.snapshot.rows : /\ <<r.code, r.day>> = k
                                                 /\ r.close = traded[k[1]][k[2]]
        BY <2>4, <2>5
      <3> QED
        BY <1>3, <2>1, <3>1, <3>2 DEF MembersCovered
    <2>9. (\A s \in snapshots : Sound(s)) /\ (\A p \in published : Sound(p.snapshot))
      BY DEF IInv
    <2>10. ASSUME NEW s, Sound(s) PROVE Sound(s)'
      BY <1>3, <2>10 DEF Sound, Kept, Chained, PoolKept
    <2>11. (\A s \in snapshots' : Sound(s)') /\ (\A p \in published' : Sound(p.snapshot)')
      BY <2>1, <2>2, <2>5, <2>9, <2>10
    <2> QED
      BY <2>6, <2>7, <2>8, <2>11 DEF IInv
  <1> QED
    BY <1>4, <1>5

-----------------------------------------------------------------------------
(* The theorems.                                                            *)

LEMMA Initially ==
  ASSUME Init
  PROVE  IInv
  <1>1. Root \in Snapshots /\ Sound(Root)
    BY RootSound DEF Init
  <1> QED
    BY <1>1 DEF Init, IInv, TypeOK, Genuine, MembersCovered

LEMMA Inductive ==
  ASSUME IInv, [Next]_vars
  PROVE  IInv'
  <1>1. CASE UNCHANGED vars
    BY <1>1 DEF vars, IInv, TypeOK, Genuine, MembersCovered, Sound, Kept, Chained, PoolKept
  <1>2. CASE \E days \in Batches, failed \in Failing : FetchTencent(days, failed)
    <2>1. PICK days \in Batches, failed \in Failing : FetchTencent(days, failed)
      BY <1>2
    <2>2. days \in SUBSET Sessions
      BY DEF Batches, kSubset
    <2>3. TencentFiles(days, failed) \in [Codes -> SUBSET Sessions]
      BY <2>2 DEF IInv, TypeOK, TencentFiles, TradedOn
    <2>4. /\ UNCHANGED <<traded, snapshots, published, candidate>>
          /\ cache' = TencentFiles(days, failed)
      BY <2>1 DEF FetchTencent
    <2> QED
      BY <2>3, <2>4
      DEF IInv, TypeOK, Genuine, MembersCovered, Sound, Kept, Chained, PoolKept
  <1>3. CASE StageSome
    BY <1>3, StageStep
  <1>4. CASE GiveUp
    BY <1>4
    DEF GiveUp, IInv, TypeOK, Genuine, MembersCovered, Sound, Kept, Chained, PoolKept
  <1>5. CASE PromoteSome
    BY <1>5, PromoteStep
  <1>6. CASE \E s \in snapshots : Withdraw(s)
    BY <1>6
    DEF Withdraw, IInv, TypeOK, Genuine, MembersCovered, Sound, Kept, Chained, PoolKept
  <1> QED
    BY <1>1, <1>2, <1>3, <1>4, <1>5, <1>6 DEF Next

LEMMA Always == Spec => []IInv
  <1>1. Init => IInv
    BY Initially
  <1>2. IInv /\ [Next]_vars => IInv'
    BY Inductive
  <1> QED
    BY <1>1, <1>2, PTL DEF Spec

\* The warehouse, the candidate and the cached files stay of their types.
THEOREM TypeCorrect == Spec => []TypeOK
  <1>1. IInv => TypeOK
    BY DEF IInv
  <1> QED
    BY <1>1, Always, PTL

\* For any histories, faults, caches and choice of bases: the preclose of every
\* published row is, within the tolerance, the close published before it.
THEOREM PrecloseChain == Spec => []PublishedChain
  <1>1. IInv => PublishedChain
    BY DEF IInv, Sound, Chained, PublishedChain
  <1> QED
    BY <1>1, Always, PTL

\* No member of the base's universe misses a bar it traded on a promoted session.
THEOREM UniverseCovered == Spec => []MembersCovered
  <1>1. IInv => MembersCovered
    BY DEF IInv
  <1> QED
    BY <1>1, Always, PTL

\* The pool of a published snapshot names limit closes only, and every one of a
\* code of the root.
THEOREM PoolExact == Spec => []PoolIsLimitCloses
  <1>1. IInv => PoolIsLimitCloses
    BY DEF IInv, Sound, PoolKept, Traded, PoolIsLimitCloses
  <1> QED
    BY <1>1, Always, PTL

=============================================================================
