----------------------------- MODULE AslProofs -----------------------------
(***************************************************************************)
(* Proofs about AslLake and AslSnapshot for any codes, listings, closes,   *)
(* days, windows, chunks and number of builds.  What a reader answers of a *)
(* key is a function of the lake alone (Fact, Excuse): the search before   *)
(* the window and the chain inside it always meet at the last close.  A    *)
(* build holds bars of sessions that have come, which nothing revises; of  *)
(* what moves under it, the statuses, the rows keep nothing that is asked  *)
(* of them here.                                                           *)
(***************************************************************************)
EXTENDS AslSnapshot, WellFoundedInduction, TLAPS

\* A nonempty set of naturals below a bound has a greatest element.
LEMMA Greatest ==
  ASSUME NEW S \in SUBSET Nat, NEW n \in Nat, \A x \in S : x <= n, S # {}
  PROVE  /\ Max(S) \in S /\ \A x \in S : x <= Max(S)
  <1> DEFINE T == {k \in Nat : n - k \in S}
             R == OpToRel(<, Nat)
  <1>1. PICK s \in S : TRUE
    OBVIOUS
  <1>2. n - s \in T
    <2>1. n - s \in Nat /\ n - (n - s) = s
      OBVIOUS
    <2> QED
      BY <2>1
  <1>3. IsWellFoundedOn(R, Nat)
    BY NatLessThanWellFounded
  <1>4. \A x, y \in Nat : x < y => <<x, y>> \in R
    BY DEF OpToRel
  <1> HIDE DEF R
  <1>5. PICK t \in T : \A u \in T : ~(<<u, t>> \in R)
    <2>1. T \subseteq Nat /\ T # {}
      BY <1>2
    <2> HIDE DEF T
    <2> QED
      BY <1>3, <2>1, WFMin
  <1>6. n - t \in S /\ t \in Nat
    BY <1>5
  <1>7. ASSUME NEW x \in S PROVE n - t >= x
    <2>1. n - x \in T /\ n - x \in Nat /\ x \in Nat
      <3>1. n - x \in Nat /\ n - (n - x) = x
        OBVIOUS
      <3> QED
        BY <3>1
    <2>2. ~(n - x < t)
      BY <1>4, <1>5, <1>6, <2>1
    <2> QED
      BY <1>6, <2>1, <2>2
  <1>8. \E m \in S : \A y \in S : m >= y
    BY <1>6, <1>7
  <1>9. Max(S) \in S /\ \A y \in S : Max(S) >= y
    BY <1>8 DEF Max
  <1> QED
    BY <1>9

-----------------------------------------------------------------------------
(* The lake.                                                                *)

LakeOK ==
    /\ \A c \in Instruments : listing[c] \in Listings[c]
    /\ collected \subseteq Days
    /\ \A d \in collected, e \in Days : e < d => e \in collected
    /\ bars \in [Keys -> Bar \cup {NoBar}]
    /\ statuses \in [Keys -> Status \cup {NoRow}]
    /\ \A k \in Keys : bars[k] # NoBar => k[2] \in collected /\ Listed(k[1], k[2])

LEMMA CollectedDays ==
  ASSUME NEW d \in Days
  PROVE  d \in Nat /\ d <= LastDay
  BY DayAssumption DEF Days

\* The greatest of some days.
LEMMA LatestDay ==
  ASSUME NEW S \in SUBSET Days, S # {}
  PROVE  Max(S) \in S /\ Max(S) \in Days /\ \A d \in S : d <= Max(S)
  <1>1. S \in SUBSET Nat /\ \A d \in S : d <= LastDay
    BY CollectedDays
  <1> QED
    BY <1>1, Greatest, DayAssumption

LEMMA LakeStarts ==
  ASSUME LakeInit
  PROVE  LakeOK
  BY DEF LakeInit, LakeOK, Keys

\* What the exchange gives of a day is a bar, or none.
LEMMA FoundIsBar ==
  ASSUME NEW c \in Instruments, NEW d \in Days, NEW bar \in Ordinary(c, d) \cup Odd(c, d)
  PROVE  bar \in Bar \cup {NoBar}
  <1>1. ClosesOf[<<c, d>>] \subseteq Nat
    <2>1. <<c, d>> \in Instruments \X Days
      OBVIOUS
    <2> QED
      BY <2>1, CloseAssumption
  <1>2. \A S \in SUBSET Nat, T \in SUBSET BOOLEAN, A \in SUBSET BOOLEAN :
          [close : S, traded : T, amount : A] \subseteq Bar
    BY DEF Bar
  <1>3. ClosesOf[<<c, d>>] \cup {0} \subseteq Nat
    BY <1>1
  <1> QED
    <2>1. {TRUE} \in SUBSET BOOLEAN /\ {FALSE} \in SUBSET BOOLEAN
      OBVIOUS
    <2>2. [close : ClosesOf[<<c, d>>], traded : {TRUE}, amount : {TRUE}] \subseteq Bar
      BY <1>1, <1>2, <2>1
    <2>3. [close : ClosesOf[<<c, d>>], traded : {TRUE}, amount : {FALSE}] \subseteq Bar
      BY <1>1, <1>2, <2>1
    <2>4. [close : ClosesOf[<<c, d>>] \cup {0}, traded : {FALSE}, amount : {TRUE}] \subseteq Bar
      BY <1>2, <1>3, <2>1
    <2>5. bar \in [close : ClosesOf[<<c, d>>], traded : {TRUE}, amount : {TRUE}]
          \/ bar = NoBar
          \/ bar \in [close : ClosesOf[<<c, d>>], traded : {TRUE}, amount : {FALSE}]
          \/ bar \in [close : ClosesOf[<<c, d>>] \cup {0}, traded : {FALSE}, amount : {TRUE}]
      BY Zenon DEF Ordinary, Odd
    <2> QED
      BY <2>2, <2>3, <2>4, <2>5, Zenon

LEMMA CollectStep ==
  ASSUME LakeOK, Collect
  PROVE  LakeOK' /\ listing' = listing
  <1>0. PICK d \in Days \ collected, stepped \in BOOLEAN :
          \E found \in FoundOn(d) : Session(d, found, stepped)
    BY DEF Collect
  <1>1. PICK found \in FoundOn(d) : Session(d, found, stepped)
    BY <1>0
  <1> DEFINE listed == ListedOn(d)
  <1>2. /\ \A e \in Days : e < d => e \in collected
        /\ \A c \in listed : c \in Instruments /\ Listed(c, d)
                             /\ found[c] \in Ordinary(c, d) \cup Odd(c, d)
        /\ collected' = collected \cup {d}
        /\ bars' = [k \in Keys |->
                      IF k[2] = d /\ k[1] \in listed THEN found[k[1]] ELSE bars[k]]
        /\ statuses' = [k \in Keys |->
                          IF stepped /\ k[2] = d /\ k[1] \in listed
                          THEN SameDay(found[k[1]], d) ELSE statuses[k]]
        /\ UNCHANGED listing
    BY <1>1 DEF Session, FoundOn, ListedOn
  <1> HIDE DEF listed
  <1>3. \A c \in listed : found[c] \in Bar \cup {NoBar} /\ c \in Instruments
    BY <1>2, FoundIsBar
  <1>4. collected' \subseteq Days /\ \A e \in collected', f \in Days : f < e => f \in collected'
    BY <1>2 DEF LakeOK
  <1>5. bars' \in [Keys -> Bar \cup {NoBar}]
    BY <1>2, <1>3 DEF LakeOK
  <1>6. \A c \in listed : SameDay(found[c], d) \in Status
    <2>1. ASSUME NEW c \in listed PROVE SameDay(found[c], d) \in Status
      <3>1. (found[c] # NoBar /\ found[c].traded) \in BOOLEAN
        BY <1>3 DEF Bar
      <3> QED
        BY <3>1 DEF SameDay, Status
    <2> QED
      BY <2>1
  <1>7. statuses' \in [Keys -> Status \cup {NoRow}]
    BY <1>2, <1>6 DEF LakeOK
  <1>8. \A k \in Keys : bars'[k] # NoBar => k[2] \in collected' /\ Listed(k[1], k[2])
    BY <1>2 DEF LakeOK
  <1> QED
    BY <1>2, <1>4, <1>5, <1>7, <1>8 DEF LakeOK, Listed

\* A status that is given to a key, and which rows it may be.
LEMMA PutStep ==
  ASSUME LakeOK, NEW c \in Instruments, NEW d \in collected, NEW row \in Status,
         PutStatus(c, d, row)
  PROVE  /\ LakeOK' /\ UNCHANGED <<listing, collected, bars>>
         /\ statuses' = [statuses EXCEPT ![<<c, d>>] = row]
  <1>1. /\ UNCHANGED <<listing, collected, bars>>
        /\ statuses' = [statuses EXCEPT ![<<c, d>>] = row]
    BY DEF PutStatus
  <1>2. statuses' \in [Keys -> Status \cup {NoRow}]
    BY <1>1 DEF LakeOK
  <1> QED
    BY <1>1, <1>2 DEF LakeOK, Listed

LEMMA PutSome ==
  ASSUME LakeOK, BackfillGap \/ BackfillSt \/ Refresh
  PROVE  \E c \in Instruments, d \in collected, row \in Status : PutStatus(c, d, row)
  <1>1. ASSUME NEW d \in collected PROVE Today \in Days
    <2>1. collected \in SUBSET Days /\ collected # {}
      BY DEF LakeOK
    <2> QED
      BY <2>1, LatestDay DEF Today
  <1>2. CASE BackfillGap
    <2>1. PICK c \in Instruments, d \in collected :
            PutStatus(c, d, [source |-> "derived_bar_gap", status |-> "suspended",
                             trading |-> FALSE, fetched |-> Today])
      BY <1>2 DEF BackfillGap
    <2>2. [source |-> "derived_bar_gap", status |-> "suspended",
           trading |-> FALSE, fetched |-> Today] \in Status
      BY <1>1 DEF Status
    <2> QED
      BY <2>1, <2>2
  <1>3. CASE BackfillSt
    <2>1. PICK c \in Instruments, d \in collected, status \in {"st", "suspended"} :
            PutStatus(c, d, [source |-> "baostock", status |-> status,
                             trading |-> TRUE, fetched |-> Today])
      BY <1>3 DEF BackfillSt
    <2>2. [source |-> "baostock", status |-> status,
           trading |-> TRUE, fetched |-> Today] \in Status
      BY <1>1 DEF Status
    <2> QED
      BY <2>1, <2>2
  <1>4. CASE Refresh
    <2>1. PICK c \in Instruments, d \in collected, row \in Late :
            PutStatus(c, d, [source |-> row.source, status |-> row.status,
                             trading |-> row.trading, fetched |-> Today])
      BY <1>4 DEF Refresh
    <2>2. [source |-> row.source, status |-> row.status,
           trading |-> row.trading, fetched |-> Today] \in Status
      BY <1>1 DEF Late, Status
    <2> QED
      BY <2>1, <2>2
  <1> QED
    BY <1>2, <1>3, <1>4

LEMMA LakeStep ==
  ASSUME LakeOK, [Next]_vars
  PROVE  LakeOK'
  <1>1. CASE Collecting
    BY <1>1, CollectStep DEF Collecting
  <1>2. CASE Backfilling \/ Refreshing
    <2>1. PICK c \in Instruments, d \in collected, row \in Status : PutStatus(c, d, row)
      BY <1>2, PutSome DEF Backfilling, Refreshing
    <2> QED
      BY <2>1, PutStep
  <1>3. CASE UNCHANGED lake
    BY <1>3 DEF lake, LakeOK, Listed
  <1> QED
    BY <1>1, <1>2, <1>3 DEF Next, vars, Begin, Read, Emit, Publish

\* The sessions that have come keep their bars, whatever the lake does.
LEMMA BarsStay ==
  ASSUME LakeOK, [Next]_vars
  PROVE  /\ collected \subseteq collected'
         /\ \A c, d : d \in collected => BarOf(c, d)' = BarOf(c, d)
  <1>1. CASE Collecting
    <2>1. PICK d \in Days \ collected, stepped \in BOOLEAN :
            \E found \in FoundOn(d) : Session(d, found, stepped)
      BY <1>1 DEF Collecting, Collect
    <2>2. ASSUME NEW c, NEW e \in collected PROVE BarOf(c, e)' = BarOf(c, e)
      BY <2>1 DEF BarOf, Session
    <2> QED
      BY <2>1, <2>2 DEF Session
  <1>2. CASE Backfilling \/ Refreshing
    <2>1. PICK c \in Instruments, d \in collected, row \in Status : PutStatus(c, d, row)
      BY <1>2, PutSome DEF Backfilling, Refreshing
    <2> QED
      BY <2>1 DEF PutStatus, BarOf
  <1>3. CASE UNCHANGED lake
    BY <1>3 DEF lake, BarOf
  <1> QED
    BY <1>1, <1>2, <1>3 DEF Next, vars, Begin, Read, Emit, Publish

-----------------------------------------------------------------------------
(* The close before a day.                                                  *)

\* Both readers find the same close before the window: no bar is older than the
\* listing.
LEMMA BeforeAgrees ==
  ASSUME LakeOK, NEW codes \in SUBSET Instruments, NEW from \in Days \cup {NoDay}
  PROVE  PhysicalBefore(codes, from) = QueryBefore(codes, from)
  <1> DEFINE P(c) == {d \in Days : /\ from # NoDay /\ d < from
                                   /\ listing[c].list # NoDay =>
                                        listing[c].list < from /\ d >= listing[c].list
                                   /\ BarOf(c, d) # NoBar /\ BarOf(c, d).close > 0}
             Q(c) == {d \in Days : /\ from # NoDay /\ d < from /\ BarOf(c, d) # NoBar
                                   /\ BarOf(c, d).close > 0}
  <1>1. ASSUME NEW c \in codes PROVE P(c) = Q(c)
    <2>1. ASSUME NEW d \in Q(c) PROVE d \in P(c)
      <3>1. <<c, d>> \in Keys /\ bars[<<c, d>>] # NoBar
        BY DEF BarOf
      <3>2. Listed(c, d)
        BY <3>1 DEF LakeOK
      <3>3. listing[c].list \in Days \cup {NoDay}
        BY ListingAssumption DEF LakeOK
      <3> QED
        BY <3>2, <3>3, CollectedDays, DayAssumption DEF Listed
    <2> QED
      BY <2>1
  <1>2. PhysicalBefore(codes, from) =
          [c \in codes |-> IF P(c) # {} THEN BarOf(c, Max(P(c))).close ELSE NoClose]
    BY DEF PhysicalBefore
  <1>3. QueryBefore(codes, from) =
          [c \in codes |-> IF Q(c) # {} THEN BarOf(c, Max(Q(c))).close ELSE NoClose]
    BY DEF QueryBefore
  <1> HIDE DEF P, Q
  <1> QED
    BY <1>1, <1>2, <1>3

\* The chain through a window, whose start the search before it takes over.
LEMMA ChainedIsLast ==
  ASSUME NEW codes, NEW from \in Days \cup {NoDay}, NEW asOf \in Days, NEW view,
         view.sessions = Sessions(from, asOf),
         view.before = QueryBefore(codes, from),
         \A k \in codes \X view.sessions : view.bars[k] = BarOf(k[1], k[2]),
         NEW c \in codes, NEW d \in Sessions(from, asOf)
  PROVE  Chained(view, c, d) = LastClose(c, d)
  <1> DEFINE S == Sessions(from, asOf)
             inside == {e \in S : e < d /\ BarOf(c, e) # NoBar /\ BarOf(c, e).close > 0}
             before == {e \in Days : /\ from # NoDay /\ e < from /\ BarOf(c, e) # NoBar
                                     /\ BarOf(c, e).close > 0}
             all == {e \in Days : e < d /\ BarOf(c, e) # NoBar /\ BarOf(c, e).close > 0}
  <1>1. d \in Nat /\ asOf \in Nat /\ d \in Days /\ d <= asOf /\ S \subseteq Days
        /\ \A e \in Days : e \in Nat
    BY CollectedDays DEF Sessions
  <1>2. from # NoDay => from \in Nat /\ d >= from
    BY <1>1 DEF Sessions
  <1>3. \A e \in S : view.bars[<<c, e>>] = BarOf(c, e)
    OBVIOUS
  <1>4. Chained(view, c, d) =
          IF inside # {} THEN BarOf(c, Max(inside)).close
          ELSE IF before # {} THEN BarOf(c, Max(before)).close ELSE NoClose
    <2>1. {e \in view.sessions : /\ e < d /\ view.bars[<<c, e>>] # NoBar
                                 /\ view.bars[<<c, e>>].close > 0} = inside
      BY <1>3
    <2>2. view.before[c] = IF before # {} THEN BarOf(c, Max(before)).close ELSE NoClose
      BY DEF QueryBefore
    <2>3. inside # {} => Max(inside) \in inside
      <3>1. inside \in SUBSET Days
        BY <1>1
      <3> HIDE DEF inside
      <3> QED
        BY <3>1, LatestDay
    <2>4. inside # {} => view.bars[<<c, Max(inside)>>] = BarOf(c, Max(inside))
      BY <1>3, <2>3
    <2>5. Chained(view, c, d) =
            IF inside # {} THEN view.bars[<<c, Max(inside)>>].close ELSE view.before[c]
      BY <2>1 DEF Chained
    <2> HIDE DEF inside, before
    <2> QED
      BY <2>2, <2>4, <2>5
  <1>5. LastClose(c, d) = IF all = {} THEN NoClose ELSE BarOf(c, Max(all)).close
    BY DEF LastClose
  <1>6. \A e \in Days : e < d => e \in S \/ (from # NoDay /\ e < from)
    BY <1>1, <1>2 DEF Sessions
  <1>7. CASE inside = {}
    <2>1. all = before
      BY <1>1, <1>2, <1>6, <1>7
    <2> HIDE DEF all, before
    <2> QED
      BY <1>4, <1>5, <1>7, <2>1
  <1>8. CASE inside # {}
    <2>1. inside \in SUBSET Days /\ all \in SUBSET Days /\ inside \subseteq all
      BY <1>1
    <2>2. \A x \in all : x \in inside \/ (from # NoDay /\ x < from)
      BY <1>6
    <2>3. \A x \in inside : x \in Nat /\ (from # NoDay => from \in Nat /\ x >= from)
      BY <1>1, <1>2 DEF Sessions
    <2>4. \A x \in all : x \in Nat
      BY <1>1
    <2> HIDE DEF all, inside
    <2>5. Max(inside) \in inside /\ \A x \in inside : x <= Max(inside)
      BY <1>8, <2>1, LatestDay
    <2>6. Max(all) \in all /\ \A x \in all : x <= Max(all)
      BY <1>8, <2>1, LatestDay
    <2>7. Max(inside) = Max(all)
      BY <2>1, <2>2, <2>3, <2>4, <2>5, <2>6
    <2> QED
      BY <1>4, <1>5, <1>8, <2>1, <2>7
  <1> QED
    BY <1>7, <1>8

-----------------------------------------------------------------------------
(* What the lake says of a key.                                             *)

\* The view of every code and day at once, and what it shows of a key.
Everything == View(Codes, Days, QueryBefore(Codes, NoDay))
Fact(c, d) == Emitted(Everything, c, d)
Excuse(c, d) == Absence(Everything, c, d)

Amiss(c, sessions) ==
    \/ \E d \in sessions : StatusOf(c, d) # NoRow /\ Trust(StatusOf(c, d), d) = Raised
    \/ \E d \in sessions : BarOf(c, d) = NoBar /\ Excuse(c, d) = Raised

FactsOf(codes, sessions) ==
    {Fact(k[1], k[2]) : k \in {j \in codes \X sessions : BarOf(j[1], j[2]) # NoBar}}
ExcusesOf(codes, sessions) ==
    {[code |-> k[1], day |-> k[2], why |-> Excuse(k[1], k[2])] :
       k \in {j \in codes \X sessions : BarOf(j[1], j[2]) = NoBar}}

LEMMA DaysAreSessions == Sessions(NoDay, LastDay) = Days
  BY CollectedDays DEF Sessions

LEMMA EverythingRead ==
  ASSUME NEW c \in Codes, NEW d \in Days
  PROVE  /\ Everything.bars[<<c, d>>] = BarOf(c, d)
         /\ Everything.statuses[<<c, d>>] = StatusOf(c, d)
         /\ Chained(Everything, c, d) = LastClose(c, d)
  <1>1. /\ Everything.sessions = Sessions(NoDay, LastDay)
        /\ Everything.before = QueryBefore(Codes, NoDay)
        /\ \A k \in Codes \X Days : Everything.bars[k] = BarOf(k[1], k[2])
        /\ \A k \in Codes \X Days : Everything.statuses[k] = StatusOf(k[1], k[2])
    BY DaysAreSessions DEF Everything, View, BarsRead, StatusesRead
  <1>2. LastDay \in Days
    BY DayAssumption DEF Days
  <1>3. Chained(Everything, c, d) = LastClose(c, d)
    <2>1. \A k \in Codes \X Everything.sessions : Everything.bars[k] = BarOf(k[1], k[2])
      BY <1>1, DaysAreSessions
    <2>2. d \in Sessions(NoDay, LastDay)
      BY DaysAreSessions
    <2> QED
      BY <1>1, <1>2, <2>1, <2>2, ChainedIsLast
  <1> QED
    BY <1>1, <1>3

\* A view of some codes and a window shows of a key what the lake says of it.
LEMMA ViewShows ==
  ASSUME NEW codes \in SUBSET Codes, NEW from \in Days \cup {NoDay}, NEW asOf \in Days,
         NEW view, view.sessions = Sessions(from, asOf),
         view.before = QueryBefore(codes, from),
         \A k \in codes \X view.sessions : view.bars[k] = BarOf(k[1], k[2]),
         NEW c \in codes, NEW d \in Sessions(from, asOf),
         view.statuses[<<c, d>>] = StatusOf(c, d)
  PROVE  /\ view.bars[<<c, d>>] = BarOf(c, d)
         /\ Emitted(view, c, d) = Fact(c, d)
         /\ Absence(view, c, d) = Excuse(c, d)
  <1>1. d \in Days
    BY DEF Sessions
  <1>2. view.bars[<<c, d>>] = Everything.bars[<<c, d>>]
        /\ view.bars[<<c, d>>] = BarOf(c, d)
    BY <1>1, EverythingRead
  <1>3. Trusted(view, c, d) = Trusted(Everything, c, d)
    BY <1>1, EverythingRead DEF Trusted
  <1>4. Chained(view, c, d) = Chained(Everything, c, d)
    BY <1>1, EverythingRead, ChainedIsLast
  <1>5. Emitted(view, c, d) = Fact(c, d)
    BY <1>2, <1>3, <1>4 DEF Emitted, Fact
  <1>6. Absence(view, c, d) = Excuse(c, d)
    BY <1>3 DEF Absence, Excuse
  <1> QED
    BY <1>2, <1>5, <1>6

LEMMA SliceIs ==
  ASSUME NEW codes \in SUBSET Codes, NEW from \in Days \cup {NoDay}, NEW asOf \in Days
  PROVE  Slice(View(codes, Sessions(from, asOf), QueryBefore(codes, from)), codes) =
           IF \E c \in codes : Amiss(c, Sessions(from, asOf)) THEN Raised
           ELSE [rows |-> FactsOf(codes, Sessions(from, asOf)),
                 absent |-> ExcusesOf(codes, Sessions(from, asOf))]
  <1> DEFINE S == Sessions(from, asOf)
             view == View(codes, S, QueryBefore(codes, from))
  <1>1. /\ view.sessions = S /\ view.before = QueryBefore(codes, from)
        /\ \A k \in codes \X S : view.bars[k] = BarOf(k[1], k[2])
        /\ \A k \in codes \X S : view.statuses[k] = StatusOf(k[1], k[2])
    BY DEF View, BarsRead, StatusesRead
  <1> HIDE DEF view
  <1>2. ASSUME NEW c \in codes, NEW d \in S
        PROVE  /\ view.bars[<<c, d>>] = BarOf(c, d)
               /\ view.statuses[<<c, d>>] = StatusOf(c, d)
               /\ Emitted(view, c, d) = Fact(c, d)
               /\ Absence(view, c, d) = Excuse(c, d)
    BY <1>1, ViewShows
  <1>3. Unproven(view, codes) <=> \E c \in codes : Amiss(c, S)
    <2>1. ASSUME NEW c \in codes
          PROVE  Amiss(c, S) <=>
                   \/ \E d \in S : view.statuses[<<c, d>>] # NoRow
                                   /\ Trust(view.statuses[<<c, d>>], d) = Raised
                   \/ \E d \in S : view.bars[<<c, d>>] = NoBar
                                   /\ Absence(view, c, d) = Raised
      BY <1>2 DEF Amiss
    <2>2. Unproven(view, codes) <=>
            \E c \in codes :
                   \/ \E d \in S : view.statuses[<<c, d>>] # NoRow
                                   /\ Trust(view.statuses[<<c, d>>], d) = Raised
                   \/ \E d \in S : view.bars[<<c, d>>] = NoBar
                                   /\ Absence(view, c, d) = Raised
      BY <1>1, Zenon DEF Unproven
    <2> QED
      BY <2>1, <2>2
  <1>4. {j \in codes \X S : view.bars[j] # NoBar} = {j \in codes \X S : BarOf(j[1], j[2]) # NoBar}
        /\ {j \in codes \X S : view.bars[j] = NoBar} = {j \in codes \X S : BarOf(j[1], j[2]) = NoBar}
    BY <1>1
  <1>5. {Emitted(view, k[1], k[2]) : k \in {j \in codes \X S : view.bars[j] # NoBar}}
          = FactsOf(codes, S)
    BY <1>2, <1>4 DEF FactsOf
  <1>6. {[code |-> k[1], day |-> k[2], why |-> Absence(view, k[1], k[2])] :
           k \in {j \in codes \X S : view.bars[j] = NoBar}} = ExcusesOf(codes, S)
    BY <1>2, <1>4 DEF ExcusesOf
  <1>7. Slice(view, codes) =
          IF Unproven(view, codes) THEN Raised
          ELSE [rows |-> {Emitted(view, k[1], k[2]) : k \in
                            {j \in codes \X S : view.bars[j] # NoBar}},
                absent |-> {[code |-> k[1], day |-> k[2], why |-> Absence(view, k[1], k[2])] :
                              k \in {j \in codes \X S : view.bars[j] = NoBar}}]
    BY <1>1, Zenon DEF Slice
  <1> QED
    BY <1>3, <1>5, <1>6, <1>7 DEF view

\* A row's status facts, where its status is one to be trusted.
LEMMA StatusFactsType ==
  ASSUME NEW row \in Status \cup {NoRow}, NEW d, NEW bar \in Bar,
         row # NoRow => Trust(row, d) \in TrustedKinds
  PROVE  /\ StatusFacts(row, d, bar).trade \in BOOLEAN
         /\ StatusFacts(row, d, bar).st \in {"unknown", "normal", "st"}
  <1>1. CASE row = NoRow
    BY <1>1 DEF StatusFacts, Bar
  <1>2. CASE row # NoRow /\ Trust(row, d) = "BAOSTOCK_ST"
    BY <1>2 DEF StatusFacts
  <1>3. CASE row # NoRow /\ Trust(row, d) = "DERIVED_GAP_SUSPENDED"
    BY <1>3 DEF StatusFacts
  <1>4. CASE row # NoRow /\ Trust(row, d) = "EASTMONEY_SAME_DAY"
    <2>1. row.trading \in BOOLEAN /\ row.status \in {"normal", "st", "suspended"}
      BY <1>4 DEF Status
    <2>2. CASE ~row.trading \/ row.status = "suspended"
      BY <1>4, <2>2 DEF StatusFacts
    <2>3. CASE row.trading /\ row.status \in {"normal", "st"}
      BY <1>4, <2>3 DEF StatusFacts
    <2> QED
      BY <2>1, <2>2, <2>3
  <1> QED
    BY <1>1, <1>2, <1>3, <1>4 DEF TrustedKinds

LEMMA LastCloseType ==
  ASSUME LakeOK, NEW c, NEW d
  PROVE  LastClose(c, d) \in Nat \cup {NoClose}
  <1> DEFINE all == {e \in Days : e < d /\ BarOf(c, e) # NoBar /\ BarOf(c, e).close > 0}
  <1>1. LastClose(c, d) = IF all = {} THEN NoClose ELSE BarOf(c, Max(all)).close
    BY DEF LastClose
  <1>2. \A e \in all : BarOf(c, e).close \in Nat
    BY DEF LakeOK, BarOf, Bar
  <1>3. all \in SUBSET Days
    OBVIOUS
  <1> HIDE DEF all
  <1>4. all # {} => Max(all) \in all
    BY <1>3, LatestDay
  <1> QED
    BY <1>1, <1>2, <1>4

\* The rows that a view of the bars and of any statuses gives.
LEMMA EmittedType ==
  ASSUME LakeOK, NEW view, NEW c \in Codes, NEW d \in Days,
         view.bars[<<c, d>>] = BarOf(c, d), BarOf(c, d) # NoBar,
         view.statuses[<<c, d>>] \in Status \cup {NoRow},
         Chained(view, c, d) = LastClose(c, d)
  PROVE  /\ Emitted(view, c, d) \in Rows
         /\ Emitted(view, c, d).code = c /\ Emitted(view, c, d).day = d
         /\ Emitted(view, c, d).close = BarOf(c, d).close
         /\ Emitted(view, c, d).preclose = LastClose(c, d)
         /\ Emitted(view, c, d).status = RowStatus(BarOf(c, d), LastClose(c, d))
  <1> DEFINE row == Trusted(view, c, d)
             facts == StatusFacts(row, d, BarOf(c, d))
  <1>1. BarOf(c, d) \in Bar
    BY DEF LakeOK, BarOf
  <1>2. row \in Status \cup {NoRow} /\ (row # NoRow => Trust(row, d) \in TrustedKinds)
    BY DEF Trusted
  <1>3. facts.trade \in BOOLEAN /\ facts.st \in {"unknown", "normal", "st"}
    BY <1>1, <1>2, StatusFactsType
  <1>4. LastClose(c, d) \in Nat \cup {NoClose}
    BY LastCloseType
  <1>5. Emitted(view, c, d) =
          [code |-> c, day |-> d, close |-> BarOf(c, d).close, preclose |-> LastClose(c, d),
           trade |-> facts.trade, st |-> facts.st,
           status |-> RowStatus(BarOf(c, d), LastClose(c, d))]
    BY DEF Emitted
  <1>6. RowStatus(BarOf(c, d), LastClose(c, d))
          \in {"VALID_ROW", "MISSING_PRECLOSE", "MISSING_REQUIRED_AMOUNT"}
    BY DEF RowStatus
  <1>7. BarOf(c, d).close \in Nat
    BY <1>1 DEF Bar
  <1> HIDE DEF facts, row
  <1> QED
    BY <1>3, <1>4, <1>5, <1>6, <1>7 DEF Rows

-----------------------------------------------------------------------------
(* What a whole call answers.                                               *)

Answer(codes, sessions) ==
    IF \E c \in codes : Amiss(c, sessions) THEN Raised
    ELSE [rows |-> FactsOf(codes, sessions), absent |-> ExcusesOf(codes, sessions)]

LEMMA AnswerType ==
  ASSUME LakeOK, NEW codes \in SUBSET Codes, NEW sessions \in SUBSET Days,
         ~\E c \in codes : Amiss(c, sessions)
  PROVE  Answer(codes, sessions) # Raised
  <1>1. FactsOf(codes, sessions) \subseteq Rows
    <2>1. ASSUME NEW c \in Codes, NEW d \in Days, BarOf(c, d) # NoBar
          PROVE  Fact(c, d) \in Rows
      <3>1. Everything.bars[<<c, d>>] = BarOf(c, d)
            /\ Everything.statuses[<<c, d>>] = StatusOf(c, d)
            /\ Chained(Everything, c, d) = LastClose(c, d)
        BY EverythingRead
      <3>2. StatusOf(c, d) \in Status \cup {NoRow}
        BY DEF LakeOK, StatusOf
      <3> QED
        BY <2>1, <3>1, <3>2, EmittedType DEF Fact
    <2> QED
      BY <2>1 DEF FactsOf
  <1>2. ExcusesOf(codes, sessions) \subseteq [code : Codes, day : Days, why : Reasons]
    <2>1. ASSUME NEW c \in codes, NEW d \in sessions, BarOf(c, d) = NoBar
          PROVE  Excuse(c, d) \in {"SUSPENDED_BY_STATUS", "NOT_LISTED", "DELISTED"}
      <3>1. Excuse(c, d) # Raised
        BY <2>1 DEF Amiss
      <3>2. Absence(Everything, c, d)
              \in {"SUSPENDED_BY_STATUS", "NOT_LISTED", "DELISTED", Raised}
        BY DEF Absence
      <3> QED
        BY <3>1, <3>2 DEF Excuse
    <2> QED
      BY <2>1 DEF ExcusesOf, Reasons
  <1>3. [rows |-> FactsOf(codes, sessions), absent |-> ExcusesOf(codes, sessions)] \in Answers
    BY <1>1, <1>2 DEF Answers
  <1> QED
    BY <1>3, RaisedAssumption DEF Answer

LEMMA RecordFields ==
  ASSUME NEW a, NEW x, NEW y, a = [rows |-> x, absent |-> y]
  PROVE  a.rows = x /\ a.absent = y
  OBVIOUS

LEMMA OneChunk ==
  ASSUME NEW codes \in SUBSET Codes, NEW from \in Days \cup {NoDay}, NEW asOf \in Days
  PROVE  QueryFacts({codes}, from, asOf) = Answer(codes, Sessions(from, asOf))
  <1> DEFINE slice == Slice(View(codes, Sessions(from, asOf), QueryBefore(codes, from)), codes)
  <1>1. slice = Answer(codes, Sessions(from, asOf))
    BY SliceIs DEF Answer
  <1>2. QueryFacts({codes}, from, asOf) = Together({slice})
    BY DEF QueryFacts
  <1> HIDE DEF slice
  <1>3. slice = Raised \/ slice = [rows |-> slice.rows, absent |-> slice.absent]
    BY <1>1 DEF Answer
  <1>4. UNION {s.rows : s \in {slice}} = slice.rows
        /\ UNION {s.absent : s \in {slice}} = slice.absent
    OBVIOUS
  <1> QED
    BY <1>1, <1>2, <1>3, <1>4 DEF Together

LEMMA CodeByCode ==
  ASSUME LakeOK, NEW codes \in SUBSET Codes, codes # {},
         NEW from \in Days \cup {NoDay}, NEW asOf \in Days
  PROVE  QueryFacts({{c} : c \in codes}, from, asOf) = Answer(codes, Sessions(from, asOf))
  <1> DEFINE S == Sessions(from, asOf)
             slice(cs) == Slice(View(cs, S, QueryBefore(cs, from)), cs)
             slices == {slice({c}) : c \in codes}
  <1>1. S \in SUBSET Days
    BY DEF Sessions
  <1>2. ASSUME NEW c \in codes
        PROVE  slice({c}) = IF Amiss(c, S) THEN Raised
                            ELSE [rows |-> FactsOf({c}, S), absent |-> ExcusesOf({c}, S)]
    <2>1. {c} \in SUBSET Codes
      OBVIOUS
    <2>2. (\E e \in {c} : Amiss(e, S)) <=> Amiss(c, S)
      OBVIOUS
    <2> QED
      BY <2>1, <2>2, SliceIs
  <1>3. {slice(cs) : cs \in {{c} : c \in codes}} = slices
    OBVIOUS
  <1>4. QueryFacts({{c} : c \in codes}, from, asOf) = Together(slices)
    BY <1>3 DEF QueryFacts
  <1>5. CASE \E c \in codes : Amiss(c, S)
    <2>1. Raised \in slices
      BY <1>2, <1>5
    <2> HIDE DEF slices
    <2> QED
      BY <1>4, <1>5, <2>1 DEF Together, Answer
  <1>6. CASE ~\E c \in codes : Amiss(c, S)
    <2>1. \A c \in codes :
            slice({c}) = [rows |-> FactsOf({c}, S), absent |-> ExcusesOf({c}, S)]
      BY <1>2, <1>6
    <2>2. ASSUME NEW c \in codes
          PROVE  [rows |-> FactsOf({c}, S), absent |-> ExcusesOf({c}, S)] # Raised
      <3>1. {c} \in SUBSET Codes /\ ~\E e \in {c} : Amiss(e, S)
        BY <1>6
      <3>2. Answer({c}, S) # Raised
        BY <1>1, <3>1, AnswerType
      <3> QED
        BY <3>1, <3>2 DEF Answer
    <2>3. Raised \notin slices
      BY <2>1, <2>2
    <2> DEFINE rows == UNION {FactsOf({c}, S) : c \in codes}
               absent == UNION {ExcusesOf({c}, S) : c \in codes}
    <2>4. rows = FactsOf(codes, S)
      BY DEF FactsOf
    <2>5. absent = ExcusesOf(codes, S)
      BY DEF ExcusesOf
    <2>6. {s.rows : s \in slices} = {FactsOf({c}, S) : c \in codes}
      <3>1. ASSUME NEW c \in codes PROVE slice({c}).rows = FactsOf({c}, S)
        BY <2>1, RecordFields
      <3> HIDE DEF slice
      <3> QED
        BY <3>1
    <2>7. {s.absent : s \in slices} = {ExcusesOf({c}, S) : c \in codes}
      <3>1. ASSUME NEW c \in codes PROVE slice({c}).absent = ExcusesOf({c}, S)
        BY <2>1, RecordFields
      <3> HIDE DEF slice
      <3> QED
        BY <3>1
    <2> HIDE DEF slices, rows, absent
    <2>8. Together(slices) = [rows |-> rows, absent |-> absent]
      BY <2>3, <2>6, <2>7 DEF Together, rows, absent
    <2> QED
      BY <1>4, <1>6, <2>4, <2>5, <2>8 DEF Answer
  <1> QED
    BY <1>5, <1>6

LEMMA Agreement ==
  ASSUME LakeOK
  PROVE  ReadersAgree
  <1>1. SUFFICES ASSUME NEW w \in AllWindows
                 PROVE  /\ HasStatuses(w[2], w[2]) /\ ~OnlyOthers(w[2]) =>
                             QueryScope(w[2]) = PhysicalScope(w[2])
                        /\ Partitioned(w[1], w[2]) =>
                           \A codes \in SUBSET Catalogued(Codes) : codes # {} =>
                             \A chunks \in Chunkings("query", codes) :
                               PhysicalFacts(codes \cup (Codes \ Catalogued(Codes)), w[1], w[2])
                                 = QueryFacts(chunks, w[1], w[2])
    BY DEF ReadersAgree
  <1>2. w[1] \in Days \cup {NoDay} /\ w[2] \in Days
    BY DEF AllWindows
  <1>3. Catalogued(Codes) = Universe \cap Instruments
    BY CodeAssumption DEF Catalogued
  <1>4. ASSUME HasStatuses(w[2], w[2]), ~OnlyOthers(w[2])
        PROVE  QueryScope(w[2]) = PhysicalScope(w[2])
    <2>1. HasBars(w[2], w[2]) <=> \E c \in Instruments : BarOf(c, w[2]) # NoBar
      <3>1. ASSUME NEW k \in Keys, k[2] = w[2], bars[k] # NoBar
            PROVE  k[1] \in Instruments /\ BarOf(k[1], w[2]) # NoBar
        <4>1. k = <<k[1], w[2]>>
          BY <3>1 DEF Keys
        <4> QED
          BY <3>1, <4>1 DEF BarOf, Keys
      <3>2. ASSUME NEW c \in Instruments, BarOf(c, w[2]) # NoBar
            PROVE  <<c, w[2]>> \in Keys /\ bars[<<c, w[2]>>] # NoBar
        BY <3>2 DEF BarOf
      <3>3. \A d : d \in Sessions(w[2], w[2]) <=> d = w[2]
        BY <1>2, DayAssumption DEF Sessions, Days
      <3> QED
        BY <3>1, <3>2, <3>3 DEF HasBars
    <2>2. \A c \in Universe : BarOf(c, w[2]) # NoBar => c \in Instruments
      BY DEF BarOf, Keys
    <2>3. HasBars(w[2], w[2]) <=> ~\A c \in Universe \cap Instruments : BarOf(c, w[2]) = NoBar
      BY <1>4, <2>1, <2>2 DEF OnlyOthers
    <2> QED
      BY <1>3, <1>4, <2>3 DEF QueryScope, PhysicalScope, Partitioned
  <1>5. ASSUME Partitioned(w[1], w[2]),
               NEW codes \in SUBSET Catalogued(Codes), codes # {},
               NEW chunks \in Chunkings("query", codes)
        PROVE  PhysicalFacts(codes \cup (Codes \ Catalogued(Codes)), w[1], w[2])
                 = QueryFacts(chunks, w[1], w[2])
    <2>1. codes \in SUBSET Codes /\ codes \in SUBSET Instruments
      BY <1>3, CodeAssumption
    <2>2. Catalogued(codes \cup (Codes \ Catalogued(Codes))) = codes
      BY <1>3 DEF Catalogued
    <2>3. PhysicalBefore(codes, w[1]) = QueryBefore(codes, w[1])
      BY <1>2, <2>1, BeforeAgrees
    <2>4. PhysicalFacts(codes \cup (Codes \ Catalogued(Codes)), w[1], w[2])
            = Answer(codes, Sessions(w[1], w[2]))
      BY <1>2, <1>5, <2>1, <2>2, <2>3, SliceIs DEF PhysicalFacts, Answer
    <2>5. chunks = {codes} \/ chunks = {{c} : c \in codes}
      BY <1>5 DEF Chunkings
    <2> QED
      BY <1>2, <1>5, <2>1, <2>4, <2>5, OneChunk, CodeByCode
  <1> QED
    BY <1>4, <1>5

LEMMA Independence == WindowIndependent
  <1>1. SUFFICES ASSUME NEW c \in Instruments, NEW v \in AllWindows, NEW w \in AllWindows,
                        QueryFacts({{c}}, v[1], v[2]) # Raised,
                        QueryFacts({{c}}, w[1], w[2]) # Raised,
                        NEW r \in QueryFacts({{c}}, v[1], v[2]).rows,
                        r.day \in Sessions(w[1], w[2])
                 PROVE  r \in QueryFacts({{c}}, w[1], w[2]).rows
    <2> DEFINE answers(c) == {[from |-> u[1], asOf |-> u[2],
                               facts |-> QueryFacts({{c}}, u[1], u[2])] : u \in AllWindows}
    <2>1. SUFFICES ASSUME NEW c \in Instruments, NEW a \in answers(c), NEW b \in answers(c),
                          a.facts # Raised, b.facts # Raised,
                          NEW r \in a.facts.rows, r.day \in Sessions(b.from, b.asOf)
                   PROVE  r \in b.facts.rows
      BY DEF WindowIndependent
    <2>2. PICK v \in AllWindows :
            a = [from |-> v[1], asOf |-> v[2], facts |-> QueryFacts({{c}}, v[1], v[2])]
      OBVIOUS
    <2>3. PICK w \in AllWindows :
            b = [from |-> w[1], asOf |-> w[2], facts |-> QueryFacts({{c}}, w[1], w[2])]
      OBVIOUS
    <2>4. a.facts = QueryFacts({{c}}, v[1], v[2]) /\ b.facts = QueryFacts({{c}}, w[1], w[2])
          /\ b.from = w[1] /\ b.asOf = w[2]
      BY <2>2, <2>3
    <2>5. /\ QueryFacts({{c}}, v[1], v[2]) # Raised
          /\ QueryFacts({{c}}, w[1], w[2]) # Raised
          /\ r \in QueryFacts({{c}}, v[1], v[2]).rows
          /\ r.day \in Sessions(w[1], w[2])
      BY <2>1, <2>4
    <2>6. r \in QueryFacts({{c}}, w[1], w[2]).rows
      BY <1>1, <2>5
    <2> QED
      BY <2>4, <2>6
  <1>2. /\ {c} \in SUBSET Codes
        /\ v[1] \in Days \cup {NoDay} /\ v[2] \in Days
        /\ w[1] \in Days \cup {NoDay} /\ w[2] \in Days
    BY CodeAssumption DEF AllWindows
  <1>3. ASSUME NEW u \in AllWindows, QueryFacts({{c}}, u[1], u[2]) # Raised
        PROVE  QueryFacts({{c}}, u[1], u[2]).rows = FactsOf({c}, Sessions(u[1], u[2]))
    <2>1. u[1] \in Days \cup {NoDay} /\ u[2] \in Days
      BY DEF AllWindows
    <2>2. QueryFacts({{c}}, u[1], u[2]) = Answer({c}, Sessions(u[1], u[2]))
      BY <1>2, <2>1, OneChunk
    <2>3. Answer({c}, Sessions(u[1], u[2])) =
            [rows |-> FactsOf({c}, Sessions(u[1], u[2])),
             absent |-> ExcusesOf({c}, Sessions(u[1], u[2]))]
      BY <1>3, <2>2 DEF Answer
    <2> QED
      BY <2>2, <2>3, RecordFields
  <1>5. PICK d \in Sessions(v[1], v[2]) : r = Fact(c, d) /\ BarOf(c, d) # NoBar
    <2>1. r \in FactsOf({c}, Sessions(v[1], v[2]))
      BY <1>1, <1>3
    <2> QED
      BY <2>1 DEF FactsOf
  <1>6. r.day = d
    BY <1>5 DEF Fact, Emitted
  <1>7. r \in FactsOf({c}, Sessions(w[1], w[2]))
    <2>1. <<c, d>> \in {j \in {c} \X Sessions(w[1], w[2]) : BarOf(j[1], j[2]) # NoBar}
      BY <1>1, <1>5, <1>6
    <2>2. r = Fact(<<c, d>>[1], <<c, d>>[2])
      BY <1>5
    <2> QED
      BY <2>1, <2>2 DEF FactsOf
  <1> QED
    BY <1>1, <1>3, <1>7

-----------------------------------------------------------------------------
(* Late words.                                                              *)

\* A word that comes late, or nothing, is no more to be trusted than nothing.
Untrusted(row, d) == row # NoRow => Trust(row, d) \notin TrustedKinds \cup {Raised}

\* Only a status that comes late is a late word.
LEMMA LateWordIs ==
  ASSUME LakeOK, [Next]_vars, NEW k \in Keys, LateWord(k)
  PROVE  /\ UNCHANGED <<listing, bars>>
         /\ \A j \in Keys : j # k => statuses'[j] = statuses[j]
         /\ Untrusted(statuses[k], k[2]) /\ Untrusted(statuses'[k], k[2])
  <1>1. k[2] \in Nat /\ k = <<k[1], k[2]>>
    BY CollectedDays DEF Keys
  <1>2. ~Collecting
    <2>1. SUFFICES ASSUME Collecting PROVE FALSE
      OBVIOUS
    <2>2. PICK d \in Days \ collected, stepped \in BOOLEAN :
            \E found \in FoundOn(d) : Session(d, found, stepped)
      BY <2>1 DEF Collecting, Collect
    <2>3. PICK found \in FoundOn(d) : Session(d, found, stepped)
      BY <2>2
    <2>4. statuses'[k] # statuses[k] /\ statuses'[k].fetched > k[2]
      BY DEF LateWord
    <2>5. statuses'[k] = SameDay(found[k[1]], d) /\ k[2] = d
      BY <2>3, <2>4 DEF Session
    <2> QED
      BY <1>1, <2>4, <2>5 DEF SameDay
  <1>3. ~UNCHANGED lake
    BY DEF LateWord, lake
  <1>4. PICK c \in Instruments, d \in collected, row \in Status : PutStatus(c, d, row)
    BY <1>2, <1>3, PutSome DEF Next, vars, Begin, Read, Emit, Publish, Backfilling, Refreshing
  <1>5. /\ UNCHANGED <<listing, bars>>
        /\ statuses' = [statuses EXCEPT ![<<c, d>>] = row]
    BY <1>4 DEF PutStatus
  <1>6. \A j \in Keys : j # <<c, d>> => statuses'[j] = statuses[j]
    BY <1>5 DEF LakeOK
  <1>7. k = <<c, d>>
    BY <1>6 DEF LateWord
  <1>8. ASSUME NEW r, r.source \in {"eastmoney", "other"}, r.fetched > k[2]
        PROVE  Untrusted(r, k[2])
    <2>1. r.fetched # k[2]
      BY <1>1, <1>8
    <2>2. Trust(r, k[2]) \in {"NON_PIT_EASTMONEY", "UNKNOWN_STATUS"}
      BY <1>8, <2>1 DEF Trust
    <2>3. "NON_PIT_EASTMONEY" # Raised /\ "UNKNOWN_STATUS" # Raised
      BY RaisedAssumption DEF Kinds
    <2> QED
      BY <2>2, <2>3 DEF Untrusted, TrustedKinds
  <1>9. Untrusted(statuses[k], k[2]) /\ Untrusted(statuses'[k], k[2])
    BY <1>8 DEF LateWord, Untrusted
  <1> QED
    BY <1>5, <1>6, <1>7, <1>9

LEMMA OneChunkAlways == \A c \in Codes : \A from \in Days \cup {NoDay}, asOf \in Days :
                          QueryFacts({{c}}, from, asOf) = Answer({c}, Sessions(from, asOf))
  BY OneChunk

LEMMA HindsightStep ==
  ASSUME LakeOK, [Next]_vars, NEW k \in Keys, LateWord(k), NEW w \in AllWindows
  PROVE  QueryFacts({{k[1]}}, w[1], w[2])' = QueryFacts({{k[1]}}, w[1], w[2])
  <1> DEFINE S == Sessions(w[1], w[2])
             x == k[1]
             new == Everything'
  <1>1. /\ UNCHANGED <<listing, bars>>
        /\ \A j \in Keys : j # k => statuses'[j] = statuses[j]
        /\ Untrusted(statuses[k], k[2]) /\ Untrusted(statuses'[k], k[2])
    BY LateWordIs
  <1>2. w[1] \in Days \cup {NoDay} /\ w[2] \in Days /\ x \in Codes /\ S \subseteq Days
        /\ k = <<k[1], k[2]>>
    BY CodeAssumption DEF AllWindows, Keys, Sessions
  <1>3. \A c, d : BarOf(c, d)' = BarOf(c, d)
    BY <1>1 DEF BarOf
  <1>4. ASSUME NEW c, NEW d
        PROVE  \/ StatusOf(c, d)' = StatusOf(c, d)
               \/ Untrusted(StatusOf(c, d), d) /\ Untrusted(StatusOf(c, d)', d)
    BY <1>1, <1>2 DEF StatusOf
  <1>5. /\ new.bars = Everything.bars /\ new.before = Everything.before
        /\ new.sessions = Everything.sessions
    BY <1>1 DEF Everything, View, BarsRead, QueryBefore, BarOf
  <1>6. ASSUME NEW c \in Codes, NEW d \in Days
        PROVE  /\ Everything.statuses[<<c, d>>] = StatusOf(c, d)
               /\ new.statuses[<<c, d>>] = StatusOf(c, d)'
    BY DEF Everything, View, StatusesRead
  <1>7. ASSUME NEW c \in Codes, NEW d \in Days
        PROVE  Trusted(new, c, d) = Trusted(Everything, c, d)
    BY <1>4, <1>6 DEF Trusted, Untrusted
  <1>8. ASSUME NEW c, NEW d PROVE Chained(new, c, d) = Chained(Everything, c, d)
    BY <1>5 DEF Chained
  <1>9. ASSUME NEW c \in Codes, NEW d \in Days
        PROVE  Fact(c, d)' = Fact(c, d) /\ Excuse(c, d)' = Excuse(c, d)
    <2>1. Fact(c, d)' = Emitted(new, c, d)
      BY DEF Fact
    <2>2. Emitted(new, c, d) = Emitted(Everything, c, d)
      BY <1>5, <1>7, <1>8 DEF Emitted
    <2>3. Excuse(c, d)' = Excuse(c, d)
      BY <1>1, <1>7 DEF Excuse, Absence
    <2> QED
      BY <2>1, <2>2, <2>3 DEF Fact
  <1>10. Amiss(x, S)' <=> Amiss(x, S)
    <2>1. \A d \in S : (StatusOf(x, d)' # NoRow /\ Trust(StatusOf(x, d)', d) = Raised)
                         <=> (StatusOf(x, d) # NoRow /\ Trust(StatusOf(x, d), d) = Raised)
      BY <1>4 DEF Untrusted
    <2> QED
      BY <1>2, <1>3, <1>9, <2>1 DEF Amiss
  <1>11. FactsOf({x}, S)' = FactsOf({x}, S) /\ ExcusesOf({x}, S)' = ExcusesOf({x}, S)
    <2>1. {j \in {x} \X S : BarOf(j[1], j[2])' # NoBar} = {j \in {x} \X S : BarOf(j[1], j[2]) # NoBar}
          /\ {j \in {x} \X S : BarOf(j[1], j[2])' = NoBar} = {j \in {x} \X S : BarOf(j[1], j[2]) = NoBar}
      BY <1>3
    <2>2. \A j \in {x} \X S : Fact(j[1], j[2])' = Fact(j[1], j[2])
                              /\ Excuse(j[1], j[2])' = Excuse(j[1], j[2])
      BY <1>2, <1>9
    <2> QED
      BY <2>1, <2>2 DEF FactsOf, ExcusesOf
  <1>12. Answer({x}, S)' = Answer({x}, S)
    BY <1>10, <1>11 DEF Answer
  <1>13. QueryFacts({{x}}, w[1], w[2]) = Answer({x}, S)
    BY <1>2, OneChunkAlways
  <1>14. (\A c \in Codes : \A from \in Days \cup {NoDay}, asOf \in Days :
            QueryFacts({{c}}, from, asOf) = Answer({c}, Sessions(from, asOf)))'
    BY OneChunkAlways, PTL
  <1>15. QueryFacts({{x}}, w[1], w[2])' = Answer({x}, S)'
    BY <1>2, <1>14
  <1> QED
    BY <1>12, <1>13, <1>15

-----------------------------------------------------------------------------
(* The build.                                                               *)

KeyFacts(rows) ==
    {[code |-> r.code, day |-> r.day, close |-> r.close, preclose |-> r.preclose] : r \in rows}

\* The bars that have an amount and a predecessor, with the close before them.
WholeOf(codes, sessions) ==
    {[code |-> k[1], day |-> k[2], close |-> BarOf(k[1], k[2]).close,
      preclose |-> LastClose(k[1], k[2])] : k \in
       {j \in codes \X sessions : /\ BarOf(j[1], j[2]) # NoBar /\ BarOf(j[1], j[2]).amount
                                  /\ LastClose(j[1], j[2]) # NoClose}}

Wanted(call) == IF call.reader = "query" THEN call.asked ELSE Catalogued(call.asked)
Window(call) == Sessions(call.from, call.asOf)

\* The chunk of a call that is read now.
ChunkOf(b) == CHOOSE codes \in b.chunks : TRUE

\* What a call has read of its chunk, in the order of its reader.
BeforeRead(b) == b.step > (IF b.reader = "query" THEN 1 ELSE 3)
StatusRead(b) == b.step > (IF b.reader = "query" THEN 3 ELSE 1)

\* The fields of a call and of its view.
Shaped(b) ==
    /\ b = [reader |-> b.reader, from |-> b.from, asOf |-> b.asOf, asked |-> b.asked,
            chunks |-> b.chunks, step |-> b.step, view |-> b.view, rows |-> b.rows]
    /\ b.view = [sessions |-> b.view.sessions, before |-> b.view.before,
                 bars |-> b.view.bars, statuses |-> b.view.statuses]
    /\ b.reader \in {"query", "physical"} /\ b.step \in 1 .. 4

\* What was read of the chunk is what the lake says now.
ReadSoFar(b) ==
    /\ b.view.sessions = Window(b)
    /\ BeforeRead(b) /\ Window(b) # {} =>
         b.view.before = QueryBefore(ChunkOf(b), b.from)
    /\ b.step > 2 => b.view.bars = BarsRead(ChunkOf(b), Window(b))
    /\ StatusRead(b) =>
         b.view.statuses \in [ChunkOf(b) \X Window(b) -> Status \cup {NoRow}]

\* The chunks that are left, and the rows of the others.
Chunked(b) ==
    /\ b.step > 1 => b.chunks # {}
    /\ b.chunks \subseteq SUBSET Wanted(b)
    /\ \A x, y \in b.chunks : x # y => x \cap y = {}
    /\ b.rows \subseteq Facts
    /\ KeyFacts(b.rows) = WholeOf(Wanted(b) \ (UNION b.chunks), Window(b))

Asked(b) ==
    b.from \in Days \cup {NoDay} /\ b.asOf \in collected /\ b.asked \in SUBSET Codes

CallOK(b) == Shaped(b) /\ Asked(b) /\ ReadSoFar(b) /\ Chunked(b)

CandidateOK(s) ==
    /\ s.from \in Days \cup {NoDay} /\ s.asOf \in collected
    /\ s.reader \in {"query", "physical"} /\ s.asked \in SUBSET Codes
    /\ s.rows \subseteq Facts
    /\ KeyFacts(s.rows) = WholeOf(Wanted(s), Window(s))

BuildOK == \A b \in {build} \ {NoBuild} : CallOK(b)
CandidatesOK == \A s \in candidates : CandidateOK(s)

IInv == LakeOK /\ BuildOK /\ CandidatesOK

\* The rows that a chunk adds, whatever statuses were read of it.
LEMMA SliceWhole ==
  ASSUME LakeOK, NEW codes \in SUBSET Codes, NEW from \in Days \cup {NoDay}, NEW asOf \in Days,
         NEW view, view.sessions = Sessions(from, asOf),
         Sessions(from, asOf) # {} => view.before = QueryBefore(codes, from),
         view.bars = BarsRead(codes, Sessions(from, asOf)),
         view.statuses \in [codes \X Sessions(from, asOf) -> Status \cup {NoRow}],
         Slice(view, codes) # Raised
  PROVE  /\ Written(Slice(view, codes).rows) \subseteq Facts
         /\ KeyFacts(Written(Slice(view, codes).rows)) = WholeOf(codes, Sessions(from, asOf))
  <1> DEFINE S == Sessions(from, asOf)
             K == {j \in codes \X S : BarOf(j[1], j[2]) # NoBar}
             rows == Slice(view, codes).rows
             canon(r) == [code |-> r.code, day |-> r.day, close |-> r.close,
                          preclose |-> r.preclose, trade |-> r.trade, st |-> r.st]
  <1>1. \A k \in codes \X S : view.bars[k] = BarOf(k[1], k[2])
    BY DEF BarsRead
  <1>2. rows = {Emitted(view, k[1], k[2]) : k \in K}
    <2>1. {j \in codes \X view.sessions : view.bars[j] # NoBar} = K
      BY <1>1
    <2>2. Slice(view, codes) =
            [rows |-> {Emitted(view, k[1], k[2]) : k \in
                         {j \in codes \X view.sessions : view.bars[j] # NoBar}},
             absent |-> {[code |-> k[1], day |-> k[2], why |-> Absence(view, k[1], k[2])] :
                           k \in {j \in codes \X view.sessions : view.bars[j] = NoBar}}]
      BY Zenon DEF Slice
    <2> HIDE DEF K
    <2> QED
      BY <2>1, <2>2, RecordFields
  <1>3. ASSUME NEW k \in K
        PROVE  LET r == Emitted(view, k[1], k[2])
               IN /\ k = <<k[1], k[2]>> /\ r \in Rows
                  /\ r.code = k[1] /\ r.day = k[2] /\ r.close = BarOf(k[1], k[2]).close
                  /\ r.preclose = LastClose(k[1], k[2])
                  /\ r.status = "VALID_ROW" <=>
                       LastClose(k[1], k[2]) # NoClose /\ BarOf(k[1], k[2]).amount
    <2> DEFINE c == k[1]
               d == k[2]
               r == Emitted(view, c, d)
    <2>1. k = <<c, d>> /\ c \in codes /\ d \in S /\ k \in codes \X S
      OBVIOUS
    <2>2. c \in Codes /\ d \in Days /\ BarOf(c, d) # NoBar
      BY <2>1 DEF Sessions
    <2>3. Chained(view, c, d) = LastClose(c, d)
      BY <1>1, <2>1, ChainedIsLast
    <2>4. view.bars[<<c, d>>] = BarOf(c, d)
          /\ view.statuses[<<c, d>>] \in Status \cup {NoRow}
      BY <1>1, <2>1
    <2>5. /\ r \in Rows /\ r.code = c /\ r.day = d /\ r.close = BarOf(c, d).close
          /\ r.preclose = LastClose(c, d)
          /\ r.status = RowStatus(BarOf(c, d), LastClose(c, d))
      BY <2>2, <2>3, <2>4, EmittedType
    <2>6. r.status = "VALID_ROW" <=> LastClose(c, d) # NoClose /\ BarOf(c, d).amount
      BY <2>5 DEF RowStatus
    <2> HIDE DEF r, c, d
    <2> QED
      BY <2>1, <2>5, <2>6 DEF r, c, d
  <1> HIDE DEF rows
  <1>4. Written(rows) = {canon(r) : r \in {q \in rows : q.status = "VALID_ROW" /\ q.preclose # NoClose}}
    BY DEF Written, Canonical
  <1>5. Written(rows) \subseteq Facts
    <2>1. ASSUME NEW r \in rows, r.preclose # NoClose PROVE canon(r) \in Facts
      <3>1. r \in Rows
        BY <1>2, <1>3
      <3> QED
        BY <2>1, <3>1 DEF Rows, Facts
    <2> QED
      BY <1>4, <2>1
  <1>6. ASSUME NEW x \in KeyFacts(Written(rows)) PROVE x \in WholeOf(codes, S)
    <2>1. PICK w \in Written(rows) :
            x = [code |-> w.code, day |-> w.day, close |-> w.close, preclose |-> w.preclose]
      BY DEF KeyFacts
    <2>2. PICK r \in rows : r.status = "VALID_ROW" /\ w = canon(r)
      BY <1>4
    <2>3. x = [code |-> r.code, day |-> r.day, close |-> r.close, preclose |-> r.preclose]
      BY <2>1, <2>2
    <2>4. PICK k \in K : r = Emitted(view, k[1], k[2])
      BY <1>2
    <2>5. x = [code |-> k[1], day |-> k[2], close |-> BarOf(k[1], k[2]).close,
               preclose |-> LastClose(k[1], k[2])]
          /\ LastClose(k[1], k[2]) # NoClose /\ BarOf(k[1], k[2]).amount
      BY <1>3, <2>2, <2>3, <2>4
    <2> QED
      BY <2>5 DEF WholeOf
  <1>7. ASSUME NEW x \in WholeOf(codes, S) PROVE x \in KeyFacts(Written(rows))
    <2>1. PICK k \in K : /\ x = [code |-> k[1], day |-> k[2], close |-> BarOf(k[1], k[2]).close,
                                 preclose |-> LastClose(k[1], k[2])]
                         /\ LastClose(k[1], k[2]) # NoClose /\ BarOf(k[1], k[2]).amount
      BY DEF WholeOf
    <2> DEFINE r == Emitted(view, k[1], k[2])
    <2>2. /\ r \in rows /\ r.status = "VALID_ROW" /\ r.preclose # NoClose
          /\ r.code = k[1] /\ r.day = k[2] /\ r.close = BarOf(k[1], k[2]).close
          /\ r.preclose = LastClose(k[1], k[2])
      BY <1>2, <1>3, <2>1
    <2> HIDE DEF r
    <2>3. canon(r) \in Written(rows)
      BY <1>4, <2>2
    <2>4. x = [code |-> canon(r).code, day |-> canon(r).day, close |-> canon(r).close,
               preclose |-> canon(r).preclose]
      BY <2>1, <2>2
    <2> QED
      BY <2>3, <2>4 DEF KeyFacts
  <1> QED
    BY <1>5, <1>6, <1>7 DEF rows

\* Of sessions that have come, the lake says the same for good.
LEMMA WholeStays ==
  ASSUME LakeOK, [Next]_vars, NEW from \in Days \cup {NoDay}, NEW asOf \in collected, NEW codes
  PROVE  /\ asOf \in collected' /\ Sessions(from, asOf) \subseteq collected
         /\ WholeOf(codes, Sessions(from, asOf))' = WholeOf(codes, Sessions(from, asOf))
         /\ BarsRead(codes, Sessions(from, asOf))' = BarsRead(codes, Sessions(from, asOf))
         /\ Sessions(from, asOf) # {} => QueryBefore(codes, from)' = QueryBefore(codes, from)
  <1> DEFINE S == Sessions(from, asOf)
  <1>1. collected \subseteq collected' /\ \A c, d : d \in collected => BarOf(c, d)' = BarOf(c, d)
    BY BarsStay
  <1>2. S \subseteq collected
    <2>1. asOf \in Nat /\ collected \subseteq Days /\ \A e \in Days : e \in Nat
      BY CollectedDays DEF LakeOK
    <2>2. \A e \in Days : e < asOf => e \in collected
      BY DEF LakeOK
    <2>3. ASSUME NEW e \in S PROVE e \in collected
      <3>1. e \in Days /\ e <= asOf
        BY DEF Sessions
      <3>2. e < asOf \/ e = asOf
        BY <2>1, <3>1
      <3> QED
        BY <2>2, <3>1, <3>2
    <2> QED
      BY <2>3
  <1>3. ASSUME NEW c, NEW d \in collected PROVE LastClose(c, d)' = LastClose(c, d)
    <2>1. \A e \in Days : e < d => e \in collected
      BY DEF LakeOK
    <2> DEFINE all == {e \in Days : e < d /\ BarOf(c, e) # NoBar /\ BarOf(c, e).close > 0}
    <2>2. PICK T \in SUBSET Days : T = all
      OBVIOUS
    <2>3. all' = T
      BY <1>1, <2>1, <2>2
    <2>4. LastClose(c, d) = (IF T = {} THEN NoClose ELSE BarOf(c, Max(T)).close)
      BY <2>2 DEF LastClose
    <2>5. LastClose(c, d)' = (IF T = {} THEN NoClose ELSE BarOf(c, Max(T)).close)'
      BY <2>3 DEF LastClose
    <2>6. T \subseteq collected
      BY <2>1, <2>2
    <2> HIDE DEF all
    <2>7. T # {} => Max(T) \in collected
      BY <2>6, LatestDay
    <2> QED
      BY <1>1, <2>4, <2>5, <2>7
  <1>4. WholeOf(codes, S)' = WholeOf(codes, S)
    <2> DEFINE C(c, d) == [code |-> c, day |-> d, close |-> BarOf(c, d).close,
                           preclose |-> LastClose(c, d)]
               K == {j \in codes \X S : /\ BarOf(j[1], j[2]) # NoBar
                                        /\ BarOf(j[1], j[2]).amount
                                        /\ LastClose(j[1], j[2]) # NoClose}
    <2>1. \A j \in codes \X S : BarOf(j[1], j[2])' = BarOf(j[1], j[2])
                                /\ LastClose(j[1], j[2])' = LastClose(j[1], j[2])
      BY <1>1, <1>2, <1>3
    <2>2. K' = K
      BY <2>1
    <2>3. \A k \in K : C(k[1], k[2])' = C(k[1], k[2])
      BY <2>1
    <2>4. WholeOf(codes, S) = {C(k[1], k[2]) : k \in K}
      BY DEF WholeOf
    <2>5. WholeOf(codes, S)' = {C(k[1], k[2])' : k \in K'}
      BY DEF WholeOf
    <2> HIDE DEF K, C
    <2> QED
      BY <2>2, <2>3, <2>4, <2>5
  <1>5. BarsRead(codes, S)' = BarsRead(codes, S)
    <2>1. \A j \in codes \X S : BarOf(j[1], j[2])' = BarOf(j[1], j[2])
      BY <1>1, <1>2
    <2> QED
      BY <2>1 DEF BarsRead
  <1>6. ASSUME S # {} PROVE QueryBefore(codes, from)' = QueryBefore(codes, from)
    <2>1. \A e \in Days : from # NoDay /\ e < from => e \in collected
      <3>1. PICK d \in S : TRUE
        BY <1>6
      <3>2. from # NoDay => from \in Nat /\ from <= d /\ d \in Nat /\ d \in collected
        BY <1>2, CollectedDays DEF Sessions
      <3>3. \A e \in Days : e < d => e \in collected
        BY <1>2 DEF LakeOK
      <3> QED
        BY <3>2, <3>3, CollectedDays
    <2> DEFINE V(c) == {d \in Days : /\ from # NoDay /\ d < from /\ BarOf(c, d) # NoBar
                                     /\ BarOf(c, d).close > 0}
               B(c) == IF V(c) # {} THEN BarOf(c, Max(V(c))).close ELSE NoClose
    <2>2. ASSUME NEW c PROVE B(c)' = B(c)
      <3>1. PICK T \in SUBSET Days : T = V(c)
        OBVIOUS
      <3>2. V(c)' = T
        BY <1>1, <2>1, <3>1
      <3>3. T \subseteq collected
        BY <2>1, <3>1
      <3>4. B(c) = IF T # {} THEN BarOf(c, Max(T)).close ELSE NoClose
        BY <3>1
      <3>5. B(c)' = (IF T # {} THEN BarOf(c, Max(T)).close ELSE NoClose)'
        BY <3>2
      <3>6. T # {} => Max(T) \in collected
        BY <3>3, LatestDay
      <3> HIDE DEF B, V
      <3> QED
        BY <1>1, <3>4, <3>5, <3>6
    <2>3. QueryBefore(codes, from) = [c \in codes |-> B(c)]
          /\ QueryBefore(codes, from)' = [c \in codes |-> B(c)']
      BY DEF QueryBefore
    <2> HIDE DEF B
    <2> QED
      BY <2>2, <2>3
  <1> QED
    BY <1>1, <1>2, <1>4, <1>5, <1>6

LEMMA CandidateStays ==
  ASSUME LakeOK, [Next]_vars, NEW s, CandidateOK(s)
  PROVE  CandidateOK(s)'
  <1>1. /\ s.asOf \in collected'
        /\ WholeOf(Wanted(s), Window(s))' = WholeOf(Wanted(s), Window(s))
    BY WholeStays DEF CandidateOK, Window, Wanted, Catalogued
  <1> QED
    BY <1>1 DEF CandidateOK, KeyFacts, Wanted, Window, Catalogued, Facts

LEMMA CallStays ==
  ASSUME LakeOK, [Next]_vars, NEW b, CallOK(b)
  PROVE  CallOK(b)'
  <1>1. /\ b.asOf \in collected'
        /\ WholeOf(Wanted(b) \ (UNION b.chunks), Window(b))'
             = WholeOf(Wanted(b) \ (UNION b.chunks), Window(b))
    BY WholeStays DEF CallOK, Asked, Window, Wanted, Catalogued
  <1>2. /\ BarsRead(ChunkOf(b), Window(b))' = BarsRead(ChunkOf(b), Window(b))
        /\ Window(b) # {} =>
             QueryBefore(ChunkOf(b), b.from)' = QueryBefore(ChunkOf(b), b.from)
    BY WholeStays DEF CallOK, Asked, Window, ChunkOf
  <1>3. Shaped(b)'
    BY DEF CallOK, Shaped
  <1>4. Asked(b)'
    BY <1>1 DEF CallOK, Asked
  <1>5. ReadSoFar(b)'
    BY <1>2 DEF CallOK, ReadSoFar, BeforeRead, StatusRead, ChunkOf, Window, Status, Days
  <1>6. Chunked(b)'
    BY <1>1 DEF CallOK, Chunked, KeyFacts, Wanted, Window, Catalogued, Facts
  <1> QED
    BY <1>3, <1>4, <1>5, <1>6 DEF CallOK

\* A partition of some codes, of which nothing is left out.
LEMMA ChunksPart ==
  ASSUME NEW reader, NEW codes, NEW chunks \in Chunkings(reader, codes)
  PROVE  /\ chunks \subseteq SUBSET codes
         /\ \A x, y \in chunks : x # y => x \cap y = {}
         /\ codes \ (UNION chunks) = {}
  <1>1. CASE codes = {}
    BY <1>1 DEF Chunkings
  <1>2. CASE chunks = {codes}
    BY <1>2
  <1>3. CASE chunks = {{c} : c \in codes}
    BY <1>3
  <1> QED
    BY <1>1, <1>2, <1>3 DEF Chunkings

LEMMA NothingWhole ==
  ASSUME NEW sessions
  PROVE  WholeOf({}, sessions) = {} /\ KeyFacts({}) = {}
  <1>1. KeyFacts({}) = {}
    BY DEF KeyFacts
  <1>2. ASSUME NEW x \in WholeOf({}, sessions) PROVE FALSE
    BY DEF WholeOf
  <1> QED
    BY <1>1, <1>2

LEMMA WholeOfBoth ==
  ASSUME NEW a, NEW b, NEW sessions
  PROVE  WholeOf(a \cup b, sessions) = WholeOf(a, sessions) \cup WholeOf(b, sessions)
  <1> DEFINE F(k) == [code |-> k[1], day |-> k[2], close |-> BarOf(k[1], k[2]).close,
                      preclose |-> LastClose(k[1], k[2])]
             P(k) == /\ BarOf(k[1], k[2]) # NoBar /\ BarOf(k[1], k[2]).amount
                     /\ LastClose(k[1], k[2]) # NoClose
  <1>1. \A codes : WholeOf(codes, sessions) = {F(k) : k \in {j \in codes \X sessions : P(j)}}
    BY DEF WholeOf
  <1> HIDE DEF F, P
  <1> QED
    BY <1>1

LEMMA KeyFactsBoth ==
  ASSUME NEW a, NEW b
  PROVE  KeyFacts(a \cup b) = KeyFacts(a) \cup KeyFacts(b)
  BY DEF KeyFacts

\* A call starts with nothing read and every code of it in a chunk.
LEMMA BeginCall ==
  ASSUME LakeOK, Begin, NEW b, b = build'
  PROVE  CallOK(b)
  <1>1. PICK reader \in {"query", "physical"}, request \in Requests, window \in Windows :
          LET from == window[1]
              asOf == window[2]
              asked == IF request # NoCodes THEN request
                       ELSE IF reader = "query" THEN QueryScope(asOf) ELSE PhysicalScope(asOf)
          IN /\ build = NoBuild /\ Cardinality(candidates) < MaxBuilds
             /\ asOf \in collected /\ asked # Raised
             /\ reader = "physical" => Partitioned(from, asOf)
             /\ \E chunks \in
                  Chunkings(reader, IF reader = "query" THEN asked ELSE Catalogued(asked)) :
                  build' = [reader |-> reader, from |-> from, asOf |-> asOf,
                            asked |-> asked, chunks |-> chunks, step |-> 1,
                            view |-> NothingRead(Sessions(from, asOf)), rows |-> {}]
             /\ UNCHANGED <<lake, candidates>>
    BY Zenon DEF Begin
  <1> DEFINE from == window[1]
             asOf == window[2]
             asked == IF request # NoCodes THEN request
                      ELSE IF reader = "query" THEN QueryScope(asOf) ELSE PhysicalScope(asOf)
             wanted == IF reader = "query" THEN asked ELSE Catalogued(asked)
  <1>2. PICK chunks \in Chunkings(reader, wanted) :
          b = [reader |-> reader, from |-> from, asOf |-> asOf, asked |-> asked,
               chunks |-> chunks, step |-> 1,
               view |-> NothingRead(Sessions(from, asOf)), rows |-> {}]
    BY <1>1
  <1>3. from \in Days \cup {NoDay} /\ asOf \in collected
    BY <1>1, WindowAssumption
  <1>4. asked \in SUBSET Codes
    <2>1. QueryScope(asOf) # Raised => QueryScope(asOf) \in SUBSET Codes
      BY CodeAssumption DEF QueryScope
    <2>2. PhysicalScope(asOf) # Raised => PhysicalScope(asOf) \in SUBSET Codes
      BY DEF PhysicalScope, Catalogued
    <2>3. request # NoCodes => request \in SUBSET Codes
      BY RequestAssumption
    <2> QED
      BY <1>1, <2>1, <2>2, <2>3
  <1> HIDE DEF from, asOf, asked
  <1>5. Wanted(b) = wanted /\ Window(b) = Sessions(from, asOf)
    BY <1>2 DEF Wanted, Window
  <1>6. Shaped(b) /\ Asked(b) /\ ReadSoFar(b)
    <2>1. /\ b.view.sessions = Window(b) /\ b.step = 1
          /\ b.view = [sessions |-> b.view.sessions, before |-> b.view.before,
                       bars |-> b.view.bars, statuses |-> b.view.statuses]
      BY <1>2, <1>5 DEF NothingRead
    <2>2. ~BeforeRead(b) /\ ~StatusRead(b)
      BY <2>1 DEF BeforeRead, StatusRead
    <2>3. Shaped(b)
      BY <1>2, <2>1 DEF Shaped
    <2>4. Asked(b)
      BY <1>2, <1>3, <1>4 DEF Asked
    <2>5. ReadSoFar(b)
      BY <2>1, <2>2 DEF ReadSoFar
    <2> QED
      BY <2>3, <2>4, <2>5
  <1>7. Chunked(b)
    <2>1. /\ chunks \subseteq SUBSET wanted
          /\ \A x, y \in chunks : x # y => x \cap y = {}
          /\ wanted \ (UNION chunks) = {}
      BY ChunksPart
    <2>2. b.chunks = chunks /\ b.step = 1 /\ b.rows = {}
      BY <1>2
    <2>3. KeyFacts(b.rows) = WholeOf(Wanted(b) \ (UNION b.chunks), Window(b))
      BY <1>5, <2>1, <2>2, NothingWhole
    <2> HIDE DEF wanted
    <2> QED
      BY <1>5, <2>1, <2>2, <2>3 DEF Chunked
  <1> QED
    BY <1>6, <1>7 DEF CallOK

LEMMA CallFields ==
  ASSUME NEW reader, NEW from, NEW asOf, NEW asked, NEW chunks, NEW step, NEW view, NEW rows,
         NEW b, b = [reader |-> reader, from |-> from, asOf |-> asOf, asked |-> asked,
                     chunks |-> chunks, step |-> step, view |-> view, rows |-> rows]
  PROVE  /\ b.reader = reader /\ b.from = from /\ b.asOf = asOf /\ b.asked = asked
         /\ b.chunks = chunks /\ b.step = step /\ b.view = view /\ b.rows = rows
  OBVIOUS

ReadInto(c, what, value) == [c EXCEPT !.step = @ + 1, !.view[what] = value]

\* What a read puts into the view, and what it leaves there.
LEMMA ReadShape ==
  ASSUME NEW c, Shaped(c), NEW what \in {"before", "bars", "statuses"}, NEW value, NEW b,
         b = ReadInto(c, what, value), c.step <= 3
  PROVE  /\ Shaped(b) /\ b.step = c.step + 1
         /\ b.reader = c.reader /\ b.from = c.from /\ b.asOf = c.asOf /\ b.asked = c.asked
         /\ b.chunks = c.chunks /\ b.rows = c.rows /\ b.view.sessions = c.view.sessions
         /\ b.view.before = (IF what = "before" THEN value ELSE c.view.before)
         /\ b.view.bars = (IF what = "bars" THEN value ELSE c.view.bars)
         /\ b.view.statuses = (IF what = "statuses" THEN value ELSE c.view.statuses)
  <1> DEFINE view == [c.view EXCEPT ![what] = value]
  <1>1. view = [sessions |-> c.view.sessions,
                before |-> IF what = "before" THEN value ELSE c.view.before,
                bars |-> IF what = "bars" THEN value ELSE c.view.bars,
                statuses |-> IF what = "statuses" THEN value ELSE c.view.statuses]
    BY DEF Shaped
  <1>2. b = [reader |-> c.reader, from |-> c.from, asOf |-> c.asOf, asked |-> c.asked,
             chunks |-> c.chunks, step |-> c.step + 1, view |-> view, rows |-> c.rows]
    <2> HIDE DEF view
    <2>1. b = [[c EXCEPT !.step = @ + 1] EXCEPT !.view = view]
      BY DEF view, Shaped, ReadInto
    <2> QED
      BY <2>1 DEF Shaped
  <1> HIDE DEF view
  <1>3. /\ b.step = c.step + 1 /\ b.view = view
        /\ b.reader = c.reader /\ b.from = c.from /\ b.asOf = c.asOf /\ b.asked = c.asked
        /\ b.chunks = c.chunks /\ b.rows = c.rows
    BY ONLY <1>2
  <1>4. Shaped(b)
    <2>1. /\ b.view.sessions = c.view.sessions
          /\ b.view.before = (IF what = "before" THEN value ELSE c.view.before)
          /\ b.view.bars = (IF what = "bars" THEN value ELSE c.view.bars)
          /\ b.view.statuses = (IF what = "statuses" THEN value ELSE c.view.statuses)
      BY <1>1, <1>3
    <2>2. b.view = [sessions |-> b.view.sessions, before |-> b.view.before,
                    bars |-> b.view.bars, statuses |-> b.view.statuses]
      BY <1>1, <1>3, <2>1
    <2>3. b.step \in 1 .. 4 /\ b.reader \in {"query", "physical"}
      BY <1>3 DEF Shaped
    <2>4. b = [reader |-> b.reader, from |-> b.from, asOf |-> b.asOf, asked |-> b.asked,
               chunks |-> b.chunks, step |-> b.step, view |-> b.view, rows |-> b.rows]
      BY <1>2, <1>3, Zenon
    <2> QED
      BY <2>2, <2>3, <2>4 DEF Shaped
  <1> QED
    BY <1>1, <1>3, <1>4

\* What a read finds is what the lake says, whichever reader it is.
LEMMA ReadCall ==
  ASSUME LakeOK, CallOK(build), Read, NEW b, b = build'
  PROVE  CallOK(b)
  <1> DEFINE what == ReadOrder(build.reader)[build.step]
             S == Window(build)
  <1>1. /\ build.chunks # {} /\ build.step <= 3
        /\ b = [build EXCEPT !.step = @ + 1, !.view[what] = ReadNow(what)]
    BY DEF Read
  <1>2. Shaped(build) /\ Asked(build) /\ ReadSoFar(build) /\ Chunked(build)
    BY DEF CallOK
  <1>3. build.reader \in {"query", "physical"} /\ build.step \in {1, 2, 3}
    BY <1>1, <1>2 DEF Shaped
  <1>4. /\ what \in {"before", "bars", "statuses"}
        /\ build.step = 2 <=> what = "bars"
        /\ build.reader = "query" => (build.step = 1 <=> what = "before")
                                     /\ (build.step = 3 <=> what = "statuses")
        /\ build.reader = "physical" => (build.step = 3 <=> what = "before")
                                        /\ (build.step = 1 <=> what = "statuses")
    BY <1>3 DEF ReadOrder
  <1> HIDE DEF what
  <1>5. /\ Shaped(b) /\ b.step = build.step + 1
        /\ b.reader = build.reader /\ b.from = build.from /\ b.asOf = build.asOf
        /\ b.asked = build.asked
        /\ b.chunks = build.chunks /\ b.rows = build.rows /\ b.view.sessions = build.view.sessions
        /\ b.view.before = (IF what = "before" THEN ReadNow(what) ELSE build.view.before)
        /\ b.view.bars = (IF what = "bars" THEN ReadNow(what) ELSE build.view.bars)
        /\ b.view.statuses = (IF what = "statuses" THEN ReadNow(what) ELSE build.view.statuses)
    <2>1. PICK value : value = ReadNow(what)
      OBVIOUS
    <2>2. b = ReadInto(build, what, value)
      BY <1>1, <2>1, Zenon DEF ReadInto
    <2>3. Shaped(build) /\ what \in {"before", "bars", "statuses"} /\ build.step <= 3
      BY <1>1, <1>2, <1>4
    <2>4. /\ Shaped(b) /\ b.step = build.step + 1
          /\ b.reader = build.reader /\ b.from = build.from /\ b.asOf = build.asOf
          /\ b.asked = build.asked /\ b.chunks = build.chunks /\ b.rows = build.rows
          /\ b.view.sessions = build.view.sessions
          /\ b.view.before = (IF what = "before" THEN value ELSE build.view.before)
          /\ b.view.bars = (IF what = "bars" THEN value ELSE build.view.bars)
          /\ b.view.statuses = (IF what = "statuses" THEN value ELSE build.view.statuses)
      BY <2>2, <2>3, ReadShape
    <2> HIDE <1>1, <1>2, <1>3, <1>4, <2>2, <2>3
    <2> QED
      BY <2>1, <2>4
  <1>6. Chunk = ChunkOf(build) /\ ChunkOf(b) = ChunkOf(build) /\ ChunkOf(build) \in build.chunks
    BY <1>1, <1>5 DEF Chunk, ChunkOf
  <1>7. Window(b) = S /\ Wanted(b) = Wanted(build)
    BY <1>5 DEF Window, Wanted
  <1>8. ChunkOf(build) \subseteq Wanted(build)
    BY <1>2, <1>6 DEF Chunked
  <1>9. what = "before" => ReadNow(what) = QueryBefore(ChunkOf(build), build.from)
    <2>1. CASE build.reader = "query"
      BY <1>6, <2>1 DEF ReadNow
    <2>2. CASE build.reader = "physical"
      <3>1. ChunkOf(build) \in SUBSET Instruments
        BY <1>8, <2>2 DEF Wanted, Catalogued
      <3>2. PhysicalBefore(ChunkOf(build), build.from) = QueryBefore(ChunkOf(build), build.from)
        BY <1>2, <3>1, BeforeAgrees DEF Asked
      <3> QED
        BY <1>6, <2>2, <3>2 DEF ReadNow
    <2> QED
      BY <1>3, <2>1, <2>2
  <1>10. what = "bars" => ReadNow(what) = BarsRead(ChunkOf(build), S)
    BY <1>2, <1>6 DEF ReadNow, ReadSoFar
  <1>11. what = "statuses" => ReadNow(what) \in [ChunkOf(build) \X S -> Status \cup {NoRow}]
    <2>1. \A k \in ChunkOf(build) \X S : StatusOf(k[1], k[2]) \in Status \cup {NoRow}
      BY DEF StatusOf, LakeOK
    <2>2. StatusesRead(ChunkOf(build), S) \in [ChunkOf(build) \X S -> Status \cup {NoRow}]
      BY <2>1 DEF StatusesRead
    <2> QED
      BY <1>2, <1>6, <2>2 DEF ReadNow, ReadSoFar
  <1>12. Asked(b)
    BY <1>2, <1>5 DEF Asked
  <1>13. Chunked(b)
    BY <1>1, <1>2, <1>5, <1>7 DEF Chunked
  <1>14. ReadSoFar(b)
    <2>1. b.view.sessions = Window(b)
      BY <1>2, <1>5, <1>7 DEF ReadSoFar
    <2>2. BeforeRead(b) /\ Window(b) # {} => b.view.before = QueryBefore(ChunkOf(b), b.from)
      <3>1. BeforeRead(b) => BeforeRead(build) \/ what = "before"
        BY <1>3, <1>4, <1>5 DEF BeforeRead
      <3> QED
        BY <1>2, <1>5, <1>6, <1>7, <1>9, <3>1 DEF ReadSoFar
    <2>3. b.step > 2 => b.view.bars = BarsRead(ChunkOf(b), Window(b))
      <3>1. b.step > 2 => build.step > 2 \/ what = "bars"
        BY <1>3, <1>4, <1>5
      <3> QED
        BY <1>2, <1>5, <1>6, <1>7, <1>10, <3>1 DEF ReadSoFar
    <2>4. StatusRead(b) => b.view.statuses \in [ChunkOf(b) \X Window(b) -> Status \cup {NoRow}]
      <3>1. StatusRead(b) => StatusRead(build) \/ what = "statuses"
        BY <1>3, <1>4, <1>5 DEF StatusRead
      <3> QED
        BY <1>2, <1>5, <1>6, <1>7, <1>11, <3>1 DEF ReadSoFar
    <2> QED
      BY <2>1, <2>2, <2>3, <2>4 DEF ReadSoFar
  <1> QED
    BY <1>5, <1>12, <1>13, <1>14 DEF CallOK

\* The rows of a chunk are those that were missing of it.
LEMMA EmitCall ==
  ASSUME LakeOK, CallOK(build), Emit, NEW b, b = build', b # NoBuild
  PROVE  CallOK(b)
  <1> DEFINE C == ChunkOf(build)
             W == Wanted(build)
             S == Window(build)
             added == Written(Slice(build.view, C).rows)
  <1>1. Shaped(build) /\ Asked(build) /\ ReadSoFar(build) /\ Chunked(build)
    BY DEF CallOK
  <1>2. build.step = 4 /\ Chunk = C
    BY DEF Emit, Chunk, ChunkOf
  <1>3. /\ Slice(build.view, C) # Raised
        /\ b = [build EXCEPT !.step = 1, !.chunks = @ \ {C},
                             !.view = NothingRead(@.sessions), !.rows = @ \cup added]
    BY <1>2 DEF Emit
  <1> HIDE DEF C, added
  <1>4. b = [reader |-> build.reader, from |-> build.from, asOf |-> build.asOf,
             asked |-> build.asked, chunks |-> build.chunks \ {C}, step |-> 1,
             view |-> NothingRead(build.view.sessions), rows |-> build.rows \cup added]
    BY <1>1, <1>3 DEF Shaped
  <1>5. /\ b.reader = build.reader /\ b.from = build.from /\ b.asOf = build.asOf
        /\ b.asked = build.asked /\ b.chunks = build.chunks \ {C} /\ b.step = 1
        /\ b.view = NothingRead(build.view.sessions) /\ b.rows = build.rows \cup added
    BY ONLY <1>4
  <1>6. Window(b) = S /\ Wanted(b) = W
    BY <1>5 DEF Window, Wanted
  <1>7. C \in build.chunks /\ C \subseteq W /\ W \subseteq Codes
    <2>1. C \in build.chunks
      BY <1>1, <1>2 DEF Chunked, C, ChunkOf
    <2> QED
      BY <1>1, <2>1 DEF Chunked, Asked, Wanted, Catalogued
  <1>8. added \subseteq Facts /\ KeyFacts(added) = WholeOf(C, S)
    <2>1. build.from \in Days \cup {NoDay} /\ build.asOf \in Days
      BY <1>1 DEF Asked, LakeOK
    <2>2. BeforeRead(build) /\ StatusRead(build)
      BY <1>2 DEF BeforeRead, StatusRead
    <2>3. PICK from \in Days \cup {NoDay} : from = build.from
      BY <2>1
    <2>4. PICK asOf \in Days : asOf = build.asOf
      BY <2>1
    <2>5. PICK view : view = build.view
      OBVIOUS
    <2>6. /\ S = Sessions(from, asOf) /\ view.sessions = Sessions(from, asOf)
          /\ Sessions(from, asOf) # {} => view.before = QueryBefore(C, from)
          /\ view.bars = BarsRead(C, Sessions(from, asOf))
          /\ view.statuses \in [C \X Sessions(from, asOf) -> Status \cup {NoRow}]
      BY <1>1, <1>2, <2>2, <2>3, <2>4, <2>5 DEF ReadSoFar, Window, C
    <2>7. C \in SUBSET Codes /\ Slice(view, C) # Raised
      BY <1>3, <1>7, <2>5
    <2>8. added = Written(Slice(view, C).rows)
      BY <2>5 DEF added
    <2> HIDE DEF S
    <2> QED
      BY <2>6, <2>7, <2>8, SliceWhole
  <1>9. Shaped(b)
    <2>1. b.view = [sessions |-> b.view.sessions, before |-> b.view.before,
                    bars |-> b.view.bars, statuses |-> b.view.statuses]
      BY <1>5 DEF NothingRead
    <2>2. b.step \in 1 .. 4 /\ b.reader \in {"query", "physical"}
      BY <1>1, <1>5 DEF Shaped
    <2>3. b = [reader |-> b.reader, from |-> b.from, asOf |-> b.asOf, asked |-> b.asked,
               chunks |-> b.chunks, step |-> b.step, view |-> b.view, rows |-> b.rows]
      BY <1>4, <1>5, Zenon
    <2> QED
      BY <2>1, <2>2, <2>3 DEF Shaped
  <1>10. Asked(b)
    BY <1>1, <1>5 DEF Asked
  <1>11. ReadSoFar(b)
    <2>1. b.view.sessions = S
      BY <1>1, <1>5 DEF NothingRead, ReadSoFar
    <2>2. ~BeforeRead(b) /\ ~StatusRead(b)
      BY <1>5 DEF BeforeRead, StatusRead
    <2> QED
      BY <1>5, <1>6, <2>1, <2>2 DEF ReadSoFar
  <1>12. Chunked(b)
    <2>1. W \ (UNION (build.chunks \ {C})) = (W \ (UNION build.chunks)) \cup C
      <3>1. \A x \in build.chunks \ {C} : x \cap C = {}
        BY <1>1, <1>7 DEF Chunked
      <3> HIDE DEF W
      <3> QED
        BY <1>7, <3>1
    <2>2. KeyFacts(build.rows) = WholeOf(W \ (UNION build.chunks), S)
      BY <1>1 DEF Chunked
    <2>3. KeyFacts(b.rows) = KeyFacts(build.rows) \cup KeyFacts(added)
      BY <1>5, KeyFactsBoth
    <2>4. WholeOf((W \ (UNION build.chunks)) \cup C, S)
            = WholeOf(W \ (UNION build.chunks), S) \cup WholeOf(C, S)
      BY WholeOfBoth
    <2>5. KeyFacts(b.rows) = WholeOf(Wanted(b) \ (UNION b.chunks), Window(b))
      BY <1>5, <1>6, <1>8, <2>1, <2>2, <2>3, <2>4
    <2>6. b.rows \subseteq Facts
      BY <1>1, <1>5, <1>8 DEF Chunked
    <2>7. /\ b.chunks \subseteq SUBSET Wanted(b)
          /\ \A x, y \in b.chunks : x # y => x \cap y = {}
      BY <1>1, <1>5, <1>6 DEF Chunked
    <2>8. ~(b.step > 1)
      BY <1>5
    <2> QED
      BY <2>5, <2>6, <2>7, <2>8 DEF Chunked
  <1> QED
    BY <1>9, <1>10, <1>11, <1>12 DEF CallOK

\* What is published holds the rows of every chunk.
LEMMA PublishCandidate ==
  ASSUME CallOK(build), Publish, NEW s \in candidates', s \notin candidates
  PROVE  CandidateOK(s)
  <1>1. /\ build.chunks = {}
        /\ s = [from |-> build.from, asOf |-> build.asOf, asked |-> build.asked,
                reader |-> build.reader, rows |-> build.rows]
    BY DEF Publish
  <1>2. /\ s.from = build.from /\ s.asOf = build.asOf /\ s.asked = build.asked
        /\ s.reader = build.reader /\ s.rows = build.rows
    BY ONLY <1>1
  <1>3. Wanted(s) = Wanted(build) /\ Window(s) = Window(build)
    BY <1>2 DEF Wanted, Window
  <1>4. Shaped(build) /\ Asked(build) /\ Chunked(build)
    BY DEF CallOK
  <1>5. Wanted(build) \ (UNION build.chunks) = Wanted(build)
    BY <1>1
  <1>6. KeyFacts(s.rows) = WholeOf(Wanted(s), Window(s)) /\ s.rows \subseteq Facts
    BY <1>2, <1>3, <1>4, <1>5 DEF Chunked
  <1>7. s.reader \in {"query", "physical"}
    BY <1>2, <1>4 DEF Shaped
  <1> QED
    BY <1>2, <1>4, <1>6, <1>7 DEF CandidateOK, Asked

LEMMA InitIInv == Init => IInv
  <1> SUFFICES ASSUME Init PROVE IInv
    OBVIOUS
  <1>1. LakeOK
    BY LakeStarts DEF Init
  <1>2. BuildOK /\ CandidatesOK
    BY DEF Init, BuildOK, CandidatesOK
  <1> QED
    BY <1>1, <1>2 DEF IInv

LEMMA NextIInv == IInv /\ [Next]_vars => IInv'
  <1> SUFFICES ASSUME IInv, [Next]_vars PROVE IInv'
    OBVIOUS
  <1>1. LakeOK /\ BuildOK /\ CandidatesOK
    BY DEF IInv
  <1>2. LakeOK'
    BY <1>1, LakeStep
  <1>3. ASSUME NEW b \in {build'} \ {NoBuild} PROVE CallOK(b)
    <2>1. CASE b = build
      BY <1>1, <2>1 DEF BuildOK
    <2>2. CASE Begin
      BY <1>1, <2>2, BeginCall
    <2>3. CASE Read
      <3>1. CallOK(build)
        BY <1>1, <2>3 DEF Read, BuildOK
      <3> QED
        BY <1>1, <2>3, <3>1, ReadCall
    <2>4. CASE Emit
      <3>1. CallOK(build)
        BY <1>1, <2>4 DEF Emit, BuildOK
      <3> QED
        BY <1>1, <2>4, <3>1, EmitCall
    <2>5. CASE Publish
      BY <2>5 DEF Publish
    <2>6. CASE Collecting \/ Backfilling \/ Refreshing \/ UNCHANGED vars
      BY <2>1, <2>6 DEF Collecting, Backfilling, Refreshing, vars
    <2> QED
      BY <2>2, <2>3, <2>4, <2>5, <2>6 DEF Next
  <1>4. BuildOK'
    BY <1>1, <1>3, CallStays DEF BuildOK
  <1>5. ASSUME NEW s \in candidates' PROVE CandidateOK(s)
    <2>1. CASE s \in candidates
      BY <1>1, <2>1 DEF CandidatesOK
    <2>2. CASE s \notin candidates
      <3>1. Publish
        BY <2>2 DEF Next, Collecting, Backfilling, Refreshing, Begin, Read, Emit, vars
      <3>2. CallOK(build)
        BY <1>1, <3>1 DEF Publish, BuildOK
      <3> QED
        BY <2>2, <3>1, <3>2, PublishCandidate
    <2> QED
      BY <2>1, <2>2
  <1>6. CandidatesOK'
    BY <1>1, <1>5, CandidateStays DEF CandidatesOK
  <1> QED
    BY <1>2, <1>4, <1>6 DEF IInv

-----------------------------------------------------------------------------
(* What follows from the invariant.                                         *)

LEMMA WholeRow ==
  ASSUME NEW s, CandidateOK(s), NEW r \in s.rows
  PROVE  /\ r.code \in Wanted(s) /\ r.day \in Window(s)
         /\ BarOf(r.code, r.day) # NoBar /\ BarOf(r.code, r.day).amount
         /\ r.close = BarOf(r.code, r.day).close /\ r.preclose = LastClose(r.code, r.day)
  <1> DEFINE x == [code |-> r.code, day |-> r.day, close |-> r.close, preclose |-> r.preclose]
  <1>1. x \in WholeOf(Wanted(s), Window(s))
    BY DEF CandidateOK, KeyFacts
  <1>2. PICK k \in Wanted(s) \X Window(s) :
          /\ x = [code |-> k[1], day |-> k[2], close |-> BarOf(k[1], k[2]).close,
                  preclose |-> LastClose(k[1], k[2])]
          /\ BarOf(k[1], k[2]) # NoBar /\ BarOf(k[1], k[2]).amount
    BY <1>1 DEF WholeOf
  <1>3. /\ x.code = r.code /\ x.day = r.day /\ x.close = r.close /\ x.preclose = r.preclose
        /\ x.code = k[1] /\ x.day = k[2] /\ x.close = BarOf(k[1], k[2]).close
        /\ x.preclose = LastClose(k[1], k[2])
    BY <1>2
  <1> HIDE DEF x
  <1> QED
    BY <1>2, <1>3

\* The row of every bar that has an amount and a predecessor is there.
LEMMA RowIsThere ==
  ASSUME NEW s, CandidateOK(s), NEW c \in Wanted(s), NEW d \in Window(s),
         BarOf(c, d) # NoBar, BarOf(c, d).amount, LastClose(c, d) # NoClose
  PROVE  \E r \in s.rows : r.code = c /\ r.day = d
  <1> DEFINE x == [code |-> c, day |-> d, close |-> BarOf(c, d).close,
                   preclose |-> LastClose(c, d)]
  <1>1. x \in WholeOf(Wanted(s), Window(s))
    <2>1. <<c, d>> \in Wanted(s) \X Window(s) /\ <<c, d>>[1] = c /\ <<c, d>>[2] = d
      OBVIOUS
    <2> QED
      BY <2>1 DEF WholeOf
  <1>2. PICK r \in s.rows : x = [code |-> r.code, day |-> r.day, close |-> r.close,
                                 preclose |-> r.preclose]
    BY <1>1 DEF CandidateOK, KeyFacts
  <1>3. x.code = c /\ x.day = d /\ x.code = r.code /\ x.day = r.day
    BY <1>2
  <1> HIDE DEF x
  <1> QED
    BY <1>3

LEMMA WholeFollows == IInv => CandidateIsWhole
  <1> SUFFICES ASSUME IInv PROVE CandidateIsWhole
    OBVIOUS
  <1>1. ASSUME NEW s \in candidates
        PROVE  {[code |-> r.code, day |-> r.day, close |-> r.close, preclose |-> r.preclose] :
                  r \in s.rows}
                 = {[code |-> k[1], day |-> k[2], close |-> bars[k].close,
                     preclose |-> LastClose(k[1], k[2])] : k \in
                      {j \in Wanted(s) \X Window(s) :
                         /\ BarOf(j[1], j[2]) # NoBar /\ bars[j].amount
                         /\ LastClose(j[1], j[2]) # NoClose}}
    <2>1. KeyFacts(s.rows) = WholeOf(Wanted(s), Window(s))
      BY DEF IInv, CandidatesOK, CandidateOK
    <2> DEFINE P == Wanted(s) \X Window(s)
               F(k) == [code |-> k[1], day |-> k[2], close |-> BarOf(k[1], k[2]).close,
                        preclose |-> LastClose(k[1], k[2])]
               G(k) == [code |-> k[1], day |-> k[2], close |-> bars[k].close,
                        preclose |-> LastClose(k[1], k[2])]
               K == {j \in P : /\ BarOf(j[1], j[2]) # NoBar /\ BarOf(j[1], j[2]).amount
                               /\ LastClose(j[1], j[2]) # NoClose}
               L == {j \in P : /\ BarOf(j[1], j[2]) # NoBar /\ bars[j].amount
                               /\ LastClose(j[1], j[2]) # NoClose}
    <2>2. \A j \in P : BarOf(j[1], j[2]) # NoBar => BarOf(j[1], j[2]) = bars[j]
      BY DEF BarOf
    <2>3. K = L
      BY <2>2
    <2>4. \A k \in L : F(k) = G(k)
      BY <2>2
    <2>5. WholeOf(Wanted(s), Window(s)) = {F(k) : k \in K}
      BY DEF WholeOf
    <2> HIDE DEF F, G, K, L
    <2>6. KeyFacts(s.rows) = {G(k) : k \in L}
      BY <2>1, <2>3, <2>4, <2>5
    <2> QED
      BY <2>6 DEF KeyFacts, G, L
  <1> QED
    BY <1>1 DEF CandidateIsWhole, Wanted, Window

LEMMA BlameFollows == IInv => OnlyDroppedAreBlamed
  <1> SUFFICES ASSUME IInv, NEW s \in candidates, NEW r \in ContinuityIssues(s.rows)
               PROVE  \E d \in Sessions(s.from, s.asOf) :
                        /\ d < r.day /\ BarOf(r.code, d) # NoBar
                        /\ ~bars[<<r.code, d>>].amount \/ bars[<<r.code, d>>].close = 0
                        /\ \A q \in ScannedBefore(s.rows, r) : q.day <= d
    BY DEF OnlyDroppedAreBlamed
  <1>1. LakeOK /\ CandidateOK(s)
    BY DEF IInv, CandidatesOK
  <1>2. r \in s.rows
    BY DEF ContinuityIssues
  <1>3. PICK q \in ScannedBefore(s.rows, r) :
          /\ \A p \in ScannedBefore(s.rows, r) : p.day <= q.day
          /\ r.preclose # q.close
    BY DEF ContinuityIssues
  <1>4. q \in s.rows /\ q.code = r.code /\ q.day < r.day
    BY DEF ScannedBefore
  <1> DEFINE c == r.code
             d == r.day
             e == q.day
             S == Sessions(s.from, s.asOf)
  <1>5. /\ c \in Wanted(s) /\ d \in S /\ r.preclose = LastClose(c, d)
        /\ e \in S /\ BarOf(c, e) # NoBar /\ q.close = BarOf(c, e).close
    BY <1>1, <1>2, <1>4, WholeRow DEF Window
  <1>6. d \in Days /\ e \in Days /\ d \in Nat /\ e \in Nat /\ e < d
    BY <1>4, <1>5, CollectedDays DEF Sessions
  <1>7. \A x \in Days : BarOf(c, x) # NoBar => /\ BarOf(c, x) = bars[<<c, x>>]
                                              /\ BarOf(c, x).close \in Nat
    BY <1>1 DEF BarOf, LakeOK, Bar
  <1>8. CASE q.close = 0
    BY <1>3, <1>5, <1>6, <1>7, <1>8
  <1>9. CASE q.close # 0
    <2> DEFINE valid == {x \in Days : x < d /\ BarOf(c, x) # NoBar /\ BarOf(c, x).close > 0}
               m == Max(valid)
    <2>0. BarOf(c, e).close \in Nat /\ BarOf(c, e).close > 0
      <3>1. BarOf(c, e).close \in Nat
        BY <1>5, <1>6, <1>7
      <3>2. BarOf(c, e).close # 0
        BY <1>5, <1>9
      <3> HIDE DEF c, e
      <3> QED
        BY <3>1, <3>2
    <2>1. e \in valid
      BY <1>5, <1>6, <2>0
    <2>2. r.preclose = BarOf(c, m).close
      BY <1>5, <2>1 DEF LastClose
    <2>3. valid \in SUBSET Days /\ \A x \in valid : x < d /\ BarOf(c, x) # NoBar
      OBVIOUS
    <2> HIDE DEF valid
    <2>4. m \in valid /\ m \in Days /\ \A x \in valid : x <= m
      BY <2>1, <2>3, LatestDay
    <2> HIDE DEF m
    <2>5. m \in Nat /\ e < m /\ m < d /\ BarOf(c, m) # NoBar
      <3>1. m \in Nat /\ e <= m /\ m < d /\ BarOf(c, m) # NoBar
        BY <2>1, <2>3, <2>4, CollectedDays
      <3>2. m # e
        BY <1>3, <1>5, <2>2
      <3> QED
        BY <1>6, <3>1, <3>2
    <2>6. m \in S
      <3>1. s.asOf \in Nat /\ (s.from # NoDay => s.from \in Nat)
        BY <1>1, CollectedDays DEF CandidateOK, LakeOK
      <3>2. d <= s.asOf /\ (s.from # NoDay => e >= s.from)
        BY <1>5 DEF Sessions
      <3>3. m <= s.asOf /\ (s.from # NoDay => m >= s.from)
        BY <1>6, <2>5, <3>1, <3>2
      <3> QED
        BY <2>4, <3>3 DEF Sessions
    <2>7. LastClose(c, m) # NoClose
      <3> DEFINE before == {x \in Days : x < m /\ BarOf(c, x) # NoBar /\ BarOf(c, x).close > 0}
      <3>1. e \in before
        BY <1>5, <1>6, <2>0, <2>5
      <3>2. LastClose(c, m) = BarOf(c, Max(before)).close
        BY <3>1 DEF LastClose
      <3>3. \A x \in before : BarOf(c, x).close \in Nat
        BY <1>7
      <3>4. before \in SUBSET Days
        OBVIOUS
      <3> HIDE DEF before
      <3>5. Max(before) \in before
        BY <3>1, <3>4, LatestDay
      <3> QED
        BY <3>2, <3>3, <3>5, CloseAssumption
    <2>8. ~BarOf(c, m).amount
      <3>1. SUFFICES ASSUME BarOf(c, m).amount PROVE FALSE
        OBVIOUS
      <3>2. PICK p \in s.rows : p.code = c /\ p.day = m
        BY <1>1, <1>5, <2>5, <2>6, <2>7, <3>1, RowIsThere DEF Window
      <3>3. p \in ScannedBefore(s.rows, r)
        BY <2>5, <3>2 DEF ScannedBefore
      <3> QED
        BY <1>3, <1>6, <2>5, <3>2, <3>3
    <2>9. \A p \in ScannedBefore(s.rows, r) : p.day <= m
      <3>1. ASSUME NEW p \in ScannedBefore(s.rows, r) PROVE p.day <= m
        <4>1. p \in s.rows /\ p.day <= e
          BY <1>3 DEF ScannedBefore
        <4>2. p.day \in Days
          BY <1>1, <4>1, WholeRow DEF Window, Sessions
        <4>3. p.day \in Nat
          BY <4>2, CollectedDays
        <4> QED
          BY <1>6, <2>5, <4>1, <4>3
      <3> QED
        BY <3>1
    <2> QED
      BY <1>7, <2>4, <2>5, <2>6, <2>8, <2>9
  <1> QED
    BY <1>8, <1>9

-----------------------------------------------------------------------------

LEMMA AlwaysIInv == Spec => []IInv
  BY InitIInv, NextIInv, PTL DEF Spec

\* The lake, the build under way and the candidates keep the types of the
\* daily bars, of the statuses and of the rows of a snapshot.
THEOREM TypeCorrect == Spec => []TypeOK
  <1>1. IInv => TypeOK
    <2> SUFFICES ASSUME IInv PROVE TypeOK
      OBVIOUS
    <2>1. build # NoBuild => build.rows \subseteq Facts
      BY DEF IInv, BuildOK, CallOK, Chunked
    <2>2. \A s \in candidates : s.rows \subseteq Facts
      BY DEF IInv, CandidatesOK, CandidateOK
    <2> QED
      BY <2>1, <2>2 DEF TypeOK, IInv, LakeOK
  <1> QED
    BY <1>1, AlwaysIInv, PTL

\* Where the partitions of the window are there, asl_query_adapter and its
\* fallback asl_adapter answer the same call with the same rows, the same
\* absences or the same refusal, in whatever chunks the codes are asked; and,
\* where the month has a status, with the same scope of the day, unless only
\* codes of other boards have bars on it.
THEOREM ReadersAnswerAlike == Spec => []ReadersAgree
  <1>1. IInv => ReadersAgree
    BY Agreement DEF IInv
  <1> QED
    BY <1>1, AlwaysIInv, PTL

\* What query_daily_facts says of a day does not depend on the window that the
\* day is asked in: _predecessor_closes and the statuses of the day decide it.
THEOREM AnyWindow == Spec => []WindowIndependent
  <1>1. IInv => WindowIndependent
    BY Independence DEF IInv
  <1> QED
    BY <1>1, AlwaysIInv, PTL

\* A status of the feed that was fetched after its day, as
\* _classify_status_provenance sees it, changes no answer about any window.
THEOREM NeverHindsight == Spec => NoHindsight
  <1>1. IInv /\ [Next]_vars =>
          [build = NoBuild => \A k \in Keys : LateWord(k) =>
             \A w \in AllWindows : QueryFacts({{k[1]}}, w[1], w[2])'
                                     = QueryFacts({{k[1]}}, w[1], w[2])]_vars
    BY HindsightStep DEF IInv
  <1> QED
    BY <1>1, AlwaysIInv, PTL DEF Spec, NoHindsight

\* However the lake moves between the reads of build_asl_candidate_snapshot,
\* the candidate that it publishes is every bar that has an amount and a
\* predecessor, with the close before it, and stays so.
THEOREM CandidatesWhole == Spec => []CandidateIsWhole
  BY WholeFollows, AlwaysIInv, PTL

\* _asl_unique_and_preclose_issues blames a row of a candidate only where the
\* row before it was left out for its amount or has no price.
THEOREM BlameIsExplained == Spec => []OnlyDroppedAreBlamed
  BY BlameFollows, AlwaysIInv, PTL

=============================================================================
