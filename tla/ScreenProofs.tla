---------------------------- MODULE ScreenProofs ----------------------------
(***************************************************************************)
(* Proofs about ScreenRun for any number of runs, workers, codes, requests *)
(* and deaths.                                                             *)
(*                                                                         *)
(* A state is a rebuild because a piece that holds one knows that it is    *)
(* not stale, whatever has been written to its file since.  A manifest is  *)
(* one because the rows of every piece are (the days after the last one    *)
(* its state had reached), because the pieces cover the universe, and      *)
(* because two calls of one id that are alive at once are known to be, so  *)
(* that nobody else writes to the spools of a call whose id is not mixed.  *)
(***************************************************************************)
EXTENDS ScreenRun, SequenceTheorems, WellFoundedInduction, TLAPS

\* What a piece of a run for q holds: where it has a state in hand, that of its
\* next code, which is a rebuild over what q would see.
PieceOK(q, p) ==
    /\ DOMAIN p = {"todo", "held", "rows", "at", "trusted"}
    /\ p.todo \in Seq(Codes)
    /\ p.at \in {"new", "open", "closed", "failed"}
    /\ p.trusted \subseteq Snapshots
    /\ p.todo # <<>> /\ p.held \notin {NotLoaded, NoState} =>
         /\ IsRebuild(Head(p.todo), p.held)
         /\ ~Stale(q, Head(p.todo), p.held)

PiecesOK == \A r \in Runs : \A i \in Pieces(r) : PieceOK(req[r], work[r][i])

\* The rest of the types: a call that goes on to a manifest has all its pieces.
Control ==
    /\ usable \subseteq Snapshots
    /\ pc \in [Runs -> {"idle", "working", "merged", "published", "done", "failed", "dead"}]
    /\ req \in [Runs -> Requests \cup {NoRequest}]
    /\ DOMAIN work = Runs /\ DOMAIN tally = Runs /\ DOMAIN states = Codes
    /\ \A r \in Runs :
          /\ req[r] = NoRequest <=> pc[r] = "idle"
          /\ pc[r] = "idle" => Pieces(r) = {}
          /\ pc[r] \in {"merged", "published"} =>
                \A i \in Pieces(r) : work[r][i].at = "closed"
    /\ mixed \subseteq {RunId(q) : q \in Requests}
    /\ deaths \in 0..MaxDeaths

IInv == Control /\ StatesAreRebuilds /\ PiecesOK

\* The inductive invariant implies the type invariant.
LEMMA TypesFollow == IInv => TypeOK
  BY DEF IInv, Control, PiecesOK, PieceOK, TypeOK, Pieces

-----------------------------------------------------------------------------
(* What the evaluation of a code computes.                                 *)

\* A prefix of the bars is one of all of them.
LEMMA UntilBegins ==
  ASSUME NEW b, DOMAIN b \subseteq Nat, NEW day \in Nat
  PROVE  Begins(Until(b, day), b)
  BY DEF Begins, Until

\* Where a state is not stale and is a rebuild, going on from it gives what a
\* rebuild of the whole does.
LEMMA ScreenedIsRebuilt ==
  ASSUME NEW q \in Requests, NEW c \in Codes, NEW held,
         held # NoState => IsRebuild(c, held) /\ ~Stale(q, c, held)
  PROVE  Screened(q, c, held) = Rebuilt(q.commit, Until(Bars[q.snap][c], q.asOf))
  <1> DEFINE all == Bars[q.snap][c]
             b == Until(all, q.asOf)
  <1>1. DOMAIN all \subseteq Nat /\ q.asOf \in Nat
    BY RequestAssumption, DayAssumption
  <1>2. ASSUME NEW d \in DOMAIN b, Reached(held, d)
        PROVE  held.signal[d] = Evaluation(q.commit, b, d)
    <2>0. held # NoState
      BY <1>2 DEF Reached
    <2>1. PICK last \in DOMAIN held.signal : d <= last
      BY <1>2 DEF Reached
    <2>2. held.commit = q.commit /\ held.bars = Prefix(q, c, held)
      BY <2>0 DEF Stale
    <2>3. \A e \in DOMAIN held.signal : ~(e > q.asOf)
      BY <2>0 DEF Stale
    <2>4. held.signal = Rebuilt(held.commit, held.bars)
      BY <2>0 DEF IsRebuild
    <2>5. DOMAIN held.signal = DOMAIN held.bars
      BY <2>4 DEF Rebuilt
    <2>6. DOMAIN held.bars = {e \in DOMAIN all : \E l \in DOMAIN held.signal : e <= l}
      BY <2>2 DEF Prefix
    <2>7. \A e \in DOMAIN held.bars : held.bars[e] = all[e]
      BY <2>2 DEF Prefix
    <2>8. d \in DOMAIN all /\ d \in DOMAIN held.bars
      BY <2>1, <2>6 DEF Until
    <2>9. {e \in DOMAIN held.bars : e <= d} = {e \in DOMAIN b : e <= d}
      <3>1. DOMAIN b = {e \in DOMAIN all : e <= q.asOf}
        BY DEF Until
      <3>2. d \in Nat /\ last \in Nat /\ d <= last
        BY <1>1, <2>1, <2>5, <2>6, <2>8
      <3>3. \A e \in DOMAIN held.bars : e \in Nat /\ e <= q.asOf
        BY <1>1, <2>3, <2>5, <2>6
      <3>4. \A e \in DOMAIN held.bars : e \in DOMAIN b
        BY <2>6, <3>1, <3>3
      <3>5. \A e \in DOMAIN b : e <= d => e \in DOMAIN held.bars
        BY <1>1, <2>1, <2>6, <3>1, <3>2
      <3> QED
        BY <3>4, <3>5
    <2>10. Until(held.bars, d) = Until(b, d)
      BY <2>6, <2>7, <2>9 DEF Until
    <2> QED
      BY <2>2, <2>4, <2>8, <2>10 DEF Rebuilt, Evaluation
  <1> QED
    BY <1>2 DEF Screened, Rebuilt

\* What a run leaves of a code is a rebuild.
LEMMA LeftIsRebuild ==
  ASSUME NEW q \in Requests, NEW c \in Codes
  PROVE  IsRebuild(c, Left(q, c))
  <1>1. DOMAIN Bars[q.snap][c] \subseteq Nat /\ q.snap \in Snapshots /\ q.asOf \in Nat
    BY RequestAssumption, DayAssumption
  <1>2. Begins(Until(Bars[q.snap][c], q.asOf), Bars[q.snap][c])
    BY <1>1, UntilBegins
  <1> QED
    BY <1>1, <1>2 DEF IsRebuild, Left

-----------------------------------------------------------------------------
(* The pieces.                                                             *)

\* A slice of the universe names codes.
LEMMA SliceTyped ==
  ASSUME NEW size \in Nat, NEW i \in DOMAIN Slices(size)
  PROVE  Slices(size)[i] \in Seq(Codes)
  <1> DEFINE from == (i - 1) * size + 1
             to == IF i * size < Len(Universe) THEN i * size ELSE Len(Universe)
  <1>1. i \in Int /\ i >= 1
    BY DEF Slices
  <1>2. (i - 1) * size \in Nat /\ i * size \in Nat
    <2>1. i \in Nat /\ i - 1 \in Nat
      BY <1>1
    <2>2. \A x, y \in Nat : x * y \in Nat
      OBVIOUS
    <2> QED
      BY <2>1, <2>2
  <1>3. Universe \in Seq(Codes) /\ Len(Universe) \in Nat
    BY UniverseAssumption
  <1>4. from \in Int /\ from >= 1 /\ to \in Int /\ to <= Len(Universe)
    BY <1>2, <1>3
  <1>5. SubSeq(Universe, from, to) \in Seq(Codes)
    BY <1>3, <1>4, SubSeqProperties
  <1>6. Slices(size)[i] = SubSeq(Universe, from, to)
    BY DEF Slices
  <1> QED
    BY <1>5, <1>6

LEMMA PlanTyped ==
  ASSUME NEW q \in Requests, NEW i \in DOMAIN Plan(q)
  PROVE  Plan(q)[i] \in Seq(Codes)
  <1>1. q.path \in {"parallel", "sequential", "chunked"}
    BY RequestAssumption
  <1>2. CASE q.path = "sequential"
    BY <1>2, UniverseAssumption DEF Plan
  <1>3. CASE q.path = "parallel"
    <2>1. Len(Universe) \in Nat /\ Workers \in Nat \ {0}
      BY UniverseAssumption, SizeAssumption
    <2>2. (Len(Universe) + Workers - 1) \div Workers \in Nat
      BY <2>1
    <2> QED
      BY <1>3, <2>2, SliceTyped DEF Plan
  <1>4. CASE q.path = "chunked"
    BY <1>4, SizeAssumption, SliceTyped DEF Plan
  <1> QED
    BY <1>1, <1>2, <1>3, <1>4

\* Piece i of run r becomes p, and no other one changes.
Becomes(r, i, p) ==
    /\ DOMAIN work' = Runs
    /\ \A s \in Runs \ {r} : work'[s] = work[s]
    /\ DOMAIN work'[r] = DOMAIN work[r]
    /\ \A j \in Pieces(r) \ {i} : work'[r][j] = work[r][j]
    /\ work'[r][i] = p

LEMMA OnePiece ==
  ASSUME PiecesOK, NEW r \in Runs, NEW i \in Pieces(r), NEW p,
         PieceOK(req[r], p), Becomes(r, i, p), req' = req
  PROVE  PiecesOK'
  <1> SUFFICES ASSUME NEW s \in Runs, NEW j \in DOMAIN work'[s]
               PROVE  PieceOK(req[s], work'[s][j])
    BY DEF PiecesOK, Pieces
  <1>1. CASE s = r /\ j = i
    BY <1>1 DEF Becomes
  <1>2. CASE s # r \/ j # i
    BY <1>2 DEF Becomes, PiecesOK, Pieces
  <1> QED
    BY <1>1, <1>2

\* What a step that leaves the pieces and the requests alone keeps.
LEMMA SamePieces ==
  ASSUME PiecesOK, work' = work, req' = req
  PROVE  PiecesOK'
  BY DEF PiecesOK, Pieces

LEMMA SameStates ==
  ASSUME StatesAreRebuilds, states' = states
  PROVE  StatesAreRebuilds'
  BY DEF StatesAreRebuilds

-----------------------------------------------------------------------------
(* The inductive invariant.                                                *)

LEMMA InitIInv == Init => IInv
  <1> SUFFICES ASSUME Init PROVE IInv
    OBVIOUS
  <1>1. Control
    BY RequestAssumption, SizeAssumption DEF Init, Control, Pieces
  <1>2. StatesAreRebuilds
    BY LeftIsRebuild DEF Init, StatesAreRebuilds
  <1>3. PiecesOK
    BY DEF Init, PiecesOK, Pieces
  <1> QED
    BY <1>1, <1>2, <1>3 DEF IInv

LEMMA AnswerIInv ==
  ASSUME IInv, NEW r \in Runs, NEW q \in Requests, Answer(r, q)
  PROVE  IInv'
  <1>1. Control'
    BY RequestAssumption DEF IInv, Control, Answer, Pieces
  <1>2. PiecesOK'
    <2>1. Pieces(r) = {} /\ work' = work
      BY DEF IInv, Control, Answer
    <2>2. \A s \in Runs \ {r} : req'[s] = req[s]
      BY DEF IInv, Control, Answer
    <2> QED
      BY <2>1, <2>2 DEF IInv, PiecesOK, Pieces
  <1> QED
    BY <1>1, <1>2, SameStates DEF IInv, Answer

LEMMA BeginIInv ==
  ASSUME IInv, NEW r \in Runs, NEW q \in Requests, Begin(r, q)
  PROVE  IInv'
  <1>1. /\ DOMAIN work' = Runs /\ \A s \in Runs \ {r} : work'[s] = work[s] /\ req'[s] = req[s]
        /\ work'[r] = [i \in DOMAIN Plan(q) |-> Piece(Plan(q)[i])] /\ req'[r] = q
    BY DEF IInv, Control, Begin
  <1>2. Control'
    <2>1. mixed' \subseteq {RunId(x) : x \in Requests}
      BY DEF IInv, Control, Begin
    <2> QED
      BY <1>1, <2>1, RequestAssumption DEF IInv, Control, Begin, Pieces
  <1>3. PiecesOK'
    <2> SUFFICES ASSUME NEW s \in Runs, NEW j \in DOMAIN work'[s]
                 PROVE  PieceOK(req'[s], work'[s][j])
      BY DEF PiecesOK, Pieces
    <2>1. CASE s # r
      BY <1>1, <2>1 DEF IInv, PiecesOK, Pieces
    <2>2. CASE s = r
      <3>1. work'[s][j] = Piece(Plan(q)[j]) /\ Plan(q)[j] \in Seq(Codes)
        BY <1>1, <2>2, PlanTyped
      <3>2. usable \subseteq Snapshots
        BY DEF IInv, Control
      <3> QED
        BY <3>1, <3>2 DEF Piece, PieceOK
    <2> QED
      BY <2>1, <2>2
  <1> QED
    BY <1>2, <1>3, SameStates DEF IInv, Begin

LEMMA OpenIInv ==
  ASSUME IInv, NEW r \in Runs, NEW i \in Pieces(r), Open(r, i)
  PROVE  IInv'
  <1> DEFINE p == work'[r][i]
  <1>1. Becomes(r, i, p)
    BY DEF IInv, Control, Open, Becomes, Pieces
  <1>2. PieceOK(req[r], work[r][i]) /\ usable \subseteq Snapshots
    BY DEF IInv, Control, PiecesOK
  <1>3. /\ DOMAIN p = DOMAIN work[r][i] /\ p.todo = work[r][i].todo /\ p.at = "open"
        /\ p.held = work[r][i].held /\ p.trusted \in {usable, work[r][i].trusted}
    BY <1>2 DEF IInv, Control, Open, Pieces, PieceOK
  <1>4. PieceOK(req[r], p)
    BY <1>2, <1>3 DEF PieceOK
  <1>5. Control'
    BY <1>1 DEF IInv, Control, Open, Becomes, Pieces
  <1>6. PiecesOK'
    BY <1>1, <1>4, OnePiece DEF IInv, Open
  <1> QED
    BY <1>5, <1>6, SameStates DEF IInv, Open

\* A state that is loaded is what a rebuild gave, and is held unless stale.
LEMMA LoadIInv ==
  ASSUME IInv, NEW r \in Runs, NEW i \in Pieces(r), Load(r, i)
  PROVE  IInv'
  <1> DEFINE p == work'[r][i]
             st == states[Head(work[r][i].todo)]
  <1>1. Becomes(r, i, p)
    BY DEF IInv, Control, Load, Becomes, Pieces
  <1>2. PieceOK(req[r], work[r][i]) /\ work[r][i].todo # <<>>
    BY DEF IInv, PiecesOK, Load
  <1>3. /\ DOMAIN p = DOMAIN work[r][i] /\ p.todo = work[r][i].todo
        /\ p.trusted = work[r][i].trusted
        /\ \/ /\ p.at = work[r][i].at
              /\ \/ p.held = NoState
                 \/ p.held = st /\ ~Stale(req[r], Head(p.todo), st)
           \/ p.at = "failed" /\ p.held = work[r][i].held
    BY <1>2 DEF IInv, Control, Load, Pieces, PieceOK
  <1>4. PieceOK(req[r], p)
    <2>1. Head(p.todo) \in Codes
      BY <1>2, <1>3 DEF PieceOK
    <2>2. st # NoState => IsRebuild(Head(p.todo), st)
      BY <1>3, <2>1 DEF IInv, StatesAreRebuilds
    <2> QED
      BY <1>2, <1>3, <2>2 DEF PieceOK
  <1>5. Control'
    BY <1>1 DEF IInv, Control, Load, Step, Running, Becomes, Pieces
  <1>6. PiecesOK'
    BY <1>1, <1>4, OnePiece DEF IInv, Load
  <1> QED
    BY <1>5, <1>6, SameStates DEF IInv, Load

\* Where the state in hand is no longer in its file, it is a rebuild all the same.
LEMMA SaveIInv ==
  ASSUME IInv, NEW r \in Runs, NEW i \in Pieces(r), Save(r, i)
  PROVE  IInv'
  <1> DEFINE p == work[r][i]
             q == req[r]
             c == Head(p.todo)
             st == [snap |-> q.snap, commit |-> q.commit,
                    bars |-> Until(Bars[q.snap][c], q.asOf),
                    signal |-> Screened(q, c, p.held)]
  <1>1. Becomes(r, i, work'[r][i])
    BY DEF IInv, Control, Save, Becomes, Pieces
  <1>2. PieceOK(q, p) /\ p.todo # <<>> /\ p.held # NotLoaded
    BY DEF IInv, PiecesOK, Save
  <1>3. q \in Requests /\ c \in Codes
    BY <1>2 DEF IInv, Control, Save, Step, Running, PieceOK
  <1>4. /\ DOMAIN work'[r][i] = DOMAIN p /\ work'[r][i].trusted = p.trusted
        /\ \/ /\ work'[r][i].todo = Tail(p.todo) /\ work'[r][i].at = p.at
              /\ work'[r][i].held = NotLoaded
           \/ /\ work'[r][i].at = "failed" /\ work'[r][i].todo = p.todo
              /\ work'[r][i].held = p.held
    BY <1>2 DEF IInv, Control, Save, Pieces, PieceOK
  <1>5. PieceOK(q, work'[r][i])
    <2>1. Tail(p.todo) \in Seq(Codes)
      BY <1>2 DEF PieceOK
    <2> QED
      BY <1>2, <1>4, <2>1 DEF PieceOK
  <1>6. states' = [states EXCEPT ![c] = st]
    BY DEF Save
  <1>7. IsRebuild(c, st)
    <2>1. Screened(q, c, p.held) = Rebuilt(q.commit, Until(Bars[q.snap][c], q.asOf))
      BY <1>2, <1>3, ScreenedIsRebuilt DEF PieceOK
    <2>2. st = Left(q, c)
      BY <2>1 DEF Left
    <2> QED
      BY <1>3, <2>2, LeftIsRebuild
  <1>8. StatesAreRebuilds'
    <2> SUFFICES ASSUME NEW d \in Codes, states'[d] # NoState
                 PROVE  IsRebuild(d, states'[d])
      BY DEF StatesAreRebuilds
    <2>1. states'[d] = IF d = c THEN st ELSE states[d]
      BY <1>6 DEF IInv, Control
    <2> QED
      BY <1>7, <2>1 DEF IInv, StatesAreRebuilds
  <1>9. Control'
    BY <1>1, <1>6 DEF IInv, Control, Save, Step, Running, Becomes, Pieces
  <1>10. PiecesOK'
    BY <1>1, <1>5, OnePiece DEF IInv, Save
  <1> QED
    BY <1>8, <1>9, <1>10 DEF IInv

LEMMA CloseIInv ==
  ASSUME IInv, NEW r \in Runs, NEW i \in Pieces(r), Close(r, i)
  PROVE  IInv'
  <1> DEFINE p == work'[r][i]
  <1>1. Becomes(r, i, p)
    BY DEF IInv, Control, Close, Becomes, Pieces
  <1>2. PieceOK(req[r], work[r][i])
    BY DEF IInv, PiecesOK
  <1>3. /\ DOMAIN p = DOMAIN work[r][i] /\ p.todo = work[r][i].todo /\ p.at = "closed"
        /\ p.held = work[r][i].held /\ p.trusted = work[r][i].trusted
    BY <1>2 DEF IInv, Control, Close, Pieces, PieceOK
  <1>4. PieceOK(req[r], p)
    BY <1>2, <1>3 DEF PieceOK
  <1>5. Control'
    BY <1>1 DEF IInv, Control, Close, Step, Running, Becomes, Pieces
  <1>6. PiecesOK'
    BY <1>1, <1>4, OnePiece DEF IInv, Close
  <1> QED
    BY <1>5, <1>6, SameStates DEF IInv, Close

LEMMA WorkerDiesIInv ==
  ASSUME IInv, NEW r \in Runs, NEW i \in Pieces(r), WorkerDies(r, i)
  PROVE  IInv'
  <1>1. /\ DOMAIN work' = Runs /\ DOMAIN work'[r] = Pieces(r)
        /\ \A s \in Runs \ {r} : work'[s] = work[s]
        /\ \A j \in Pieces(r) :
              work'[r][j] \in {work[r][j], [work[r][j] EXCEPT !.at = "failed"]}
    BY DEF IInv, Control, WorkerDies, Pieces
  <1>2. PiecesOK'
    <2> SUFFICES ASSUME NEW s \in Runs, NEW j \in DOMAIN work'[s]
                 PROVE  PieceOK(req[s], work'[s][j])
      BY DEF PiecesOK, Pieces, WorkerDies
    <2>1. CASE s # r
      BY <1>1, <2>1 DEF IInv, PiecesOK, Pieces
    <2>2. CASE s = r
      <3>1. PieceOK(req[r], work[r][j])
        BY <1>1, <2>2 DEF IInv, PiecesOK, Pieces
      <3>2. PieceOK(req[r], [work[r][j] EXCEPT !.at = "failed"])
        BY <3>1 DEF PieceOK
      <3> QED
        BY <1>1, <2>2, <3>1, <3>2 DEF Pieces
    <2> QED
      BY <2>1, <2>2
  <1>3. deaths' \in 0..MaxDeaths
    BY SizeAssumption DEF IInv, Control, WorkerDies
  <1>4. Control'
    BY <1>1, <1>3 DEF IInv, Control, WorkerDies, Pieces
  <1> QED
    BY <1>2, <1>4, SameStates DEF IInv, WorkerDies

LEMMA MergeIInv ==
  ASSUME IInv, NEW r \in Runs, Merge(r)
  PROVE  IInv'
  <1>1. pc' \in [Runs -> {"idle", "working", "merged", "published", "done", "failed", "dead"}]
        /\ \A s \in Runs \ {r} : pc'[s] = pc[s]
    BY DEF IInv, Control, Merge
  <1>2. pc[r] = "working" /\ pc'[r] \in {"merged", "failed"} /\ Whole(r)
    BY DEF IInv, Control, Merge
  <1>3. DOMAIN tally' = Runs
    BY DEF IInv, Control, Merge
  <1>4. Control'
    BY <1>1, <1>2, <1>3 DEF IInv, Control, Merge, Pieces, Whole
  <1> QED
    BY <1>4, SamePieces, SameStates DEF IInv, Merge

LEMMA CallIInv ==
  ASSUME IInv, NEW r \in Runs, Raise(r) \/ Publish(r) \/ Finish(r) \/ Die(r)
  PROVE  IInv'
  <1>1. Control'
    <2>1. CASE Raise(r)
      BY <2>1 DEF IInv, Control, Raise, Pieces
    <2>2. CASE Publish(r)
      BY <2>2 DEF IInv, Control, Publish, Pieces
    <2>3. CASE Finish(r)
      BY <2>3 DEF IInv, Control, Finish, Pieces
    <2>4. CASE Die(r)
      <3>1. deaths' \in 0..MaxDeaths
        BY <2>4, SizeAssumption DEF IInv, Control, Die
      <3> QED
        BY <2>4, <3>1 DEF IInv, Control, Die, Pieces
    <2> QED
      BY <2>1, <2>2, <2>3, <2>4
  <1>2. work' = work /\ req' = req /\ states' = states
    BY DEF Raise, Publish, Finish, Die
  <1> QED
    BY <1>1, <1>2, SamePieces, SameStates DEF IInv

LEMMA NextIInv == IInv /\ [Next]_vars => IInv'
  <1> SUFFICES ASSUME IInv, [Next]_vars PROVE IInv'
    OBVIOUS
  <1>1. ASSUME NEW r \in Runs, NEW q \in Requests, Answer(r, q) \/ Begin(r, q)
        PROVE  IInv'
    BY <1>1, AnswerIInv, BeginIInv
  <1>2. ASSUME NEW r \in Runs, NEW i \in Pieces(r),
               \/ Open(r, i) \/ Load(r, i) \/ Save(r, i) \/ Close(r, i) \/ WorkerDies(r, i)
        PROVE  IInv'
    BY <1>2, OpenIInv, LoadIInv, SaveIInv, CloseIInv, WorkerDiesIInv
  <1>3. ASSUME NEW r \in Runs,
               Raise(r) \/ Merge(r) \/ Publish(r) \/ Finish(r) \/ Die(r)
        PROVE  IInv'
    BY <1>3, MergeIInv, CallIInv
  <1>4. ASSUME NEW s \in Snapshots, Quarantine(s)
        PROVE  IInv'
    <2>1. Control'
      BY <1>4 DEF IInv, Control, Quarantine, Pieces
    <2> QED
      BY <1>4, <2>1, SamePieces, SameStates DEF IInv, Quarantine
  <1>5. ASSUME UNCHANGED vars
        PROVE  IInv'
    <2>1. Control'
      BY <1>5 DEF IInv, Control, vars, Pieces
    <2> QED
      BY <1>5, <2>1, SamePieces, SameStates DEF IInv, vars
  <1> QED
    BY <1>1, <1>2, <1>3, <1>4, <1>5 DEF Next, Over

LEMMA InvariantHolds == Spec => []IInv
  BY InitIInv, NextIInv, PTL DEF Spec

-----------------------------------------------------------------------------
(* The theorems about the states.                                          *)

\* The variables keep their types: the progress of a run is one of a call whose
\* pieces have all come through before it goes on to a manifest.
THEOREM TypeCorrect == Spec => []TypeOK
  BY InvariantHolds, TypesFollow, PTL

\* Whatever runs overlap, die and are repeated over whatever snapshots, every
\* persisted state is what a rebuild over the snapshot it names gives.
THEOREM PersistedRebuilds == Spec => []StatesAreRebuilds
  <1>1. IInv => StatesAreRebuilds
    BY DEF IInv
  <1> QED
    BY <1>1, InvariantHolds, PTL

-----------------------------------------------------------------------------
(* Every code is in a piece.                                               *)

\* Every place of a list of n is in one of its slices of the given size.
LEMMA SliceOfPlace ==
  ASSUME NEW n \in Nat, NEW size \in Nat \ {0}, NEW k \in 1..n
  PROVE  \E i \in 1..((n + size - 1) \div size) :
            (i - 1) * size + 1 <= k /\ k <= i * size
  <1> DEFINE i == (k - 1) \div size + 1
             last == (n + size - 1) \div size
  <1>1. \A a \in Nat : /\ a \div size \in Nat
                       /\ a = size * (a \div size) + (a % size)
                       /\ a % size \in 0..(size - 1)
    OBVIOUS
  <1>2. k - 1 \in Nat /\ n + size - 1 \in Nat
    OBVIOUS
  <1>3. /\ i \in Nat /\ i >= 1 /\ last \in Nat
        /\ (i - 1) * size + 1 <= k /\ k <= i * size
    OBVIOUS
  <1>4. n <= last * size
    OBVIOUS
  <1>5. i <= last
    OBVIOUS
  <1>6. i \in 1..last
    BY <1>3, <1>5
  <1> HIDE DEF i
  <1> QED
    BY <1>3, <1>6

\* Every code is in a slice of the universe.
LEMMA SlicesCover ==
  ASSUME NEW size \in Nat \ {0}, NEW c \in Codes
  PROVE  \E i \in DOMAIN Slices(size) : \E k \in DOMAIN Slices(size)[i] :
            Slices(size)[i][k] = c
  <1>1. Universe \in Seq(Codes) /\ Len(Universe) \in Nat
    BY UniverseAssumption
  <1>2. PICK k \in 1..Len(Universe) : Universe[k] = c
    BY <1>1 DEF Codes
  <1>3. PICK i \in 1..((Len(Universe) + size - 1) \div size) :
            (i - 1) * size + 1 <= k /\ k <= i * size
    BY <1>1, SliceOfPlace
  <1> DEFINE from == (i - 1) * size + 1
             to == IF i * size < Len(Universe) THEN i * size ELSE Len(Universe)
  <1>4. i \in DOMAIN Slices(size) /\ Slices(size)[i] = SubSeq(Universe, from, to)
    BY <1>3 DEF Slices
  <1>5. from \in Int /\ from >= 1 /\ to \in Int /\ to <= Len(Universe)
        /\ from <= k /\ k <= to
    <2>1. i \in Int /\ i >= 1
      OBVIOUS
    <2>2. (i - 1) * size \in Nat /\ i * size \in Nat
      BY <2>1
    <2> QED
      BY <1>1, <1>3, <2>2
  <1> HIDE DEF from, to
  <1>6. Len(SubSeq(Universe, from, to)) = to - from + 1
        /\ \A j \in 1..(to - from + 1) : SubSeq(Universe, from, to)[j] = Universe[from + j - 1]
    BY <1>1, <1>5, SubSeqProperties
  <1>7. SubSeq(Universe, from, to) \in Seq(Codes)
    BY <1>1, <1>5, SubSeqProperties
  <1>8. k - from + 1 \in 1..(to - from + 1) /\ from + (k - from + 1) - 1 = k
    BY <1>5
  <1>9. k - from + 1 \in DOMAIN SubSeq(Universe, from, to)
    BY <1>6, <1>7, <1>8
  <1> QED
    BY <1>2, <1>4, <1>6, <1>8, <1>9

LEMMA PlanCovers ==
  ASSUME NEW q \in Requests, NEW c \in Codes
  PROVE  \E i \in DOMAIN Plan(q) : \E k \in DOMAIN Plan(q)[i] : Plan(q)[i][k] = c
  <1>1. q.path \in {"parallel", "sequential", "chunked"}
    BY RequestAssumption
  <1>2. PICK k \in DOMAIN Universe : Universe[k] = c
    BY DEF Codes
  <1>3. CASE q.path = "sequential"
    <2>1. Plan(q) = <<Universe>> /\ 1 \in DOMAIN <<Universe>> /\ <<Universe>>[1] = Universe
      BY <1>3 DEF Plan
    <2> QED
      BY <1>2, <2>1
  <1>4. CASE q.path = "parallel"
    <2>1. Len(Universe) \in Nat /\ Workers \in Nat \ {0} /\ Len(Universe) >= 1
      BY <1>2, UniverseAssumption, SizeAssumption
    <2>2. (Len(Universe) + Workers - 1) \div Workers \in Nat \ {0}
      BY <2>1
    <2>3. Plan(q) = Slices((Len(Universe) + Workers - 1) \div Workers)
      BY <1>4 DEF Plan
    <2> QED
      BY <2>2, <2>3, SlicesCover
  <1>5. CASE q.path = "chunked"
    <2>1. Plan(q) = Slices(ChunkSize)
      BY <1>5 DEF Plan
    <2> QED
      BY <2>1, SizeAssumption, SlicesCover
  <1> QED
    BY <1>1, <1>3, <1>4, <1>5

\* A nonempty set of naturals has a least element.
LEMMA LeastExists ==
  ASSUME NEW T \in SUBSET Nat, T # {}
  PROVE  \E t \in T : \A u \in T : t <= u
  <1> DEFINE R == OpToRel(<, Nat)
  <1>1. IsWellFoundedOn(R, Nat)
    BY NatLessThanWellFounded
  <1>2. \A x, y \in Nat : x < y => <<x, y>> \in R
    BY DEF OpToRel
  <1> HIDE DEF R
  <1>3. PICK t \in T : \A u \in T : ~(<<u, t>> \in R)
    BY <1>1, WFMin
  <1>4. ASSUME NEW u \in T PROVE t <= u
    <2>1. t \in Nat /\ u \in Nat /\ ~(u < t)
      BY <1>2, <1>3
    <2> QED
      BY <2>1
  <1> QED
    BY <1>4

\* A set of naturals that a natural bounds has a last element, if any.
LEMMA LastExists ==
  ASSUME NEW S \in SUBSET Nat, NEW n \in Nat, \A x \in S : x <= n, S # {}
  PROVE  \E s \in S : \A x \in S : x <= s
  <1> DEFINE T == {k \in Nat : n - k \in S}
  <1>1. PICK s \in S : TRUE
    OBVIOUS
  <1>2. n - s \in T
    <2>1. n - s \in Nat /\ n - (n - s) = s
      OBVIOUS
    <2> QED
      BY <2>1
  <1>3. PICK t \in T : \A u \in T : t <= u
    <2>1. T \in SUBSET Nat /\ T # {}
      BY <1>2
    <2> HIDE DEF T
    <2> QED
      BY <2>1, LeastExists
  <1>4. ASSUME NEW x \in S PROVE x <= n - t
    <2>1. n - x \in Nat /\ n - (n - x) = x
      OBVIOUS
    <2>2. n - x \in T
      BY <2>1
    <2>3. t <= n - x
      BY <1>3, <2>2
    <2> QED
      BY <2>1, <2>3
  <1> QED
    BY <1>3, <1>4

-----------------------------------------------------------------------------
(* The rows of a code.  Chunk children run in the formal mode whatever the *)
(* call asked for, so what follows is about chunked calls in that mode.    *)

FormalChunks == \A q \in Requests : q.path = "chunked" => q.mode = "formal"

OfCode(rows, c) == {row \in rows : row.code = c}

\* The rows a rebuild is asked for.
Complete(id, c) == {row \in Expected(id, c, 0) : row.date >= id.start}

\* What a run may list of a code: of an incremental run, the days after one.
Fits(id, c, rows) ==
    IF id.kind = "rebuild" THEN rows \subseteq Complete(id, c)
    ELSE \E day \in 0..id.asOf : rows = Expected(id, c, day)

\* The row a rebuild gives of a day.
RowAt(q, c, d) == Row(c, d, Rebuilt(q.commit, Until(Bars[q.snap][c], q.asOf)), q.mode)
DaysAfter(q, c, day) == {e \in DOMAIN Bars[q.snap][c] : day < e /\ e <= q.asOf}

LEMMA ExpectedIs ==
  ASSUME NEW q, NEW c, NEW day
  PROVE  Expected(RunId(q), c, day) = {RowAt(q, c, d) : d \in DaysAfter(q, c, day)}
  BY DEF Expected, RunId, RowAt, DaysAfter

LEMMA RowAtFields ==
  ASSUME NEW q, NEW c, NEW d
  PROVE  RowAt(q, c, d).code = c /\ RowAt(q, c, d).date = d
  BY DEF RowAt, Row

LEMMA CompleteIs ==
  ASSUME NEW q \in Requests, NEW c
  PROVE  Complete(RunId(q), c)
           = {RowAt(q, c, d) : d \in {e \in DaysAfter(q, c, 0) : e >= q.start}}
  <1>1. RunId(q).start = q.start
    BY DEF RunId
  <1> QED
    BY <1>1, ExpectedIs, RowAtFields DEF Complete

\* Later days of a run are among its earlier ones.
LEMMA ExpectedShrinks ==
  ASSUME NEW q \in Requests, NEW c \in Codes, NEW a \in Nat, NEW b \in Nat, a <= b
  PROVE  Expected(RunId(q), c, b) \subseteq Expected(RunId(q), c, a)
  <1>1. DOMAIN Bars[q.snap][c] \subseteq Nat
    BY RequestAssumption, DayAssumption
  <1>2. DaysAfter(q, c, b) \subseteq DaysAfter(q, c, a)
    BY <1>1 DEF DaysAfter
  <1> QED
    BY <1>2, ExpectedIs

\* Nothing is after the last day.
LEMMA ExpectedNothing ==
  ASSUME NEW q \in Requests, NEW c \in Codes
  PROVE  Expected(RunId(q), c, q.asOf) = {}
  <1>1. DOMAIN Bars[q.snap][c] \subseteq Nat /\ q.asOf \in Nat
    BY RequestAssumption, DayAssumption
  <1>2. DaysAfter(q, c, q.asOf) = {}
    BY <1>1 DEF DaysAfter
  <1> QED
    BY <1>2, ExpectedIs

LEMMA NothingFits ==
  ASSUME NEW q \in Requests, NEW c \in Codes
  PROVE  Fits(RunId(q), c, {})
  <1>1. RunId(q).asOf = q.asOf /\ q.asOf \in 0..q.asOf
    BY RequestAssumption DEF RunId
  <1> QED
    BY <1>1, ExpectedNothing DEF Fits

\* What fits twice fits together.
LEMMA UnionFits ==
  ASSUME NEW q \in Requests, NEW c \in Codes, NEW R, NEW S,
         Fits(RunId(q), c, R), Fits(RunId(q), c, S)
  PROVE  Fits(RunId(q), c, R \cup S)
  <1>1. CASE RunId(q).kind = "rebuild"
    BY <1>1 DEF Fits
  <1>2. CASE RunId(q).kind # "rebuild"
    <2>1. RunId(q).asOf \in Nat
      BY RequestAssumption DEF RunId
    <2>2. PICK a \in 0..RunId(q).asOf : R = Expected(RunId(q), c, a)
      BY <1>2 DEF Fits
    <2>3. PICK b \in 0..RunId(q).asOf : S = Expected(RunId(q), c, b)
      BY <1>2 DEF Fits
    <2>4. a \in Nat /\ b \in Nat
      BY <2>1
    <2>5. CASE a <= b
      BY <1>2, <2>2, <2>3, <2>4, <2>5, ExpectedShrinks DEF Fits
    <2>6. CASE b <= a
      BY <1>2, <2>2, <2>3, <2>4, <2>6, ExpectedShrinks DEF Fits
    <2> QED
      BY <2>4, <2>5, <2>6
  <1> QED
    BY <1>1, <1>2

\* The rows of a code are those after the last day that the state has reached.
LEMMA RowsOfFit ==
  ASSUME FormalChunks, NEW q \in Requests, NEW c \in Codes, NEW held,
         held # NoState => IsRebuild(c, held) /\ ~Stale(q, c, held),
         q.kind = "rebuild" => held = NoState
  PROVE  /\ Fits(RunId(q), c, RowsOf(q, c, held))
         /\ q.kind = "rebuild" => Complete(RunId(q), c) \subseteq RowsOf(q, c, held)
         /\ \A row \in RowsOf(q, c, held) : row.code = c
  <1> DEFINE all == Bars[q.snap][c]
             new == {e \in DOMAIN Until(all, q.asOf) :
                       ~Reached(held, e) /\ (q.kind = "rebuild" => e >= q.start)}
  <1>1. DOMAIN all \subseteq Nat \ {0} /\ q.asOf \in Nat
    BY RequestAssumption, DayAssumption
  <1>2. RowsOf(q, c, held) = {RowAt(q, c, d) : d \in new}
    <2>1. Screened(q, c, held) = Rebuilt(q.commit, Until(all, q.asOf))
      BY ScreenedIsRebuilt
    <2>2. RowMode(q) = q.mode
      BY DEF FormalChunks, RowMode
    <2> QED
      BY <2>1, <2>2 DEF RowsOf, RowAt
  <1>3. DOMAIN Until(all, q.asOf) = DaysAfter(q, c, 0)
    BY <1>1 DEF Until, DaysAfter
  <1>4. \A row \in RowsOf(q, c, held) : row.code = c
    BY <1>2, RowAtFields
  <1>5. CASE q.kind = "rebuild"
    <2>1. new = {e \in DaysAfter(q, c, 0) : e >= q.start}
      BY <1>3, <1>5 DEF Reached
    <2>2. RowsOf(q, c, held) = Complete(RunId(q), c)
      BY <1>2, <2>1, CompleteIs
    <2> QED
      BY <1>4, <1>5, <2>2 DEF Fits, RunId
  <1>6. CASE q.kind # "rebuild" /\ (held = NoState \/ DOMAIN held.signal = {})
    <2>1. new = DaysAfter(q, c, 0)
      BY <1>3, <1>6 DEF Reached
    <2>2. RowsOf(q, c, held) = Expected(RunId(q), c, 0)
      BY <1>2, <2>1, ExpectedIs
    <2>3. 0 \in 0..RunId(q).asOf /\ RunId(q).kind # "rebuild"
      BY <1>1, <1>6 DEF RunId
    <2> QED
      BY <1>4, <1>6, <2>2, <2>3 DEF Fits
  <1>7. CASE q.kind # "rebuild" /\ held # NoState /\ DOMAIN held.signal # {}
    <2>1. \A e \in DOMAIN held.signal : ~(e > q.asOf)
      BY <1>7 DEF Stale
    <2>2. DOMAIN held.signal \subseteq Nat
      <3>1. DOMAIN held.bars \subseteq Nat /\ DOMAIN held.signal = DOMAIN held.bars
        BY <1>7, DayAssumption DEF IsRebuild, Begins, Rebuilt
      <3> QED
        BY <3>1
    <2>3. \A e \in DOMAIN held.signal : e <= q.asOf
      BY <1>1, <2>1, <2>2
    <2>4. PICK last \in DOMAIN held.signal : \A e \in DOMAIN held.signal : e <= last
      BY <1>1, <1>7, <2>2, <2>3, LastExists
    <2>5. last \in Nat /\ last <= q.asOf
      BY <2>2, <2>3
    <2>6. \A d \in Nat : Reached(held, d) <=> d <= last
      BY <1>7, <2>2, <2>4 DEF Reached
    <2>7. new = DaysAfter(q, c, last)
      BY <1>1, <1>3, <1>7, <2>5, <2>6 DEF DaysAfter
    <2>8. RowsOf(q, c, held) = Expected(RunId(q), c, last)
      BY <1>2, <2>7, ExpectedIs
    <2>9. last \in 0..RunId(q).asOf /\ RunId(q).kind # "rebuild"
      BY <1>1, <1>7, <2>5 DEF RunId
    <2> QED
      BY <1>4, <1>7, <2>8, <2>9 DEF Fits
  <1> QED
    BY <1>5, <1>6, <1>7

-----------------------------------------------------------------------------
(* The rows of the pieces.                                                 *)

\* What the rows of a piece, which was given the codes, are: of every code they
\* fit, and a rebuild has all those of the codes it has done.
PieceListed(q, codes, p) ==
    /\ p.at = "closed" => p.todo = <<>>
    /\ q.kind = "rebuild" => p.held \in {NotLoaded, NoState}
    /\ \A c \in Codes : Fits(RunId(q), c, OfCode(p.rows, c))
    /\ q.kind = "rebuild" =>
         \A k \in DOMAIN codes :
            \/ \E l \in DOMAIN p.todo : p.todo[l] = codes[k]
            \/ Complete(RunId(q), codes[k]) \subseteq p.rows

AtWork == {"working", "merged"}

Listing(r) ==
    pc[r] \in AtWork =>
        /\ Pieces(r) = DOMAIN Plan(req[r])
        /\ \A i \in Pieces(r) : PieceListed(req[r], Plan(req[r])[i], work[r][i])

LEMMA SameListing ==
  ASSUME NEW r \in Runs, Listing(r), work'[r] = work[r], req'[r] = req[r],
         pc'[r] \in AtWork => pc[r] \in AtWork
  PROVE  Listing(r)'
  BY DEF Listing, Pieces

LEMMA OneListing ==
  ASSUME NEW r \in Runs, Listing(r), pc[r] = "working", NEW i \in Pieces(r),
         Becomes(r, i, work'[r][i]),
         PieceListed(req[r], Plan(req[r])[i], work'[r][i]), req' = req, pc' = pc
  PROVE  Listing(r)'
  <1> USE DEF AtWork
  <1>1. Pieces(r)' = Pieces(r) /\ Pieces(r) = DOMAIN Plan(req[r])
    BY DEF Listing, Becomes, Pieces
  <1>2. \A j \in Pieces(r) : PieceListed(req[r], Plan(req[r])[j], work'[r][j])
    BY DEF Listing, Becomes
  <1> QED
    BY <1>1, <1>2 DEF Listing

\* A piece that starts has no row yet.
LEMMA BeginListing ==
  ASSUME IInv, NEW r \in Runs, NEW q \in Requests, Begin(r, q)
  PROVE  Listing(r)'
  <1>1. work'[r] = [i \in DOMAIN Plan(q) |-> Piece(Plan(q)[i])] /\ req'[r] = q
    BY DEF IInv, Control, Begin
  <1>2. ASSUME NEW i \in DOMAIN Plan(q)
        PROVE  PieceListed(q, Plan(q)[i], Piece(Plan(q)[i]))
    <2>1. \A c \in Codes : Fits(RunId(q), c, OfCode({}, c))
      BY NothingFits DEF OfCode
    <2> QED
      BY <2>1 DEF Piece, PieceListed
  <1> QED
    BY <1>1, <1>2 DEF Listing, Pieces

LEMMA OpenListing ==
  ASSUME IInv, NEW r \in Runs, NEW i \in Pieces(r), Listing(r), Open(r, i)
  PROVE  Listing(r)'
  <1>1. Becomes(r, i, work'[r][i]) /\ pc[r] = "working"
    BY DEF IInv, Control, Open, Becomes, Pieces
  <1>2. PieceOK(req[r], work[r][i])
    BY DEF IInv, PiecesOK
  <1>3. /\ work'[r][i].todo = work[r][i].todo /\ work'[r][i].at = "open"
        /\ work'[r][i].held = work[r][i].held /\ work'[r][i].rows = work[r][i].rows
    BY <1>2 DEF IInv, Control, Open, Pieces, PieceOK
  <1>4. PieceListed(req[r], Plan(req[r])[i], work'[r][i])
    BY <1>1, <1>3 DEF Listing, AtWork, PieceListed
  <1> QED
    BY <1>1, <1>4, OneListing DEF Open

LEMMA LoadListing ==
  ASSUME IInv, NEW r \in Runs, NEW i \in Pieces(r), Listing(r), Load(r, i)
  PROVE  Listing(r)'
  <1>1. Becomes(r, i, work'[r][i])
    BY DEF IInv, Control, Load, Becomes, Pieces
  <1>2. PieceOK(req[r], work[r][i])
    BY DEF IInv, PiecesOK
  <1>3. /\ work'[r][i].todo = work[r][i].todo /\ work'[r][i].rows = work[r][i].rows
        /\ work'[r][i].at \in {work[r][i].at, "failed"}
        /\ \/ work'[r][i].held = work[r][i].held
           \/ req[r].kind = "rebuild" => work'[r][i].held = NoState
    BY <1>2, RequestAssumption DEF IInv, Control, Load, Pieces, PieceOK
  <1>4. CASE pc[r] = "working"
    <2>1. PieceListed(req[r], Plan(req[r])[i], work'[r][i])
      BY <1>3, <1>4 DEF Listing, AtWork, PieceListed
    <2> QED
      BY <1>1, <1>4, <2>1, OneListing DEF Load
  <1>5. CASE pc[r] # "working"
    BY <1>5 DEF Load, Step, Listing, AtWork
  <1> QED
    BY <1>4, <1>5

LEMMA CloseListing ==
  ASSUME IInv, NEW r \in Runs, NEW i \in Pieces(r), Listing(r), Close(r, i)
  PROVE  Listing(r)'
  <1>1. Becomes(r, i, work'[r][i])
    BY DEF IInv, Control, Close, Becomes, Pieces
  <1>2. PieceOK(req[r], work[r][i])
    BY DEF IInv, PiecesOK
  <1>3. /\ work'[r][i].todo = <<>> /\ work[r][i].todo = <<>>
        /\ work'[r][i].held = work[r][i].held /\ work'[r][i].rows = work[r][i].rows
    BY <1>2 DEF IInv, Control, Close, Pieces, PieceOK
  <1>4. CASE pc[r] = "working"
    <2>1. PieceListed(req[r], Plan(req[r])[i], work'[r][i])
      BY <1>3, <1>4 DEF Listing, AtWork, PieceListed
    <2> QED
      BY <1>1, <1>4, <2>1, OneListing DEF Close
  <1>5. CASE pc[r] # "working"
    BY <1>5 DEF Close, Step, Listing, AtWork
  <1> QED
    BY <1>4, <1>5

LEMMA WorkerDiesListing ==
  ASSUME IInv, NEW r \in Runs, NEW i \in Pieces(r), Listing(r), WorkerDies(r, i)
  PROVE  Listing(r)'
  <1>1. /\ DOMAIN work'[r] = Pieces(r) /\ req' = req /\ pc' = pc /\ pc[r] = "working"
        /\ \A j \in Pieces(r) :
              work'[r][j] \in {work[r][j], [work[r][j] EXCEPT !.at = "failed"]}
    BY DEF IInv, Control, WorkerDies, Pieces
  <1>2. ASSUME NEW j \in Pieces(r)
        PROVE  PieceListed(req[r], Plan(req[r])[j], work'[r][j])
    <2>1. PieceListed(req[r], Plan(req[r])[j], work[r][j]) /\ PieceOK(req[r], work[r][j])
      BY <1>1 DEF Listing, AtWork, IInv, PiecesOK
    <2>2. PieceListed(req[r], Plan(req[r])[j], [work[r][j] EXCEPT !.at = "failed"])
      BY <2>1 DEF PieceListed, PieceOK
    <2> QED
      BY <1>1, <2>1, <2>2
  <1> QED
    BY <1>1, <1>2 DEF Listing, AtWork, Pieces

\* The code that is saved has its rows, those of a rebuild from the state held.
LEMMA SaveListing ==
  ASSUME FormalChunks, IInv, NEW r \in Runs, NEW i \in Pieces(r), Listing(r), Save(r, i)
  PROVE  Listing(r)'
  <1> DEFINE p == work[r][i]
             q == req[r]
             c == Head(p.todo)
             new == RowsOf(q, c, p.held)
             codes == Plan(q)[i]
  <1>1. Becomes(r, i, work'[r][i]) /\ req' = req /\ pc' = pc
    BY DEF IInv, Control, Save, Becomes, Pieces
  <1>2. PieceOK(q, p) /\ p.todo # <<>> /\ p.held # NotLoaded
    BY DEF IInv, PiecesOK, Save
  <1>3. q \in Requests /\ c \in Codes
    BY <1>2 DEF IInv, Control, Save, Step, Running, PieceOK
  <1>4. CASE pc[r] = "working"
    <2>0. PieceListed(q, codes, p)
      BY <1>4 DEF Listing, AtWork
    <2>1. \/ /\ work'[r][i].todo = Tail(p.todo) /\ work'[r][i].at = p.at
             /\ work'[r][i].held = NotLoaded /\ work'[r][i].rows = p.rows \cup new
             /\ p.at = "open"
          \/ /\ work'[r][i].at = "failed" /\ work'[r][i].todo = p.todo
             /\ work'[r][i].held = p.held /\ work'[r][i].rows = p.rows
      BY <1>2 DEF IInv, Control, Save, Pieces, PieceOK, Step, Running
    <2>2. /\ Fits(RunId(q), c, new)
          /\ q.kind = "rebuild" => Complete(RunId(q), c) \subseteq new
          /\ \A row \in new : row.code = c
      <3>1. p.held # NoState => IsRebuild(c, p.held) /\ ~Stale(q, c, p.held)
        BY <1>2 DEF PieceOK
      <3>2. q.kind = "rebuild" => p.held = NoState
        BY <1>2, <2>0 DEF PieceListed
      <3> QED
        BY <1>3, <3>1, <3>2, RowsOfFit
    <2>3. ASSUME NEW d \in Codes
          PROVE  Fits(RunId(q), d, OfCode(p.rows \cup new, d))
      <3>0. Fits(RunId(q), d, OfCode(p.rows, d))
        BY <2>0 DEF PieceListed
      <3>1. CASE d = c
        <4>1. OfCode(p.rows \cup new, d) = OfCode(p.rows, d) \cup new
          BY <2>2, <3>1 DEF OfCode
        <4>2. Fits(RunId(q), d, new) /\ q \in Requests
          BY <1>3, <2>2, <3>1
        <4> HIDE DEF new, q, c, p
        <4>3. Fits(RunId(q), d, OfCode(p.rows, d) \cup new)
          BY <3>0, <4>2, UnionFits
        <4> QED
          BY <4>1, <4>3
      <3>2. CASE d # c
        <4>1. OfCode(p.rows \cup new, d) = OfCode(p.rows, d)
          BY <2>2, <3>2 DEF OfCode
        <4> QED
          BY <3>0, <4>1
      <3> QED
        BY <3>1, <3>2
    <2>4. ASSUME q.kind = "rebuild", NEW k \in DOMAIN codes
          PROVE  \/ \E l \in DOMAIN Tail(p.todo) : Tail(p.todo)[l] = codes[k]
                 \/ Complete(RunId(q), codes[k]) \subseteq p.rows \cup new
      <3>1. CASE Complete(RunId(q), codes[k]) \subseteq p.rows
        BY <3>1
      <3>2. ASSUME NEW l \in DOMAIN p.todo, p.todo[l] = codes[k], l = 1
            PROVE  Complete(RunId(q), codes[k]) \subseteq new
        <4>1. codes[k] = c
          BY <1>2, <3>2 DEF PieceOK
        <4> QED
          BY <2>2, <2>4, <4>1
      <3>3. ASSUME NEW l \in DOMAIN p.todo, p.todo[l] = codes[k], l # 1
            PROVE  \E m \in DOMAIN Tail(p.todo) : Tail(p.todo)[m] = codes[k]
        <4>1. /\ p.todo \in Seq(Codes) /\ l \in 2..Len(p.todo)
              /\ Tail(p.todo) \in Seq(Codes) /\ Len(Tail(p.todo)) = Len(p.todo) - 1
          BY <1>2, <3>3 DEF PieceOK
        <4>2. l - 1 \in 1..Len(Tail(p.todo)) /\ Tail(p.todo)[l - 1] = p.todo[l]
          BY <4>1
        <4> QED
          BY <3>3, <4>1, <4>2
      <3> QED
        BY <2>0, <2>4, <3>1, <3>2, <3>3 DEF PieceListed
    <2>5. PieceListed(q, codes, work'[r][i])
      <3>1. CASE work'[r][i].at = "failed"
        BY <2>0, <2>1, <2>3, <2>4, <3>1 DEF PieceListed
      <3>2. CASE work'[r][i].at # "failed"
        <4> HIDE DEF new, codes
        <4> QED
          BY <2>1, <2>3, <2>4, <3>2 DEF PieceListed
      <3> QED
        BY <3>1, <3>2
    <2> QED
      BY <1>1, <1>4, <2>5, OneListing
  <1>5. CASE pc[r] # "working"
    BY <1>1, <1>5 DEF Save, Step, Listing, AtWork
  <1> QED
    BY <1>4, <1>5

\* What a manifest of the id is to list.
Lists(id, rows) ==
    \A c \in Codes :
        IF id.kind = "rebuild" THEN OfCode(rows, c) = Complete(id, c)
        ELSE \E day \in 0..id.asOf : OfCode(rows, c) = Expected(id, c, day)

\* Once all its pieces have come through, a call has the rows it was asked for.
LEMMA WholeLists ==
  ASSUME IInv, NEW r \in Runs, Listing(r), pc[r] \in AtWork, Whole(r)
  PROVE  Lists(RunId(req[r]), AllRows(r))
  <1> DEFINE q == req[r]
  <1>1. q \in Requests
    BY DEF IInv, Control, AtWork
  <1>2. \A i \in Pieces(r) : PieceListed(q, Plan(q)[i], work[r][i]) /\ work[r][i].todo = <<>>
    BY DEF Listing, Whole, PieceListed
  <1>3. Pieces(r) = DOMAIN Plan(q)
    BY DEF Listing
  <1> SUFFICES ASSUME NEW c \in Codes
               PROVE  IF RunId(q).kind = "rebuild"
                        THEN OfCode(AllRows(r), c) = Complete(RunId(q), c)
                        ELSE \E day \in 0..RunId(q).asOf :
                                OfCode(AllRows(r), c) = Expected(RunId(q), c, day)
    BY DEF Lists
  <1>4. \A row : row \in OfCode(AllRows(r), c)
                   <=> \E i \in Pieces(r) : row \in OfCode(work[r][i].rows, c)
    BY DEF OfCode, AllRows
  <1>5. \A i \in Pieces(r) : Fits(RunId(q), c, OfCode(work[r][i].rows, c))
    BY <1>2 DEF PieceListed
  <1>6. CASE RunId(q).kind = "rebuild"
    <2>1. OfCode(AllRows(r), c) \subseteq Complete(RunId(q), c)
      BY <1>4, <1>5, <1>6 DEF Fits
    <2>2. PICK i \in DOMAIN Plan(q) : \E k \in DOMAIN Plan(q)[i] : Plan(q)[i][k] = c
      BY <1>1, PlanCovers
    <2>3. q.kind = "rebuild"
      BY <1>6 DEF RunId
    <2>4. Complete(RunId(q), c) \subseteq work[r][i].rows
      BY <1>2, <1>3, <2>2, <2>3 DEF PieceListed
    <2>5. \A row \in Complete(RunId(q), c) : row.code = c
      BY <1>1, CompleteIs, RowAtFields
    <2>6. Complete(RunId(q), c) \subseteq OfCode(AllRows(r), c)
      BY <1>3, <1>4, <2>2, <2>4, <2>5 DEF OfCode
    <2> QED
      BY <1>6, <2>1, <2>6
  <1>7. CASE RunId(q).kind # "rebuild"
    <2> DEFINE T == {day \in 0..RunId(q).asOf :
                       \E i \in Pieces(r) :
                          OfCode(work[r][i].rows, c) = Expected(RunId(q), c, day)}
    <2>1. RunId(q).asOf \in Nat /\ RunId(q).asOf = q.asOf
      BY <1>1, RequestAssumption DEF RunId
    <2>2. CASE Pieces(r) = {}
      <3>1. OfCode(AllRows(r), c) = {}
        BY <1>4, <2>2
      <3>2. RunId(q).asOf \in 0..RunId(q).asOf
        BY <2>1
      <3> QED
        BY <1>1, <1>7, <2>1, <3>1, <3>2, ExpectedNothing
    <2>3. CASE Pieces(r) # {}
      <3>1. \A i \in Pieces(r) : \E day \in T :
               OfCode(work[r][i].rows, c) = Expected(RunId(q), c, day)
        BY <1>5, <1>7 DEF Fits
      <3>2. T \in SUBSET Nat /\ T # {}
        BY <2>1, <2>3, <3>1
      <3>3. PICK day \in T : \A u \in T : day <= u
        <4> HIDE DEF T
        <4> QED
          BY <3>2, LeastExists
      <3>4. ASSUME NEW i \in Pieces(r)
            PROVE  OfCode(work[r][i].rows, c) \subseteq Expected(RunId(q), c, day)
        <4>1. PICK u \in T : OfCode(work[r][i].rows, c) = Expected(RunId(q), c, u)
          BY <3>1
        <4>2. day \in Nat /\ u \in Nat /\ day <= u
          BY <3>2, <3>3
        <4> HIDE DEF T
        <4> QED
          BY <1>1, <4>1, <4>2, ExpectedShrinks
      <3>5. \E i \in Pieces(r) : OfCode(work[r][i].rows, c) = Expected(RunId(q), c, day)
        OBVIOUS
      <3>6. OfCode(AllRows(r), c) = Expected(RunId(q), c, day)
        BY <1>4, <3>4, <3>5
      <3> QED
        BY <1>7, <3>6
    <2> QED
      BY <2>2, <2>3
  <1> QED
    BY <1>6, <1>7

-----------------------------------------------------------------------------
(* The files of an id.                                                     *)

\* Two calls of an id that are alive at once have been seen to be.
Sharing ==
    \A r, s \in Runs : r # s /\ Alive(r) /\ Alive(s) /\ RunId(req[r]) = RunId(req[s])
                         => RunId(req[r]) \in mixed

\* The steps of a call that has begun.
Moves(r) ==
    \/ \E i \in Pieces(r) :
          Open(r, i) \/ Load(r, i) \/ Save(r, i) \/ Close(r, i) \/ WorkerDies(r, i)
    \/ Raise(r) \/ Merge(r) \/ Publish(r) \/ Finish(r) \/ Die(r)

\* A step is one of a single call, of governance, or of nobody.
LEMMA WhoMoves ==
  ASSUME [Next]_vars
  PROVE  \/ \E r \in Runs : \E q \in Requests : Answer(r, q) \/ Begin(r, q)
         \/ \E r \in Runs : Moves(r)
         \/ UNCHANGED <<states, files, manifests, pc, req, work, tally, mixed>>
  BY DEF Next, Moves, Quarantine, Over, vars

\* Who moves was alive, keeps its request, and mixes nothing.
LEMMA MovesAlive ==
  ASSUME IInv, NEW r \in Runs, Moves(r)
  PROVE  /\ Alive(r) /\ req' = req /\ mixed' = mixed
         /\ \A s \in Runs \ {r} :
               pc'[s] = pc[s] /\ work'[s] = work[s] /\ tally'[s] = tally[s]
  <1>1. CASE \E i \in Pieces(r) :
               Open(r, i) \/ Load(r, i) \/ Save(r, i) \/ Close(r, i) \/ WorkerDies(r, i)
    BY <1>1 DEF IInv, Control, Open, Load, Save, Close, WorkerDies, Step, Alive
  <1>2. CASE Raise(r) \/ Merge(r) \/ Publish(r) \/ Finish(r) \/ Die(r)
    BY <1>2 DEF IInv, Control, Raise, Merge, Publish, Finish, Die, Alive
  <1> QED
    BY <1>1, <1>2 DEF Moves

\* Nobody else has come alive.
LEMMA NobodyRevives ==
  ASSUME IInv, NEW r \in Runs, NEW s \in Runs, Moves(r), Alive(s)'
  PROVE  Alive(s)
  <1>1. CASE s # r
    BY <1>1, MovesAlive DEF Alive, Running
  <1>2. CASE s = r
    BY <1>2, MovesAlive
  <1> QED
    BY <1>1, <1>2

LEMMA SharingNext ==
  ASSUME IInv, Sharing, [Next]_vars
  PROVE  Sharing'
  <1>1. ASSUME NEW r \in Runs, Moves(r) PROVE Sharing'
    BY <1>1, MovesAlive, NobodyRevives DEF Sharing
  <1>2. ASSUME NEW r \in Runs, NEW q \in Requests, Answer(r, q) PROVE Sharing'
    <2>1. \A s \in Runs : Alive(s)' => Alive(s) /\ s # r /\ req'[s] = req[s]
      BY <1>2 DEF IInv, Control, Answer, Alive, Running
    <2>2. mixed' = mixed
      BY <1>2 DEF Answer
    <2> QED
      BY <2>1, <2>2 DEF Sharing
  <1>3. ASSUME NEW r \in Runs, NEW q \in Requests, Begin(r, q) PROVE Sharing'
    <2>1. \A s \in Runs \ {r} : (Alive(s)' => Alive(s)) /\ req'[s] = req[s]
      BY <1>3 DEF IInv, Control, Begin, Alive, Running
    <2>2. req'[r] = q /\ mixed \subseteq mixed'
      BY <1>3 DEF IInv, Control, Begin
    <2>3. \A s \in Runs : Alive(s) /\ RunId(req[s]) = RunId(q) => RunId(q) \in mixed'
      BY <1>3 DEF Begin
    <2> QED
      BY <2>1, <2>2, <2>3 DEF Sharing
  <1>4. CASE UNCHANGED <<states, files, manifests, pc, req, work, tally, mixed>>
    BY <1>4 DEF Sharing, Alive, Running
  <1> QED
    BY <1>1, <1>2, <1>3, <1>4, WhoMoves

\* A file that no step has touched.
Untouched(n) ==
    /\ n \in DOMAIN files' <=> n \in DOMAIN files
    /\ n \in DOMAIN files => files'[n] = files[n]

\* The spools of a call bear its id.
LEMMA SpoolId ==
  ASSUME NEW q, NEW i
  PROVE  /\ Spool(q, i).id = RunId(q) /\ Merged(q).id = RunId(q)
         /\ q.path # "parallel" => Spool(q, i) = Merged(q)
         /\ Spool(q, i).chunks = (q.path = "chunked")
         /\ q.path = "parallel" => Spool(q, i).index = i
  BY DEF Spool, Merged

LEMMA WithOne ==
  ASSUME NEW n, NEW rows, files' = With(n, rows)
  PROVE  /\ n \in DOMAIN files' /\ files'[n] = rows
         /\ \A m : m # n => Untouched(m)
  BY DEF With, Untouched

LEMMA WithoutSome ==
  ASSUME NEW names, files' = Without(names)
  PROVE  /\ \A n \in names : n \notin DOMAIN files'
         /\ \A m : m \notin names => Untouched(m)
  BY DEF Without, Untouched

LEMMA SameFiles ==
  ASSUME files' = files
  PROVE  \A n : Untouched(n)
  BY DEF Untouched

\* A call touches files of its own id only.
LEMMA FilesElsewhere ==
  ASSUME IInv, NEW r \in Runs, Moves(r), NEW n, n.id # RunId(req[r])
  PROVE  Untouched(n)
  <1>0. \A i : n # Spool(req[r], i) /\ n # Merged(req[r])
    BY SpoolId
  <1>1. ASSUME NEW i \in Pieces(r), Open(r, i) PROVE Untouched(n)
    BY <1>0, <1>1, WithOne, SameFiles DEF Open
  <1>2. ASSUME NEW i \in Pieces(r), Load(r, i) PROVE Untouched(n)
    <2>1. \/ files' = files \/ files' = Without({Spool(req[r], i)})
          \/ \E rows : files' = With(Spool(req[r], i), rows)
      BY <1>2 DEF Load
    <2> QED
      BY <1>0, <2>1, WithOne, WithoutSome, SameFiles
  <1>3. ASSUME NEW i \in Pieces(r), Save(r, i) PROVE Untouched(n)
    <2>1. files' = files \/ files' = Without({Spool(req[r], i)})
      BY <1>3 DEF Save
    <2> QED
      BY <1>0, <2>1, WithoutSome, SameFiles
  <1>4. ASSUME NEW i \in Pieces(r), Close(r, i) PROVE Untouched(n)
    <2>1. \/ files' = files
          \/ \E rows : files' = With(Spool(req[r], i), rows)
      BY <1>4 DEF Close
    <2> QED
      BY <1>0, <2>1, WithOne, SameFiles
  <1>5. CASE Raise(r) \/ Finish(r)
    <2>1. files' = files \/ files' = Without({Merged(req[r])})
      BY <1>5 DEF Raise, Finish
    <2> QED
      BY <1>0, <2>1, WithoutSome, SameFiles
  <1>6. CASE Merge(r)
    <2>1. CASE req[r].path # "parallel"
      BY <1>6, <2>1, SameFiles DEF Merge
    <2>2. CASE req[r].path = "parallel"
      BY <1>0, <1>6, <2>2 DEF Merge, Untouched
    <2> QED
      BY <2>1, <2>2
  <1>7. CASE (\E i \in Pieces(r) : WorkerDies(r, i)) \/ Publish(r) \/ Die(r)
    BY <1>7, SameFiles DEF WorkerDies, Publish, Die
  <1> QED
    BY <1>1, <1>2, <1>3, <1>4, <1>5, <1>6, <1>7 DEF Moves

\* The spool of a piece that is open, or has come through.
PieceSpool(n, p) ==
    n \in DOMAIN files =>
        /\ p.at = "open" => files[n] = {}
        /\ p.at = "closed" => files[n] = p.rows

Closed(r) == {i \in Pieces(r) : work[r][i].at = "closed"}

\* What is in the spools of a call whose id it has for itself.
SpoolsHold(r) ==
    /\ pc[r] = "working" /\ req[r].path # "chunked" =>
         \A i \in Pieces(r) : PieceSpool(Spool(req[r], i), work[r][i])
    /\ pc[r] = "working" /\ req[r].path = "chunked" =>
         \/ \E i \in Pieces(r) : work[r][i].at = "failed"
         \/ Merged(req[r]) \in DOMAIN files =>
              files[Merged(req[r])] = UNION {work[r][i].rows : i \in Closed(r)}
    /\ pc[r] = "merged" =>
         /\ tally[r] = [count |-> Cardinality(AllRows(r)), hash |-> AllRows(r)]
         /\ Merged(req[r]) \in DOMAIN files => files[Merged(req[r])] = AllRows(r)

\* The manifest that a verifying call returns with.
Verifies(r) ==
    pc[r] = "published" /\ req[r].path = "sequential" =>
        \E m \in manifests : m.id = RunId(req[r]) /\ m.verified

\* What a call keeps whose files nobody touches.
LEMMA OthersSpools ==
  ASSUME NEW r \in Runs, SpoolsHold(r),
         \A n : n.id = RunId(req[r]) => Untouched(n),
         pc'[r] = pc[r], work'[r] = work[r], tally'[r] = tally[r], req'[r] = req[r]
  PROVE  SpoolsHold(r)'
  <1>1. \A i : Untouched(Spool(req[r], i)) /\ Untouched(Merged(req[r]))
    BY SpoolId
  <1>2. /\ Pieces(r)' = Pieces(r) /\ AllRows(r)' = AllRows(r) /\ Closed(r)' = Closed(r)
    BY DEF Pieces, AllRows, Closed
  <1>3. \A i : Spool(req[r], i)' = Spool(req[r], i) /\ Merged(req[r])' = Merged(req[r])
    BY DEF Spool, Merged, RunId
  <1>4. (pc[r] = "working" /\ req[r].path # "chunked" =>
           \A i \in Pieces(r) : PieceSpool(Spool(req[r], i), work[r][i]))'
    BY <1>1, <1>2, <1>3 DEF SpoolsHold, PieceSpool, Untouched
  <1>5. (pc[r] = "working" /\ req[r].path = "chunked" =>
           \/ \E i \in Pieces(r) : work[r][i].at = "failed"
           \/ Merged(req[r]) \in DOMAIN files =>
                files[Merged(req[r])] = UNION {work[r][i].rows : i \in Closed(r)})'
    BY <1>1, <1>2, <1>3 DEF SpoolsHold, Untouched
  <1>6. (pc[r] = "merged" =>
           /\ tally[r] = [count |-> Cardinality(AllRows(r)), hash |-> AllRows(r)]
           /\ Merged(req[r]) \in DOMAIN files => files[Merged(req[r])] = AllRows(r))'
    BY <1>1, <1>2, <1>3 DEF SpoolsHold, Untouched
  <1> QED
    BY <1>4, <1>5, <1>6 DEF SpoolsHold

\* A spool belongs to one piece, unless the call is chunked.
LEMMA OwnSpool ==
  ASSUME IInv, NEW r \in Runs, pc[r] = "working", Listing(r), req[r].path # "chunked",
         NEW i \in Pieces(r), NEW j \in Pieces(r), i # j
  PROVE  Spool(req[r], i) # Spool(req[r], j)
  <1>1. req[r].path \in {"parallel", "sequential"}
    BY RequestAssumption DEF IInv, Control
  <1>2. req[r].path # "sequential"
    <2> SUFFICES ASSUME req[r].path = "sequential" PROVE FALSE
      OBVIOUS
    <2>1. Plan(req[r]) = <<Universe>>
      BY DEF Plan
    <2>2. DOMAIN Plan(req[r]) = {1}
      BY <2>1
    <2> QED
      BY <2>2 DEF Listing, AtWork
  <1> QED
    BY <1>1, <1>2, SpoolId

\* A piece moves on, and touches its own spool at most.
LEMMA PieceSpools ==
  ASSUME IInv, NEW r \in Runs, pc[r] = "working", Listing(r), SpoolsHold(r),
         pc' = pc, req' = req, NEW i \in Pieces(r), Becomes(r, i, work'[r][i]),
         \A n : n # Spool(req[r], i) => Untouched(n),
         req[r].path # "chunked" => PieceSpool(Spool(req[r], i), work[r][i])',
         req[r].path = "chunked" =>
           \/ work'[r][i].at = "failed"
           \/ /\ Untouched(Merged(req[r]))
              /\ work[r][i].at # "failed" /\ work[r][i].at # "closed"
              /\ work'[r][i].at # "closed"
           \/ /\ work[r][i].at # "failed" /\ work[r][i].at # "closed"
              /\ work'[r][i].at = "closed"
              /\ Merged(req[r]) \in DOMAIN files' =>
                   /\ Merged(req[r]) \in DOMAIN files
                   /\ files'[Merged(req[r])]
                        = files[Merged(req[r])] \cup work'[r][i].rows
  PROVE  SpoolsHold(r)'
  <1>1. Pieces(r)' = Pieces(r)
    BY DEF Becomes, Pieces
  <1>2. pc'[r] = "working" /\ req'[r] = req[r]
    OBVIOUS
  <1>3. CASE req[r].path # "chunked"
    <2>1. ASSUME NEW j \in Pieces(r), j # i
          PROVE  PieceSpool(Spool(req[r], j), work[r][j])'
      <3>1. Spool(req[r], j) # Spool(req[r], i)
        BY <1>3, <2>1, OwnSpool
      <3>2. Untouched(Spool(req[r], j)) /\ work'[r][j] = work[r][j]
        BY <2>1, <3>1 DEF Becomes
      <3>3. PieceSpool(Spool(req[r], j), work[r][j])
        BY <1>3 DEF SpoolsHold
      <3>4. Spool(req[r], j)' = Spool(req[r], j)
        BY DEF Spool, Merged, RunId
      <3> QED
        BY <3>2, <3>3, <3>4 DEF PieceSpool, Untouched
    <2>2. \A j \in Pieces(r)' : PieceSpool(Spool(req[r], j), work[r][j])'
      BY <1>1, <1>3, <2>1
    <2> QED
      BY <1>2, <1>3, <2>2 DEF SpoolsHold
  <1>4. CASE req[r].path = "chunked"
    <2>1. Merged(req[r])' = Merged(req[r])
      BY DEF Merged, RunId
    <2>2. \A j \in Pieces(r) \ {i} : work'[r][j] = work[r][j]
      BY DEF Becomes
    <2>3. CASE \E j \in Pieces(r) : work'[r][j].at = "failed"
      BY <1>1, <1>2, <1>4, <2>3 DEF SpoolsHold
    <2>4. CASE \A j \in Pieces(r) : work'[r][j].at # "failed"
      <3>0. /\ \A j \in Pieces(r) : work[r][j].at # "failed"
            /\ i \notin Closed(r)
        BY <1>4, <2>2, <2>4 DEF Closed
      <3>1. Merged(req[r]) \in DOMAIN files =>
              files[Merged(req[r])] = UNION {work[r][j].rows : j \in Closed(r)}
        BY <1>4, <3>0 DEF SpoolsHold
      <3>2. \A j \in Closed(r) : work'[r][j] = work[r][j]
        BY <2>2, <3>0 DEF Closed
      <3>3. CASE work'[r][i].at # "closed"
        <4>1. Closed(r)' = Closed(r)
          BY <1>1, <2>2, <3>0, <3>3 DEF Closed
        <4>2. Untouched(Merged(req[r]))
          BY <1>4, <2>4, <3>3
        <4>3. UNION {work'[r][j].rows : j \in Closed(r)'} = UNION {work[r][j].rows : j \in Closed(r)}
          BY <3>2, <4>1
        <4>4. Merged(req[r]) \in DOMAIN files' =>
                files'[Merged(req[r])] = UNION {work'[r][j].rows : j \in Closed(r)'}
          BY <3>1, <4>2, <4>3 DEF Untouched
        <4> QED
          BY <1>2, <1>4, <2>1, <4>4 DEF SpoolsHold
      <3>4. CASE work'[r][i].at = "closed"
        <4>1. Closed(r)' = Closed(r) \cup {i}
          BY <1>1, <2>2, <3>0, <3>4 DEF Closed
        <4>2. Merged(req[r]) \in DOMAIN files' =>
                   /\ Merged(req[r]) \in DOMAIN files
                   /\ files'[Merged(req[r])]
                        = files[Merged(req[r])] \cup work'[r][i].rows
          BY <1>4, <2>4, <3>4
        <4> DEFINE was == UNION {work[r][j].rows : j \in Closed(r)}
                   is == UNION {work'[r][j].rows : j \in Closed(r)'}
        <4>3. is = was \cup work'[r][i].rows
          <5>1. \A x : x \in is <=> \E j \in Closed(r) \cup {i} : x \in work'[r][j].rows
            BY <4>1
          <5>2. \A x : x \in was <=> \E j \in Closed(r) : x \in work'[r][j].rows
            BY <3>2
          <5> HIDE DEF was, is
          <5> QED
            BY <5>1, <5>2
        <4>4. Merged(req[r]) \in DOMAIN files => files[Merged(req[r])] = was
          BY <3>1
        <4>5. Merged(req[r]) \in DOMAIN files' => files'[Merged(req[r])] = is
          <5> HIDE DEF was, is
          <5> QED
            BY <4>2, <4>3, <4>4
        <4> QED
          BY <1>2, <1>4, <2>1, <4>5 DEF SpoolsHold
      <3> QED
        BY <3>3, <3>4
    <2> QED
      BY <2>3, <2>4
  <1> QED
    BY <1>3, <1>4

LEMMA BeginSpools ==
  ASSUME IInv, NEW r \in Runs, NEW q \in Requests, Begin(r, q)
  PROVE  SpoolsHold(r)'
  <1>1. /\ work'[r] = [i \in DOMAIN Plan(q) |-> Piece(Plan(q)[i])] /\ req'[r] = q
        /\ pc'[r] = "working"
    BY DEF IInv, Control, Begin
  <1>2. \A i \in Pieces(r)' : work'[r][i].at = "new"
    BY <1>1 DEF Pieces, Piece
  <1>3. CASE q.path # "chunked"
    BY <1>1, <1>2, <1>3 DEF SpoolsHold, PieceSpool
  <1>4. CASE q.path = "chunked"
    <2>1. files'[Merged(q)] = {}
      BY <1>4, WithOne DEF Begin
    <2>2. UNION {work'[r][i].rows : i \in Closed(r)'} = {}
      BY <1>2 DEF Closed
    <2>3. Merged(req[r])' = Merged(q)
      BY <1>1 DEF Merged, RunId
    <2> QED
      BY <1>1, <1>4, <2>1, <2>2, <2>3 DEF SpoolsHold
  <1> QED
    BY <1>3, <1>4

LEMMA OpenSpools ==
  ASSUME IInv, NEW r \in Runs, NEW i \in Pieces(r), Listing(r), SpoolsHold(r), Open(r, i)
  PROVE  SpoolsHold(r)'
  <1> DEFINE n == Spool(req[r], i)
  <1>1. Becomes(r, i, work'[r][i]) /\ pc[r] = "working" /\ pc' = pc /\ req' = req
    BY DEF IInv, Control, Open, Becomes, Pieces
  <1>2. work[r][i].at = "new" /\ work'[r][i].at = "open"
    BY DEF IInv, Control, Open, Pieces, PiecesOK, PieceOK
  <1>3. CASE req[r].path # "chunked"
    <2>1. files' = With(n, {})
      BY <1>3 DEF Open
    <2>2. files'[n] = {} /\ \A m : m # n => Untouched(m)
      BY <2>1, WithOne
    <2>3. PieceSpool(n, work[r][i])'
      <3>1. n' = n
        BY <1>1 DEF Spool, Merged, RunId
      <3> QED
        BY <1>2, <2>2, <3>1 DEF PieceSpool
    <2> QED
      BY <1>1, <1>3, <2>2, <2>3, PieceSpools
  <1>4. CASE req[r].path = "chunked"
    <2>1. files' = files
      BY <1>4 DEF Open
    <2>2. \A m : Untouched(m)
      BY <2>1, SameFiles
    <2> QED
      BY <1>1, <1>2, <1>4, <2>2, PieceSpools
  <1> QED
    BY <1>3, <1>4

LEMMA LoadSpools ==
  ASSUME IInv, NEW r \in Runs, NEW i \in Pieces(r), Listing(r), SpoolsHold(r), Load(r, i)
  PROVE  SpoolsHold(r)'
  <1> DEFINE n == Spool(req[r], i)
  <1>1. Becomes(r, i, work'[r][i]) /\ pc' = pc /\ req' = req
    BY DEF IInv, Control, Load, Becomes, Pieces
  <1>2. PieceOK(req[r], work[r][i]) /\ work[r][i].at = "open"
    BY DEF IInv, PiecesOK, Load, Step, Running
  <1>3. CASE pc[r] # "working"
    BY <1>1, <1>3 DEF Load, Step, SpoolsHold
  <1>4. CASE pc[r] = "working" /\ work'[r][i].at = "failed"
    <2>1. \/ files' = files \/ files' = Without({n}) \/ \E rows : files' = With(n, rows)
      BY DEF Load
    <2>2. \A m : m # n => Untouched(m)
      BY <2>1, SameFiles, WithOne, WithoutSome
    <2>3. PieceSpool(n, work[r][i])'
      BY <1>4 DEF PieceSpool
    <2> QED
      BY <1>1, <1>4, <2>2, <2>3, PieceSpools
  <1>5. CASE pc[r] = "working" /\ work'[r][i].at # "failed"
    <2>1. files' = files /\ work'[r][i].at = "open"
      BY <1>2, <1>5 DEF IInv, Control, Load, Pieces, PieceOK
    <2>2. \A m : Untouched(m)
      BY <2>1, SameFiles
    <2>3. req[r].path # "chunked" => PieceSpool(n, work[r][i])'
      <3>1. req[r].path # "chunked" => PieceSpool(n, work[r][i])
        BY <1>5 DEF SpoolsHold
      <3>2. n' = n
        BY <1>1 DEF Spool, Merged, RunId
      <3> QED
        BY <1>2, <2>1, <3>1, <3>2 DEF PieceSpool
    <2> QED
      BY <1>1, <1>2, <1>5, <2>1, <2>2, <2>3, PieceSpools
  <1> QED
    BY <1>3, <1>4, <1>5

LEMMA SaveSpools ==
  ASSUME IInv, NEW r \in Runs, NEW i \in Pieces(r), Listing(r), SpoolsHold(r), Save(r, i)
  PROVE  SpoolsHold(r)'
  <1> DEFINE n == Spool(req[r], i)
  <1>1. Becomes(r, i, work'[r][i]) /\ pc' = pc /\ req' = req
    BY DEF IInv, Control, Save, Becomes, Pieces
  <1>2. PieceOK(req[r], work[r][i]) /\ work[r][i].at = "open"
    BY DEF IInv, PiecesOK, Save, Step, Running
  <1>3. CASE pc[r] # "working"
    BY <1>1, <1>3 DEF Save, Step, SpoolsHold
  <1>4. \/ files' = files /\ work'[r][i].at = "open"
        \/ files' = Without({n}) /\ work'[r][i].at = "failed"
    BY <1>2 DEF IInv, Control, Save, Pieces, PieceOK
  <1>5. CASE pc[r] = "working" /\ work'[r][i].at = "failed"
    <2>1. \A m : m # n => Untouched(m)
      BY <1>4, SameFiles, WithoutSome
    <2>2. PieceSpool(n, work[r][i])'
      BY <1>5 DEF PieceSpool
    <2> QED
      BY <1>1, <1>5, <2>1, <2>2, PieceSpools
  <1>6. CASE pc[r] = "working" /\ work'[r][i].at # "failed"
    <2>1. \A m : Untouched(m)
      BY <1>4, <1>6, SameFiles
    <2>2. req[r].path # "chunked" => PieceSpool(n, work[r][i])'
      <3>1. req[r].path # "chunked" => PieceSpool(n, work[r][i])
        BY <1>6 DEF SpoolsHold
      <3>2. n' = n
        BY <1>1 DEF Spool, Merged, RunId
      <3> QED
        BY <1>2, <1>4, <1>6, <3>1, <3>2 DEF PieceSpool
    <2> QED
      BY <1>1, <1>2, <1>4, <1>6, <2>1, <2>2, PieceSpools
  <1> QED
    BY <1>3, <1>5, <1>6

LEMMA CloseSpools ==
  ASSUME IInv, NEW r \in Runs, NEW i \in Pieces(r), Listing(r), SpoolsHold(r), Close(r, i)
  PROVE  SpoolsHold(r)'
  <1> DEFINE n == Spool(req[r], i)
             p == work[r][i]
  <1>1. Becomes(r, i, work'[r][i]) /\ pc' = pc /\ req' = req
    BY DEF IInv, Control, Close, Becomes, Pieces
  <1>2. PieceOK(req[r], p) /\ p.at = "open"
    BY DEF IInv, PiecesOK, Close, Step, Running
  <1>3. work'[r][i].at = "closed" /\ work'[r][i].rows = p.rows
    BY <1>2 DEF IInv, Control, Close, Pieces, PieceOK
  <1>4. CASE pc[r] # "working"
    BY <1>1, <1>4 DEF Close, Step, SpoolsHold
  <1>5. CASE pc[r] = "working"
    <2>1. IF n \in DOMAIN files THEN files' = With(n, files[n] \cup p.rows) ELSE files' = files
      BY <1>5 DEF Close
    <2>2. /\ n \in DOMAIN files' => n \in DOMAIN files /\ files'[n] = files[n] \cup p.rows
          /\ \A m : m # n => Untouched(m)
      BY <2>1, WithOne, SameFiles DEF Untouched
    <2>3. req[r].path # "chunked" => PieceSpool(n, work[r][i])'
      <3>1. req[r].path # "chunked" => PieceSpool(n, work[r][i])
        BY <1>5 DEF SpoolsHold
      <3>2. n' = n
        BY <1>1 DEF Spool, Merged, RunId
      <3> QED
        BY <1>2, <1>3, <2>2, <3>1, <3>2 DEF PieceSpool
    <2>4. req[r].path = "chunked" => n = Merged(req[r])
      BY SpoolId
    <2>5. req[r].path = "chunked" =>
            (Merged(req[r]) \in DOMAIN files' =>
                   /\ Merged(req[r]) \in DOMAIN files
                   /\ files'[Merged(req[r])]
                        = files[Merged(req[r])] \cup work'[r][i].rows)
      BY <1>3, <2>2, <2>4
    <2> QED
      BY <1>1, <1>2, <1>3, <1>5, <2>2, <2>3, <2>5, PieceSpools
  <1> QED
    BY <1>4, <1>5

LEMMA WorkerDiesSpools ==
  ASSUME IInv, NEW r \in Runs, NEW i \in Pieces(r), SpoolsHold(r), WorkerDies(r, i)
  PROVE  SpoolsHold(r)'
  <1>1. /\ DOMAIN work'[r] = Pieces(r) /\ req' = req /\ pc' = pc /\ pc[r] = "working"
        /\ files' = files
        /\ \A j \in Pieces(r) :
              work'[r][j] \in {work[r][j], [work[r][j] EXCEPT !.at = "failed"]}
        /\ work'[r][i] = [work[r][i] EXCEPT !.at = "failed"]
    BY DEF IInv, Control, WorkerDies, Pieces
  <1>2. \A j \in Pieces(r) :
           work'[r][j] = work[r][j] \/ work'[r][j].at = "failed"
    BY <1>1 DEF IInv, PiecesOK, PieceOK
  <1>3. work'[r][i].at = "failed" /\ Pieces(r)' = Pieces(r)
    BY <1>1 DEF IInv, PiecesOK, PieceOK, Pieces
  <1>4. \A j \in Pieces(r) : Spool(req[r], j)' = Spool(req[r], j)
    BY <1>1 DEF Spool, Merged, RunId
  <1>5. CASE req[r].path # "chunked"
    <2>1. \A j \in Pieces(r) : PieceSpool(Spool(req[r], j), work[r][j])'
      BY <1>1, <1>2, <1>4, <1>5 DEF SpoolsHold, PieceSpool
    <2> QED
      BY <1>1, <1>3, <1>5, <2>1 DEF SpoolsHold
  <1>6. CASE req[r].path = "chunked"
    BY <1>1, <1>3, <1>6 DEF SpoolsHold
  <1> QED
    BY <1>5, <1>6

\* The merged spool has the rows of all pieces, whichever way it was written.
LEMMA MergeSpools ==
  ASSUME IInv, NEW r \in Runs, Listing(r), SpoolsHold(r), Merge(r)
  PROVE  SpoolsHold(r)'
  <1> DEFINE q == req[r]
             Found(i) == Spool(q, i) \in DOMAIN files
             spools == {Spool(q, i) : i \in {j \in Pieces(r) : \A k \in 1..j : Found(k)}}
             whole == q.path = "parallel" => \A i \in Pieces(r) : Found(i)
  <1>1. pc[r] = "working" /\ Whole(r) /\ work' = work /\ req' = req
    BY DEF Merge
  <1>2. q.path \in {"parallel", "sequential", "chunked"}
    BY <1>1, RequestAssumption DEF IInv, Control
  <1>3. /\ AllRows(r)' = AllRows(r) /\ Merged(req[r])' = Merged(q)
    BY <1>1 DEF AllRows, Pieces, Merged, RunId
  <1>4. CASE ~whole
    <2>1. pc'[r] = "failed"
      BY <1>4 DEF IInv, Control, Merge
    <2> QED
      BY <2>1 DEF SpoolsHold
  <1>5. CASE whole /\ q.path = "parallel"
    <2>1. Pieces(r) = DOMAIN Plan(q) /\ \E n \in Int : DOMAIN Plan(q) = 1..n
      <3> DEFINE size == (Len(Universe) + Workers - 1) \div Workers
      <3>1. Len(Universe) \in Nat \ {0} /\ Workers \in Nat \ {0}
        BY UniverseAssumption, SizeAssumption
      <3>2. size \in Nat \ {0}
        BY <3>1
      <3>3. DOMAIN Plan(q) = 1..((Len(Universe) + size - 1) \div size)
        BY <1>5 DEF Plan, Slices
      <3> HIDE DEF size
      <3>4. (Len(Universe) + size - 1) \div size \in Int
        BY <3>1, <3>2
      <3> QED
        BY <1>1, <3>3, <3>4 DEF Listing, AtWork
    <2>2. spools = {Spool(q, i) : i \in Pieces(r)}
      <3>1. \A i \in Pieces(r) : \A k \in 1..i : k \in Pieces(r)
        BY <2>1
      <3> QED
        BY <1>5, <3>1
    <2>3. \A i \in Pieces(r) : files[Spool(q, i)] = work[r][i].rows
      BY <1>1, <1>5 DEF SpoolsHold, PieceSpool, Whole
    <2>4. UNION {files[n] : n \in spools} = AllRows(r)
      BY <2>2, <2>3 DEF AllRows
    <2>5. /\ tally'[r] = [count |-> Cardinality(AllRows(r)), hash |-> AllRows(r)]
          /\ files'[Merged(q)] = AllRows(r)
          /\ pc'[r] = "merged"
      BY <1>5, <2>4 DEF IInv, Control, Merge
    <2> QED
      BY <1>3, <2>5 DEF SpoolsHold
  <1>6. CASE q.path # "parallel"
    <2>1. /\ tally'[r] = [count |-> Cardinality(AllRows(r)), hash |-> AllRows(r)]
          /\ files' = files /\ pc'[r] = "merged"
      BY <1>6 DEF IInv, Control, Merge
    <2>2. Merged(q) \in DOMAIN files => files[Merged(q)] = AllRows(r)
      <3>1. CASE q.path = "sequential"
        <4>1. Plan(q) = <<Universe>>
          BY <3>1 DEF Plan
        <4>2. Pieces(r) = {1}
          BY <1>1, <4>1 DEF Listing, AtWork
        <4>3. AllRows(r) = work[r][1].rows
          BY <4>2 DEF AllRows
        <4>4. Spool(q, 1) = Merged(q)
          BY <3>1, SpoolId
        <4>5. PieceSpool(Spool(q, 1), work[r][1]) /\ work[r][1].at = "closed"
          BY <1>1, <3>1, <4>2 DEF SpoolsHold, Whole
        <4> QED
          BY <4>3, <4>4, <4>5 DEF PieceSpool
      <3>2. CASE q.path = "chunked"
        <4>1. Closed(r) = Pieces(r) /\ \A i \in Pieces(r) : work[r][i].at # "failed"
          BY <1>1 DEF Closed, Whole
        <4> QED
          BY <1>1, <3>2, <4>1 DEF SpoolsHold, AllRows
      <3> QED
        BY <1>2, <1>6, <3>1, <3>2
    <2> QED
      BY <1>3, <2>1, <2>2 DEF SpoolsHold
  <1> QED
    BY <1>4, <1>5, <1>6

\* Nothing is left to keep for a call that has ended or published.
LEMMA CallSpools ==
  ASSUME IInv, NEW r \in Runs, Raise(r) \/ Publish(r) \/ Finish(r) \/ Die(r)
  PROVE  SpoolsHold(r)'
  <1>1. pc'[r] \notin {"working", "merged"}
    BY DEF IInv, Control, Raise, Publish, Finish, Die
  <1> QED
    BY <1>1 DEF SpoolsHold

-----------------------------------------------------------------------------
(* The manifests.                                                          *)

\* Of two calls that are alive, and no id is mixed, the ids differ.
LEMMA Apart ==
  ASSUME Sharing, NEW r \in Runs, NEW s \in Runs, r # s, Alive(r), Alive(s),
         RunId(req[r]) \notin mixed
  PROVE  RunId(req[r]) # RunId(req[s])
  BY DEF Sharing

\* A manifest is replaced by a call of its own id only.
LEMMA ManifestsElsewhere ==
  ASSUME NEW s \in Runs, Moves(s), NEW m \in manifests, m.id # RunId(req[s])
  PROVE  m \in manifests'
  <1>1. CASE Publish(s)
    BY <1>1 DEF Publish, ManifestsOf
  <1>2. CASE manifests' = manifests
    BY <1>2
  <1> QED
    BY <1>1, <1>2
    DEF Moves, Open, Load, Save, Close, WorkerDies, Raise, Merge, Finish, Die

\* The invariant of the calls that share no id, and of their verification.
SharingInv ==
    /\ IInv /\ Sharing
    /\ \A r \in Runs : RunId(req[r]) \notin mixed => Verifies(r)

LEMMA VerifiesNext ==
  ASSUME SharingInv, [Next]_vars, NEW r \in Runs, RunId(req'[r]) \notin mixed'
  PROVE  Verifies(r)'
  <1>0. IInv /\ Sharing
    BY DEF SharingInv
  <1>1. ASSUME NEW s \in Runs, NEW q \in Requests, Answer(s, q) \/ Begin(s, q)
        PROVE  Verifies(r)'
    <2>1. CASE s = r
      BY <1>0, <1>1, <2>1 DEF IInv, Control, Answer, Begin, Verifies
    <2>2. CASE s # r
      <3>1. pc'[r] = pc[r] /\ req'[r] = req[r] /\ manifests' = manifests
            /\ RunId(req[r]) \notin mixed
        BY <1>0, <1>1, <2>2 DEF IInv, Control, Answer, Begin
      <3> QED
        BY <3>1 DEF SharingInv, Verifies
    <2> QED
      BY <2>1, <2>2
  <1>2. ASSUME NEW s \in Runs, Moves(s), s # r
        PROVE  Verifies(r)'
    <2>1. pc'[r] = pc[r] /\ req'[r] = req[r] /\ RunId(req[r]) \notin mixed /\ Alive(s)
      BY <1>0, <1>2, MovesAlive
    <2>2. SUFFICES ASSUME pc[r] = "published", req[r].path = "sequential"
                   PROVE  \E m \in manifests' : m.id = RunId(req[r]) /\ m.verified
      BY <2>1 DEF Verifies
    <2>3. PICK m \in manifests : m.id = RunId(req[r]) /\ m.verified
      BY <2>1, <2>2 DEF SharingInv, Verifies
    <2>4. RunId(req[r]) # RunId(req[s])
      BY <1>0, <1>2, <2>1, <2>2, Apart DEF Alive
    <2> QED
      BY <1>2, <2>3, <2>4, ManifestsElsewhere
  <1>3. CASE Publish(r)
    <2>1. SUFFICES ASSUME pc'[r] = "published", req[r].path = "sequential"
                   PROVE  \E m \in manifests' : m.id = RunId(req[r]) /\ m.verified
      BY <1>3 DEF Publish, Verifies
    <2>2. [id |-> RunId(req[r]), rows |-> files[Merged(req[r])],
           count |-> tally[r].count, hash |-> tally[r].hash, verified |-> TRUE] \in manifests'
      BY <1>0, <1>3, <2>1 DEF IInv, Control, Publish
    <2> QED
      BY <2>2
  <1>4. ASSUME Moves(r), ~Publish(r)
        PROVE  Verifies(r)'
    <2>1. pc'[r] # "published"
      <3>1. CASE Raise(r) \/ Merge(r) \/ Finish(r) \/ Die(r)
        BY <1>0, <3>1 DEF IInv, Control, Raise, Merge, Finish, Die
      <3>2. CASE \E i \in Pieces(r) :
               Open(r, i) \/ Load(r, i) \/ Save(r, i) \/ Close(r, i) \/ WorkerDies(r, i)
        BY <3>2 DEF Open, Load, Save, Close, WorkerDies, Step
      <3> QED
        BY <1>4, <3>1, <3>2 DEF Moves
    <2> QED
      BY <2>1 DEF Verifies
  <1>5. CASE UNCHANGED <<states, files, manifests, pc, req, work, tally, mixed>>
    BY <1>5 DEF SharingInv, Verifies
  <1> QED
    BY <1>1, <1>2, <1>3, <1>4, <1>5, WhoMoves

LEMMA SharingHolds == Spec => []SharingInv
  <1>1. Init => SharingInv
    <2>1. Init => Sharing /\ \A r \in Runs : Verifies(r)
      BY DEF Init, Sharing, Alive, Verifies
    <2> QED
      BY <2>1, InitIInv DEF SharingInv
  <1>2. SharingInv /\ [Next]_vars => SharingInv'
    <2> SUFFICES ASSUME SharingInv, [Next]_vars PROVE SharingInv'
      OBVIOUS
    <2>1. IInv' /\ Sharing'
      BY NextIInv, SharingNext DEF SharingInv
    <2>2. \A r \in Runs : RunId(req'[r]) \notin mixed' => Verifies(r)'
      BY VerifiesNext
    <2> QED
      BY <2>1, <2>2 DEF SharingInv
  <1> QED
    BY <1>1, <1>2, PTL DEF Spec

-----------------------------------------------------------------------------
\* The invariant of the manifests.
ManifestInv ==
    /\ SharingInv
    /\ \A r \in Runs : Listing(r)
    /\ \A r \in Runs : RunId(req[r]) \notin mixed => SpoolsHold(r)
    /\ ManifestsAreRebuilds

LEMMA ListingNext ==
  ASSUME FormalChunks, IInv, \A s \in Runs : Listing(s), [Next]_vars, NEW r \in Runs
  PROVE  Listing(r)'
  <1>1. ASSUME NEW s \in Runs, NEW q \in Requests, Answer(s, q) \/ Begin(s, q)
        PROVE  Listing(r)'
    <2>1. CASE s = r /\ Begin(s, q)
      BY <2>1, BeginListing
    <2>2. CASE s = r /\ Answer(s, q)
      BY <2>2 DEF IInv, Control, Answer, Listing, AtWork
    <2>3. CASE s # r
      <3>1. work'[r] = work[r] /\ req'[r] = req[r] /\ pc'[r] = pc[r]
        BY <1>1, <2>3 DEF IInv, Control, Answer, Begin
      <3> QED
        BY <3>1, SameListing
    <2> QED
      BY <1>1, <2>1, <2>2, <2>3
  <1>2. ASSUME NEW s \in Runs, Moves(s), s # r PROVE Listing(r)'
    BY <1>2, MovesAlive, SameListing
  <1>3. ASSUME Moves(r) PROVE Listing(r)'
    <2>1. ASSUME NEW i \in Pieces(r),
                 Open(r, i) \/ Load(r, i) \/ Save(r, i) \/ Close(r, i) \/ WorkerDies(r, i)
          PROVE  Listing(r)'
      BY <2>1, OpenListing, LoadListing, SaveListing, CloseListing, WorkerDiesListing
    <2>2. CASE Raise(r) \/ Merge(r) \/ Publish(r) \/ Finish(r) \/ Die(r)
      <3>1. work'[r] = work[r] /\ req'[r] = req[r] /\ (pc'[r] \in AtWork => pc[r] \in AtWork)
        BY <2>2 DEF IInv, Control, Raise, Merge, Publish, Finish, Die, AtWork
      <3> QED
        BY <3>1, SameListing
    <2> QED
      BY <1>3, <2>1, <2>2 DEF Moves
  <1>4. CASE UNCHANGED <<states, files, manifests, pc, req, work, tally, mixed>>
    BY <1>4, SameListing
  <1> QED
    BY <1>1, <1>2, <1>3, <1>4, WhoMoves

LEMMA SpoolsNext ==
  ASSUME ManifestInv, [Next]_vars, NEW r \in Runs, RunId(req'[r]) \notin mixed'
  PROVE  SpoolsHold(r)'
  <1>0. IInv /\ Sharing /\ Listing(r)
    BY DEF ManifestInv, SharingInv
  <1>1. ASSUME NEW s \in Runs, NEW q \in Requests, Answer(s, q)
        PROVE  SpoolsHold(r)'
    <2>1. CASE s = r
      BY <1>0, <1>1, <2>1 DEF IInv, Control, Answer, SpoolsHold
    <2>2. CASE s # r
      <3>1. pc'[r] = pc[r] /\ req'[r] = req[r] /\ work' = work /\ tally' = tally
            /\ files' = files /\ RunId(req[r]) \notin mixed
        BY <1>0, <1>1, <2>2 DEF IInv, Control, Answer
      <3>2. SpoolsHold(r)
        BY <3>1 DEF ManifestInv
      <3> QED
        BY <3>1, <3>2, SameFiles, OthersSpools
    <2> QED
      BY <2>1, <2>2
  <1>2. ASSUME NEW s \in Runs, NEW q \in Requests, Begin(s, q)
        PROVE  SpoolsHold(r)'
    <2>1. CASE s = r
      BY <1>0, <1>2, <2>1, BeginSpools
    <2>2. CASE s # r /\ Alive(r)
      <3>1. /\ pc'[r] = pc[r] /\ req'[r] = req[r] /\ work'[r] = work[r] /\ tally' = tally
            /\ RunId(req[r]) \notin mixed /\ RunId(req[r]) # RunId(q)
        BY <1>0, <1>2, <2>2 DEF IInv, Control, Begin
      <3>2. files' = files \/ files' = With(Merged(q), {})
        BY <1>2 DEF Begin
      <3>3. \A n : n.id = RunId(req[r]) => Untouched(n)
        BY <3>1, <3>2, SameFiles, WithOne, SpoolId
      <3>4. SpoolsHold(r)
        BY <3>1 DEF ManifestInv
      <3> QED
        BY <3>1, <3>3, <3>4, OthersSpools
    <2>3. CASE s # r /\ ~Alive(r)
      <3>1. pc'[r] = pc[r]
        BY <1>0, <1>2, <2>3 DEF IInv, Control, Begin
      <3> QED
        BY <2>3, <3>1 DEF Alive, SpoolsHold
    <2> QED
      BY <2>1, <2>2, <2>3
  <1>3. ASSUME NEW s \in Runs, Moves(s), s # r
        PROVE  SpoolsHold(r)'
    <2>1. /\ pc'[r] = pc[r] /\ req'[r] = req[r] /\ work'[r] = work[r] /\ tally'[r] = tally[r]
          /\ RunId(req[r]) \notin mixed /\ Alive(s)
      BY <1>0, <1>3, MovesAlive
    <2>2. CASE Alive(r)
      <3>1. RunId(req[r]) # RunId(req[s])
        BY <1>0, <1>3, <2>1, <2>2, Apart
      <3>2. \A n : n.id = RunId(req[r]) => Untouched(n)
        BY <1>0, <1>3, <3>1, FilesElsewhere
      <3>3. SpoolsHold(r)
        BY <2>1 DEF ManifestInv
      <3> QED
        BY <2>1, <3>2, <3>3, OthersSpools
    <2>3. CASE ~Alive(r)
      BY <2>1, <2>3 DEF Alive, SpoolsHold
    <2> QED
      BY <2>2, <2>3
  <1>4. ASSUME Moves(r)
        PROVE  SpoolsHold(r)'
    <2>1. SpoolsHold(r)
      BY <1>0, <1>4, MovesAlive DEF ManifestInv
    <2>2. ASSUME NEW i \in Pieces(r),
                 Open(r, i) \/ Load(r, i) \/ Save(r, i) \/ Close(r, i) \/ WorkerDies(r, i)
          PROVE  SpoolsHold(r)'
      BY <1>0, <2>1, <2>2, OpenSpools, LoadSpools, SaveSpools, CloseSpools, WorkerDiesSpools
    <2>3. CASE Merge(r)
      BY <1>0, <2>1, <2>3, MergeSpools
    <2>4. CASE Raise(r) \/ Publish(r) \/ Finish(r) \/ Die(r)
      BY <1>0, <2>4, CallSpools
    <2> QED
      BY <1>4, <2>2, <2>3, <2>4 DEF Moves
  <1>5. CASE UNCHANGED <<states, files, manifests, pc, req, work, tally, mixed>>
    <2>1. SpoolsHold(r)
      BY <1>5 DEF ManifestInv
    <2> QED
      BY <1>5, <2>1, SameFiles, OthersSpools
  <1> QED
    BY <1>1, <1>2, <1>3, <1>4, <1>5, WhoMoves

\* A manifest that says of its id what it should.
ManifestFits(m) ==
    /\ m.count = Cardinality(m.rows) /\ m.hash = m.rows
    /\ Lists(m.id, m.rows)

LEMMA FitsIsRebuild ==
  ManifestsAreRebuilds <=> \A m \in manifests : m.id \notin mixed => ManifestFits(m)
  <1>1. \A m, c : Listed(m, c) = OfCode(m.rows, c)
    BY DEF Listed, OfCode
  <1> QED
    BY <1>1 DEF ManifestsAreRebuilds, ManifestFits, Lists, Complete

\* A call publishes the rows of its pieces.
LEMMA PublishFits ==
  ASSUME ManifestInv, NEW r \in Runs, Publish(r), RunId(req[r]) \notin mixed,
         NEW m \in manifests', m \notin manifests
  PROVE  ManifestFits(m)
  <1>1. IInv /\ Listing(r) /\ SpoolsHold(r) /\ pc[r] = "merged"
    BY DEF ManifestInv, SharingInv, Publish
  <1>2. /\ m.id = RunId(req[r]) /\ m.rows = files[Merged(req[r])]
        /\ m.count = tally[r].count /\ m.hash = tally[r].hash
        /\ Merged(req[r]) \in DOMAIN files
    BY DEF Publish
  <1>3. m.rows = AllRows(r) /\ m.count = Cardinality(AllRows(r)) /\ m.hash = AllRows(r)
    BY <1>1, <1>2 DEF SpoolsHold
  <1>4. Lists(RunId(req[r]), AllRows(r))
    <2>1. Whole(r)
      BY <1>1 DEF IInv, Control, Whole
    <2> QED
      BY <1>1, <2>1, WholeLists DEF AtWork
  <1> QED
    BY <1>2, <1>3, <1>4 DEF ManifestFits

LEMMA ManifestsNext ==
  ASSUME ManifestInv, [Next]_vars
  PROVE  ManifestsAreRebuilds'
  <1>0. IInv /\ \A m \in manifests : m.id \notin mixed => ManifestFits(m)
    BY FitsIsRebuild DEF ManifestInv, SharingInv
  <1>1. ASSUME NEW m \in manifests', m.id \notin mixed'
        PROVE  ManifestFits(m)
    <2>1. mixed \subseteq mixed'
      <3>1. ASSUME NEW r \in Runs, Moves(r) PROVE mixed' = mixed
        BY <1>0, <3>1, MovesAlive
      <3>2. ASSUME NEW r \in Runs, NEW q \in Requests, Answer(r, q) \/ Begin(r, q)
            PROVE  mixed \subseteq mixed'
        BY <3>2 DEF Answer, Begin
      <3> QED
        BY <3>1, <3>2, WhoMoves
    <2>2. CASE m \in manifests
      BY <1>0, <1>1, <2>1, <2>2
    <2>3. CASE m \notin manifests
      <3>0. ASSUME NEW r \in Runs, Moves(r), ~Publish(r) PROVE manifests' = manifests
        BY <3>0 DEF Moves, Open, Load, Save, Close, WorkerDies, Raise, Merge, Finish, Die
      <3>1. PICK r \in Runs : Publish(r)
        <4>1. \A r \in Runs, q \in Requests :
                 Answer(r, q) \/ Begin(r, q) => manifests' = manifests
          BY DEF Answer, Begin
        <4>2. manifests' # manifests
          BY <2>3
        <4> QED
          BY <3>0, <4>1, <4>2, WhoMoves
      <3>2. m.id = RunId(req[r])
        BY <2>3, <3>1 DEF Publish
      <3> QED
        BY <1>1, <2>1, <2>3, <3>1, <3>2, PublishFits
    <2> QED
      BY <2>2, <2>3
  <1>2. (\A m \in manifests : m.id \notin mixed => ManifestFits(m))'
    BY <1>1 DEF ManifestFits
  <1> QED
    BY <1>2, FitsIsRebuild, PTL

\* Whatever runs overlap, die and are repeated, a published manifest counts and
\* hashes the rows it lists, and lists those of a rebuild, all that were asked
\* for, unless two live runs of its id have shared their files.  Chunked calls
\* are in the formal mode: the children run in no other.
THEOREM PublishedRebuilds ==
  ASSUME FormalChunks
  PROVE  Spec => []ManifestsAreRebuilds
  <1>1. Init => ManifestInv
    <2> SUFFICES ASSUME Init PROVE ManifestInv
      OBVIOUS
    <2>1. SharingInv
      BY InitIInv DEF Init, SharingInv, Sharing, Alive, Verifies
    <2>2. \A r \in Runs : Listing(r) /\ SpoolsHold(r)
      BY DEF Init, Listing, AtWork, SpoolsHold
    <2>3. ManifestsAreRebuilds
      BY DEF Init, ManifestsAreRebuilds
    <2> QED
      BY <2>1, <2>2, <2>3 DEF ManifestInv
  <1>2. ManifestInv /\ SharingInv' /\ [Next]_vars => ManifestInv'
    <2> SUFFICES ASSUME ManifestInv, SharingInv', [Next]_vars PROVE ManifestInv'
      OBVIOUS
    <2>1. \A r \in Runs : Listing(r)'
      BY ListingNext DEF ManifestInv, SharingInv
    <2>2. \A r \in Runs : RunId(req'[r]) \notin mixed' => SpoolsHold(r)'
      BY SpoolsNext
    <2>3. ManifestsAreRebuilds'
      BY ManifestsNext
    <2> QED
      BY <2>1, <2>2, <2>3 DEF ManifestInv
  <1>3. ManifestInv => ManifestsAreRebuilds
    BY DEF ManifestInv
  <1> QED
    BY <1>1, <1>2, <1>3, SharingHolds, PTL DEF Spec

\* A call that asked for verification returns with a manifest of its id saying
\* that it was done, whatever ran beside it under other ids.
THEOREM VerifiedReturns == Spec => VerifiedAnswers
  <1>1. SharingInv /\ [Next]_vars
        => [\A r \in Runs :
              /\ pc[r] # "done" /\ pc'[r] = "done"
              /\ req'[r].path = "sequential" /\ RunId(req'[r]) \notin mixed
              => \E m \in manifests' : m.id = RunId(req'[r]) /\ m.verified]_vars
    <2> SUFFICES ASSUME SharingInv, [Next]_vars,
                        NEW r \in Runs, pc[r] # "done", pc'[r] = "done",
                        req'[r].path = "sequential", RunId(req'[r]) \notin mixed
                 PROVE  \E m \in manifests' : m.id = RunId(req'[r]) /\ m.verified
      OBVIOUS
    <2>0. IInv
      BY DEF SharingInv
    <2>1. ASSUME NEW s \in Runs, NEW q \in Requests, Answer(s, q)
          PROVE  \E m \in manifests' : m.id = RunId(req'[r]) /\ m.verified
      <3>1. s = r /\ req'[r] = q /\ manifests' = manifests /\ Cached(q)
        BY <2>0, <2>1 DEF IInv, Control, Answer
      <3> QED
        BY <3>1 DEF Cached, ManifestsOf
    <2>2. ASSUME NEW s \in Runs, NEW q \in Requests, Begin(s, q) PROVE FALSE
      BY <2>0, <2>2 DEF IInv, Control, Begin
    <2>3. ASSUME NEW s \in Runs, Moves(s)
          PROVE  \E m \in manifests' : m.id = RunId(req'[r]) /\ m.verified
      <3>1. s = r /\ req' = req /\ mixed' = mixed
        BY <2>0, <2>3, MovesAlive
      <3>2. Finish(r)
        <4>1. CASE Raise(r) \/ Merge(r) \/ Publish(r) \/ Die(r)
          BY <2>0, <4>1 DEF IInv, Control, Raise, Merge, Publish, Die
        <4>2. CASE \E i \in Pieces(r) :
                 Open(r, i) \/ Load(r, i) \/ Save(r, i) \/ Close(r, i) \/ WorkerDies(r, i)
          BY <4>2 DEF Open, Load, Save, Close, WorkerDies
        <4> QED
          BY <2>3, <3>1, <4>1, <4>2 DEF Moves
      <3>3. pc[r] = "published" /\ manifests' = manifests
        BY <3>2 DEF Finish
      <3> QED
        BY <3>1, <3>3 DEF SharingInv, Verifies
    <2> QED
      BY <2>1, <2>2, <2>3, WhoMoves
  <1> QED
    BY <1>1, SharingHolds, PTL DEF Spec, VerifiedAnswers

=============================================================================
