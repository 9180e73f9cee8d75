------------------------------ MODULE ScreenRun ------------------------------
(***************************************************************************)
(* screen/runner.py: run_screen over the states one warehouse keeps per    *)
(* code, sequentially (verify_replay) or in worker processes, and          *)
(* screen/chunks.py: run_chunked_screen, one child process per chunk.      *)
(*                                                                         *)
(* A bar is its edition, and the bars of a code stand for its limit-up     *)
(* records too.  A signal is what it was computed from: for each traded    *)
(* day up to its own, the commit that evaluated the day and the bars the   *)
(* evaluation saw.  The commit stands for the strategy commit, the         *)
(* configuration hash and the reconciliation policy.  A hash is the        *)
(* content it was taken of.  The rows of a file are a set: the code and    *)
(* the date order them.                                                    *)
(***************************************************************************)
EXTENDS Naturals, FiniteSets, Sequences

CONSTANTS
    Runs,       \* processes; each makes one call
    Universe,   \* the codes of every snapshot, sorted
    Snapshots,
    Bars,       \* Bars[s][c]: the CONFIRMED bars of c in s, by day
    Requests,   \* the calls in use
    Workers,    \* worker processes of a run: min(4, cpus)
    ChunkSize,  \* codes per chunk of the chunked path
    MaxDeaths,  \* bound on killed processes
    NoState, NotLoaded, NoRequest

Codes == {Universe[i] : i \in DOMAIN Universe}

\* No code at all, and the pool raises: it has no slices of size 0.
ASSUME UniverseAssumption == Universe \in Seq(Codes) /\ Universe # <<>>
ASSUME RequestAssumption ==
    /\ NoRequest \notin Requests
    /\ \A q \in Requests :
          /\ q.path \in {"parallel", "sequential", "chunked"}
          /\ q.kind \in {"incremental", "rebuild"}
          /\ q.path = "chunked" => q.kind = "rebuild"
          /\ q.start \in Nat /\ q.asOf \in Nat
          /\ q.snap \in Snapshots /\ q.mode \in {"formal", "debug"}
ASSUME DayAssumption ==
    \A s \in Snapshots, c \in Codes : DOMAIN Bars[s][c] \subseteq Nat \ {0}
ASSUME SizeAssumption ==
    Workers \in Nat \ {0} /\ ChunkSize \in Nat \ {0} /\ MaxDeaths \in Nat

\* The bars of b up to a day.
Until(b, day) == [d \in {e \in DOMAIN b : e <= day} |-> b[d]]

Evaluation(commit, b, day) == [commit |-> commit, bars |-> Until(b, day)]

\* The signal of a rebuild, from the oldest bar, over the bars b.
Rebuilt(commit, b) == [d \in DOMAIN b |-> Evaluation(commit, b, d)]

\* The run_id, which neither the path nor the workers enter.
RunId(q) == [kind |-> q.kind, start |-> q.start, asOf |-> q.asOf,
             snap |-> q.snap, commit |-> q.commit, mode |-> q.mode]

VARIABLES
    usable,     \* the snapshots that are SCREEN_READY
    states,     \* screen/states/<code>.json
    files,      \* the row spools that exist, by name
    manifests,  \* screen/runs/<run_id>.json
    pc, req,    \* each process: where it is, and its request
    work,       \* its pieces: codes to do, what it loaded, rows, progress
    tally,      \* the count and the hash it will publish
    mixed,      \* history: the ids that two live runs worked for at once
    deaths

vars == <<usable, states, files, manifests, pc, req, work, tally, mixed, deaths>>

NoTally == [count |-> 0, hash |-> {}]

\* The state a run for q leaves of code c, from a rebuild.
Left(q, c) == LET b == Until(Bars[q.snap][c], q.asOf)
              IN  [snap |-> q.snap, commit |-> q.commit, bars |-> b,
                   signal |-> Rebuilt(q.commit, b)]

\* The spools of earlier runs are gone; their states are not.
Init ==
    /\ usable = Snapshots
    /\ states \in {f \in [Codes -> {NoState} \cup {Left(q, c) : q \in Requests, c \in Codes}] :
                     \A c \in Codes : f[c] \in {NoState} \cup {Left(q, c) : q \in Requests}}
    /\ files = [n \in {} |-> {}] /\ manifests = {}
    /\ pc = [r \in Runs |-> "idle"]
    /\ req = [r \in Runs |-> NoRequest]
    /\ work = [r \in Runs |-> <<>>]
    /\ tally = [r \in Runs |-> NoTally]
    /\ mixed = {} /\ deaths = 0

-----------------------------------------------------------------------------
(* Files, pieces and who is alive. *)

\* The spool the manifest is written from, and that of piece i of a run: they
\* are one but in a parallel run.  A chunked run has its own directory.
Merged(q) == [id |-> RunId(q), chunks |-> q.path = "chunked", index |-> 0]
Spool(q, i) == [Merged(q) EXCEPT !.index = IF q.path = "parallel" THEN i ELSE 0]

With(n, rows) == [m \in DOMAIN files \cup {n} |-> IF m = n THEN rows ELSE files[m]]
Without(names) == [m \in DOMAIN files \ names |-> files[m]]

\* Contiguous slices of the universe, of the given size.
Slices(size) ==
    [i \in 1..((Len(Universe) + size - 1) \div size) |->
        SubSeq(Universe, (i - 1) * size + 1,
               IF i * size < Len(Universe) THEN i * size ELSE Len(Universe))]

Plan(q) ==
    CASE q.path = "sequential" -> <<Universe>>
      [] q.path = "parallel" -> Slices((Len(Universe) + Workers - 1) \div Workers)
      [] q.path = "chunked" -> Slices(ChunkSize)

Piece(codes) == [todo |-> codes, held |-> NotLoaded, rows |-> {}, at |-> "new",
                 trusted |-> usable]

Ended(r) == {i \in DOMAIN work[r] : work[r][i].at \in {"closed", "failed"}}
Running(r) == {i \in DOMAIN work[r] : work[r][i].at = "open"}

\* Worker and child processes outlive a run that is killed.
Alive(r) == \/ pc[r] \in {"working", "merged", "published"}
            \/ pc[r] = "dead" /\ req[r].path # "sequential" /\ Running(r) # {}

Step(r, i) == /\ \/ pc[r] = "working"
                 \/ pc[r] = "dead" /\ req[r].path # "sequential"
              /\ i \in Running(r)

ManifestsOf(q) == {m \in manifests : m.id = RunId(q)}

-----------------------------------------------------------------------------
(* A call *)

\* Mutant: a cached run answers a verification it never performed.
CachedAnyway(q) == q.path # "chunked" /\ ManifestsOf(q) # {}

\* The manifest of an earlier run answers, unless this call is to verify and
\* that one did not; the chunked path never looks.
Cached(q) ==
    /\ q.path # "chunked"
    /\ \E m \in ManifestsOf(q) : q.path = "sequential" => m.verified

\* run_screen verifies exactly when it is sequential.
Answer(r, q) ==
    /\ pc[r] = "idle" /\ q.snap \in usable /\ Cached(q)
    /\ pc' = [pc EXCEPT ![r] = "done"]
    /\ req' = [req EXCEPT ![r] = q]
    /\ UNCHANGED <<usable, states, files, manifests, work, tally, mixed, deaths>>

Begin(r, q) ==
    /\ pc[r] = "idle" /\ q.snap \in usable /\ ~Cached(q)
    /\ pc' = [pc EXCEPT ![r] = "working"]
    /\ req' = [req EXCEPT ![r] = q]
    /\ work' = [work EXCEPT ![r] = [i \in DOMAIN Plan(q) |-> Piece(Plan(q)[i])]]
    /\ files' = IF q.path = "chunked" THEN With(Merged(q), {}) ELSE files
    /\ mixed' = mixed \cup {RunId(q) : s \in {p \in Runs :
                                Alive(p) /\ RunId(req[p]) = RunId(q)}}
    /\ UNCHANGED <<usable, states, manifests, tally, deaths>>

\* Mutant: the spool is opened for appending, over what a dead run left.
OpenAppend(r, i) ==
    /\ pc[r] = "working" /\ work[r][i].at = "new"
    /\ req[r].path = "chunked" => 1..(i - 1) \subseteq Ended(r)
    /\ work' = [work EXCEPT ![r][i].at = "open",
                            ![r][i].trusted = IF req[r].path = "parallel" THEN usable ELSE @]
    /\ files' = IF req[r].path = "chunked" \/ Spool(req[r], i) \in DOMAIN files THEN files
                ELSE With(Spool(req[r], i), {})
    /\ UNCHANGED <<usable, states, manifests, pc, req, tally, mixed, deaths>>

\* A piece starts: its spool is truncated, and a worker reads the statuses of
\* the snapshots; chunks run one after the other.
Open(r, i) ==
    /\ pc[r] = "working" /\ work[r][i].at = "new"
    /\ req[r].path = "chunked" => 1..(i - 1) \subseteq Ended(r)
    /\ work' = [work EXCEPT ![r][i].at = "open",
                            ![r][i].trusted = IF req[r].path = "parallel" THEN usable ELSE @]
    /\ files' = IF req[r].path = "chunked" THEN files ELSE With(Spool(req[r], i), {})
    /\ UNCHANGED <<usable, states, manifests, pc, req, tally, mixed, deaths>>

\* Mutant: only the end of the state's history is compared, not its bars.
StaleByDate(q, c, st) ==
    \/ st.commit # q.commit
    \/ \E d \in DOMAIN st.signal : d > q.asOf

\* The bars of the run's snapshot up to the last day of a state.
Prefix(q, c, st) ==
    [d \in {e \in DOMAIN Bars[q.snap][c] : \E last \in DOMAIN st.signal : e <= last} |->
        Bars[q.snap][c][d]]

\* A persisted state is dropped when it is another commit's or configuration's,
\* is later than the run, or its bars are no longer those of the snapshot.
Stale(q, c, st) ==
    \/ st.commit # q.commit
    \/ \E d \in DOMAIN st.signal : d > q.asOf
    \/ st.bars # Prefix(q, c, st)

\* The state of the piece's next code, refused if its snapshot was not
\* SCREEN_READY when the statuses were read.
Load(r, i) ==
    LET p == work[r][i]
        st == states[Head(p.todo)]
        found == req[r].kind = "incremental" /\ st # NoState
    IN  /\ Step(r, i) /\ p.todo # <<>> /\ p.held = NotLoaded
        /\ \/ /\ found => st.snap \in p.trusted
              /\ work' = [work EXCEPT ![r][i].held =
                            IF found /\ ~Stale(req[r], Head(p.todo), st) THEN st ELSE NoState]
              /\ UNCHANGED files
           \/ /\ found /\ st.snap \notin p.trusted
              /\ work' = [work EXCEPT ![r][i].at = "failed"]
              /\ files' = IF req[r].path = "sequential" THEN Without({Spool(req[r], i)})
                          ELSE IF Spool(req[r], i) \in DOMAIN files
                            THEN With(Spool(req[r], i), files[Spool(req[r], i)] \cup p.rows)
                          ELSE files
        /\ UNCHANGED <<usable, states, manifests, pc, req, tally, mixed, deaths>>

\* A day is not evaluated again when the loaded state has reached it.
Reached(held, d) == held # NoState /\ \E last \in DOMAIN held.signal : d <= last

\* The signal that ends the days, each new one evaluated over the bars up to it.
Screened(q, c, held) ==
    LET b == Until(Bars[q.snap][c], q.asOf)
    IN  [d \in DOMAIN b |-> IF Reached(held, d) THEN held.signal[d]
                            ELSE Evaluation(q.commit, b, d)]

\* Chunk children are started without the pool mode and run in the formal one.
RowMode(q) == IF q.path = "chunked" THEN "formal" ELSE q.mode

Row(c, d, signal, mode) ==
    [code |-> c, date |-> d, signal |-> Until(signal, d), mode |-> mode]

RowsOf(q, c, held) ==
    {Row(c, d, Screened(q, c, held), RowMode(q)) :
        d \in {e \in DOMAIN Until(Bars[q.snap][c], q.asOf) :
                 ~Reached(held, e) /\ (q.kind = "rebuild" => e >= q.start)}}

\* The rows a rebuild from q.start gives, on the days that rows has.
Confirmed(q, c, rows) ==
    rows = {Row(c, d, Rebuilt(q.commit, Until(Bars[q.snap][c], q.asOf)), RowMode(q)) :
              d \in {r.date : r \in rows} \cap {e \in Nat : e >= q.start}}

\* The code is screened, its state saved, and in a sequential run its rows are
\* compared with a rebuild and a replay; a mismatch comes after the save.
Save(r, i) ==
    LET p == work[r][i]
        q == req[r]
        c == Head(p.todo)
        rows == RowsOf(q, c, p.held)
        ok == q.path = "sequential" => Confirmed(q, c, rows)
    IN  /\ Step(r, i) /\ p.todo # <<>> /\ p.held # NotLoaded
        /\ states' = [states EXCEPT ![c] =
              [snap |-> q.snap, commit |-> q.commit,
               bars |-> Until(Bars[q.snap][c], q.asOf),
               signal |-> Screened(q, c, p.held)]]
        /\ work' = [work EXCEPT ![r][i] =
              IF ok THEN [p EXCEPT !.todo = Tail(@), !.held = NotLoaded,
                                   !.rows = @ \cup rows]
              ELSE [p EXCEPT !.at = "failed"]]
        /\ files' = IF ok THEN files ELSE Without({Spool(q, i)})
        /\ UNCHANGED <<usable, manifests, pc, req, tally, mixed, deaths>>

\* The rows reach the spool that was opened, if nobody removed it; those of a
\* chunk reach it when the parent reads the answer of the child.
Close(r, i) ==
    LET p == work[r][i]
        n == Spool(req[r], i)
    IN  /\ Step(r, i) /\ p.todo = <<>>
        /\ work' = [work EXCEPT ![r][i].at = "closed"]
        /\ files' = IF n \in DOMAIN files /\ (n.chunks => pc[r] = "working")
                    THEN With(n, files[n] \cup p.rows) ELSE files
        /\ UNCHANGED <<usable, states, manifests, pc, req, tally, mixed, deaths>>

Pieces(r) == DOMAIN work[r]
AllRows(r) == UNION {work[r][i].rows : i \in Pieces(r)}

\* A failed piece fails the call: a pool waits for its other workers first.
Raise(r) ==
    /\ pc[r] = "working"
    /\ \E i \in Pieces(r) : work[r][i].at = "failed"
    /\ req[r].path = "parallel" => Ended(r) = Pieces(r)
    /\ pc' = [pc EXCEPT ![r] = "failed"]
    /\ files' = IF req[r].path = "chunked" THEN Without({Merged(req[r])}) ELSE files
    /\ UNCHANGED <<usable, states, manifests, req, work, tally, mixed, deaths>>

Whole(r) == \A i \in Pieces(r) : work[r][i].at = "closed"

\* All pieces are there: chunk spools are concatenated and removed one by one,
\* up to a missing one, which fails the call.
Merge(r) ==
    LET q == req[r]
        Found(i) == Spool(q, i) \in DOMAIN files
        spools == {Spool(q, i) : i \in {j \in Pieces(r) : \A k \in 1..j : Found(k)}}
        whole == q.path = "parallel" => \A i \in Pieces(r) : Found(i)
        rows == IF q.path = "parallel" THEN UNION {files[n] : n \in spools} ELSE AllRows(r)
    IN  /\ pc[r] = "working"
        /\ Whole(r)
        /\ pc' = [pc EXCEPT ![r] = IF whole THEN "merged" ELSE "failed"]
        /\ tally' = IF whole THEN [tally EXCEPT ![r] = [count |-> Cardinality(AllRows(r)),
                                                        hash |-> rows]]
                    ELSE tally
        /\ files' = IF q.path # "parallel" THEN files
                    ELSE [n \in (DOMAIN files \ spools)
                                \cup (IF whole THEN {Merged(q)} ELSE {}) |->
                            IF n = Merged(q) /\ whole THEN rows ELSE files[n]]
        /\ UNCHANGED <<usable, states, manifests, req, work, mixed, deaths>>

\* The manifest replaces that of an earlier run of the id; its rows are read
\* from the spool, its count and hash are those of the run.
Publish(r) ==
    LET q == req[r]
    IN  /\ pc[r] = "merged"
        /\ IF Merged(q) \in DOMAIN files
             THEN /\ manifests' = (manifests \ ManifestsOf(q)) \cup
                       {[id |-> RunId(q), rows |-> files[Merged(q)],
                         count |-> tally[r].count, hash |-> tally[r].hash,
                         verified |-> q.path = "sequential"]}
                  /\ pc' = [pc EXCEPT ![r] = "published"]
             ELSE /\ pc' = [pc EXCEPT ![r] = "failed"]
                  /\ UNCHANGED manifests
        /\ UNCHANGED <<usable, states, files, req, work, tally, mixed, deaths>>

Finish(r) ==
    /\ pc[r] = "published"
    /\ pc' = [pc EXCEPT ![r] = "done"]
    /\ files' = Without({Merged(req[r])})
    /\ UNCHANGED <<usable, states, manifests, req, work, tally, mixed, deaths>>

-----------------------------------------------------------------------------
(* The environment *)

\* The process of the call is killed.
Die(r) ==
    /\ pc[r] \in {"working", "merged", "published"} /\ deaths < MaxDeaths
    /\ pc' = [pc EXCEPT ![r] = "dead"]
    /\ deaths' = deaths + 1
    /\ UNCHANGED <<usable, states, files, manifests, req, work, tally, mixed>>

\* A worker or a child is killed; a pool then terminates its other workers.
WorkerDies(r, i) ==
    /\ pc[r] = "working" /\ i \in Running(r) /\ deaths < MaxDeaths
    /\ req[r].path # "sequential"
    /\ work' = [work EXCEPT ![r] =
          [j \in Pieces(r) |-> IF j = i \/ (req[r].path = "parallel" /\ j \notin Ended(r))
                               THEN [work[r][j] EXCEPT !.at = "failed"] ELSE work[r][j]]]
    /\ deaths' = deaths + 1
    /\ UNCHANGED <<usable, states, files, manifests, pc, req, tally, mixed>>

\* Governance withdraws a snapshot, whatever runs.
Quarantine(s) ==
    /\ s \in usable
    /\ usable' = usable \ {s}
    /\ UNCHANGED <<states, files, manifests, pc, req, work, tally, mixed, deaths>>

\* Nobody is left at work.
Over == (\A r \in Runs : ~Alive(r)) /\ UNCHANGED vars

Next ==
    \/ \E r \in Runs : \/ \E q \in Requests : Answer(r, q) \/ Begin(r, q)
                       \/ \E i \in Pieces(r) : \/ Open(r, i) \/ Load(r, i) \/ Save(r, i)
                                               \/ Close(r, i) \/ WorkerDies(r, i)
                       \/ Raise(r) \/ Merge(r) \/ Publish(r) \/ Finish(r) \/ Die(r)
    \/ \E s \in Snapshots : Quarantine(s)
    \/ Over

Spec == Init /\ [][Next]_vars

-----------------------------------------------------------------------------
(* Properties *)

\* Types; only a call whose pieces have all come through goes on to a manifest.
TypeOK ==
    /\ usable \subseteq Snapshots
    /\ pc \in [Runs -> {"idle", "working", "merged", "published", "done", "failed", "dead"}]
    /\ req \in [Runs -> Requests \cup {NoRequest}]
    /\ DOMAIN work = Runs /\ DOMAIN tally = Runs /\ DOMAIN states = Codes
    /\ \A r \in Runs :
          /\ req[r] = NoRequest <=> pc[r] = "idle"
          /\ \A i \in Pieces(r) :
                /\ work[r][i].todo \in Seq(Codes)
                /\ work[r][i].at \in {"new", "open", "closed", "failed"}
                /\ work[r][i].trusted \subseteq Snapshots
          /\ pc[r] \in {"merged", "published"} =>
                \A i \in Pieces(r) : work[r][i].at = "closed"
    /\ mixed \subseteq {RunId(q) : q \in Requests}
    /\ deaths \in 0..MaxDeaths

\* The bars b are the first ones of all.
Begins(b, all) ==
    /\ b = [d \in DOMAIN b |-> all[d]] /\ DOMAIN b \subseteq DOMAIN all
    /\ \A d \in DOMAIN all, e \in DOMAIN b : d <= e => d \in DOMAIN b

IsRebuild(c, st) ==
    /\ st.snap \in Snapshots
    /\ Begins(st.bars, Bars[st.snap][c])
    /\ st.signal = Rebuilt(st.commit, st.bars)

\* Whatever runs, deaths and overlapping calls left it, a persisted state is
\* what a rebuild over the snapshot it names gives: the days of its bars, each
\* evaluated over them by the state's own commit (_screen_chunk_worker).
StatesAreRebuilds == \A c \in Codes : states[c] # NoState => IsRebuild(c, states[c])

\* The rows of a code in a manifest, and what a rebuild of the run gives.
Listed(m, c) == {row \in m.rows : row.code = c}
Expected(id, c, after) ==
    {Row(c, d, Rebuilt(id.commit, Until(Bars[id.snap][c], id.asOf)), id.mode) :
        d \in {e \in DOMAIN Bars[id.snap][c] : after < e /\ e <= id.asOf}}

\* A published manifest counts and hashes the rows it lists, and lists for each
\* code the rows of a rebuild: all those asked for, or, of an incremental run,
\* those after some day; unless two live runs of its id shared their files.
ManifestsAreRebuilds ==
    \A m \in {n \in manifests : n.id \notin mixed} :
        /\ m.count = Cardinality(m.rows) /\ m.hash = m.rows
        /\ \A c \in Codes :
              IF m.id.kind = "rebuild"
                THEN Listed(m, c) = {row \in Expected(m.id, c, 0) : row.date >= m.id.start}
                ELSE \E day \in 0..m.id.asOf : Listed(m, c) = Expected(m.id, c, day)

\* A call that asked for verification returns with the manifest of its id saying
\* that it was done, be it an answer from the cache (run_screen).
VerifiedAnswers ==
    [][\A r \in Runs :
          /\ pc[r] # "done" /\ pc'[r] = "done"
          /\ req'[r].path = "sequential" /\ RunId(req'[r]) \notin mixed
          => \E m \in manifests' : m.id = RunId(req'[r]) /\ m.verified]_vars

=============================================================================
