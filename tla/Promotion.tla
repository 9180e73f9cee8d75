----------------------------- MODULE Promotion -----------------------------
(***************************************************************************)
(* warehouse/promotion.py: promote_snapshot, run by several callers that   *)
(* share one warehouse, with the governance transition of metadata.py      *)
(* (set_snapshot_status) going on beside it.                               *)
(*                                                                         *)
(* A content is the sequence of staged batches a canonical file holds on   *)
(* top of the root history.  A promoted snapshot id is content-addressed:  *)
(* it is the pair of the contents hashed for its daily and its pool file.  *)
(* Every call builds into the same directory tmp/pr-d/build, and nothing   *)
(* but DuckDB's transactions separates two calls: each read, each move and *)
(* each write of a file is a step of its own, and so is each exists()      *)
(* before one.  The daily build file and the lineage are written in place, *)
(* and are half-written from the open to the close; the pool, the manifest *)
(* and the report come whole, through a file of their own and os.replace.  *)
(* A call that raises or whose process dies leaves behind what it wrote.   *)
(***************************************************************************)
EXTENDS Naturals, Sequences, SequencesExt

CONSTANTS
    Promoters,      \* callers of promote_snapshot
    Batches,        \* the CONFIRMED rows of one staging run
    Evidence,       \* the input hashes of a run: staging, universe, derived events
    Contents,       \* bound: the contents that are ever built
    Continues,      \* <<content, batch>>: the rows pass the gates on that base
    Modes,          \* the values of dry_run in use
    GovernTargets,  \* the statuses a governance decision may set
    MaxCrashes,     \* bound on process deaths
    Torn,           \* a file that is half-written, or written by two at once
    Unlinked,       \* where an open file is once another was moved over it
    NoFile, NoSnapshot, NoJob, NoDecision

Root == <<>>
Snapshots == Contents \X Contents
RootId == <<Root, Root>>

ASSUME ContentsAssumption == Contents \subseteq Seq(Batches) /\ Root \in Contents
ASSUME ContinuesAssumption == Continues \subseteq Contents \X Batches
ASSUME SentinelAssumption ==
    /\ NoSnapshot \notin Snapshots
    /\ NoFile \notin Contents \cup Evidence \cup {Torn}
    /\ Torn \notin Contents \cup Evidence
    /\ Unlinked \notin Snapshots \cup {NoSnapshot}
    /\ NoJob \notin [base : Snapshots, batch : Batches, evidence : Evidence,
                     dry : Modes]
    /\ NoDecision \notin Snapshots \X {"SCREEN_READY", "RESEARCH_READY",
                                       "QUARANTINED"}
ASSUME BoundAssumption == MaxCrashes \in Nat
ASSUME ModesAssumption == Modes \subseteq BOOLEAN

Statuses == {"ABSENT", "SCREEN_READY", "RESEARCH_READY", "QUARANTINED"}
ASSUME TargetsAssumption == GovernTargets \subseteq Statuses \ {"ABSENT"}

Jobs == [base : Snapshots, batch : Batches, evidence : Evidence, dry : Modes]

VARIABLES
    status,    \* dataset_snapshots.status
    pointer,   \* formal_screen_ready_pointer
    record,    \* snapshot_promotion_records: the job that was committed last
    audited,   \* the status the promotion and governance records account for
    daily, pool, lineage, manifest, report,  \* final artifacts, per id
    tmpDaily, tmpPool,  \* tmp/pr-d/build/{daily,pool}.parquet
    pc, job, cand,      \* each call: where it is, its inputs, its snapshot_id
    held,      \* each call: the rows it has read; then the two file hashes
    handle,    \* where the daily file a call has open is (NoSnapshot: in build)
    mixed,     \* the calls whose open file another call has opened as well
    decision,  \* a governance UPDATE whose record is not yet inserted
    crashes

registry == <<status, pointer, record, audited>>
files == <<daily, pool, lineage, manifest, report>>
build == <<tmpDaily, tmpPool>>
locals == <<job, cand, held, handle, mixed>>
calls == <<pc, locals>>
vars == <<registry, files, build, calls, decision, crashes>>

Stages == {"idle", "begun", "opened", "daily", "pooled", "hashed", "built",
           "repoint", "draft", "validated", "dailyMissing", "dailyFinal",
           "poolMissing", "poolFinal", "lineageMissing", "lineageOpen",
           "lineageFinal", "manifestMissing", "manifestFinal",
           "reportMissing", "reportFinal"}
DailyFiles == Contents \cup {Torn, NoFile}
PoolFiles == Contents \cup {NoFile}

TypeOK ==
    /\ status \in [Snapshots -> Statuses]
    /\ pointer \in Snapshots \cup {NoSnapshot}
    /\ record \in [Snapshots -> Jobs \cup {NoJob}]
    /\ audited \in [Snapshots -> Statuses]
    /\ daily \in [Snapshots -> DailyFiles]
    /\ pool \in [Snapshots -> PoolFiles]
    /\ lineage \in [Snapshots -> Evidence \cup {Torn, NoFile}]
    /\ manifest \in [Snapshots -> Evidence \cup {NoFile}]
    /\ report \in [Snapshots -> Evidence \cup {NoFile}]
    /\ tmpDaily \in DailyFiles
    /\ tmpPool \in PoolFiles
    /\ pc \in [Promoters -> Stages]
    /\ job \in [Promoters -> Jobs \cup {NoJob}]
    /\ cand \in [Promoters -> Snapshots \cup {NoSnapshot}]
    /\ held \in [Promoters -> DailyFiles \X PoolFiles]
    /\ handle \in [Promoters -> Snapshots \cup {NoSnapshot, Unlinked}]
    /\ mixed \in SUBSET Promoters
    /\ decision \in (Snapshots \X (Statuses \ {"ABSENT"})) \cup {NoDecision}
    /\ crashes \in 0..MaxCrashes

Init ==
    /\ status = [s \in Snapshots |-> IF s = RootId THEN "SCREEN_READY"
                                                   ELSE "ABSENT"]
    /\ pointer \in {RootId, NoSnapshot}
    /\ record = [s \in Snapshots |-> NoJob]
    /\ audited = status
    /\ daily = [s \in Snapshots |-> IF s = RootId THEN Root ELSE NoFile]
    /\ pool = daily
    /\ lineage = [s \in Snapshots |-> NoFile]
    /\ manifest = [s \in Snapshots |-> NoFile]
    /\ report = [s \in Snapshots |-> NoFile]
    /\ tmpDaily = NoFile /\ tmpPool = NoFile
    /\ pc = [p \in Promoters |-> "idle"]
    /\ job = [p \in Promoters |-> NoJob]
    /\ cand = [p \in Promoters |-> NoSnapshot]
    /\ held = [p \in Promoters |-> <<NoFile, NoFile>>]
    /\ handle = [p \in Promoters |-> NoSnapshot]
    /\ mixed = {}
    /\ decision = NoDecision
    /\ crashes = 0

At(p, here, next) == pc[p] = here /\ pc' = [pc EXCEPT ![p] = next]

\* The call ends: its local variables are gone.
Leave(p) ==
    /\ pc' = [pc EXCEPT ![p] = "idle"]
    /\ job' = [job EXCEPT ![p] = NoJob]
    /\ cand' = [cand EXCEPT ![p] = NoSnapshot]
    /\ held' = [held EXCEPT ![p] = <<NoFile, NoFile>>]
    /\ handle' = [handle EXCEPT ![p] = NoSnapshot]
    /\ mixed' = mixed \ {p}

----------------------------------------------------------------------------
(* Build: the base's row is read once, at the start, and its files later.  *)

\* Bound: what a job makes of the files of its base is among the contents.
InBounds(j) == \A c \in {daily[j.base], pool[j.base]} \cap Contents :
                   Append(c, j.batch) \in Contents

\* The base must be known and SCREEN_READY when the call starts.
Begin(p, j) ==
    /\ status[j.base] = "SCREEN_READY" /\ InBounds(j)
    /\ At(p, "idle", "begun")
    /\ job' = [job EXCEPT ![p] = j]
    /\ UNCHANGED <<registry, files, build, cand, held, handle, mixed,
                   decision, crashes>>

\* The other calls that have the daily build file open.
Writing(p) == {q \in Promoters \ {p} : pc[q] = "opened" /\ handle[q] = NoSnapshot}
Mixing(p, others) == IF others = {} THEN mixed ELSE mixed \cup others \cup {p}

\* Mutant: a whole build file that is there is taken for this call's own.
OpenDailyResumed(p) ==
    /\ At(p, "begun", IF tmpDaily \in Contents THEN "daily" ELSE "opened")
    /\ held' = [held EXCEPT ![p] =
                  <<Append(daily[job[p].base], job[p].batch), NoFile>>]
    /\ tmpDaily' = IF tmpDaily \in Contents THEN tmpDaily ELSE Torn
    /\ UNCHANGED <<registry, files, tmpPool, job, cand, handle, mixed, decision,
                   crashes>>

\* _build_daily_file opens the base for reading, then the build file for
\* writing, which empties it, whoever else is writing it or has written it.
OpenDaily(p) ==
    /\ At(p, "begun", "opened")
    /\ LET base == daily[job[p].base] IN
         /\ base \in Contents /\ Append(base, job[p].batch) \in Contents
         /\ held' = [held EXCEPT ![p] = <<Append(base, job[p].batch), NoFile>>]
    /\ tmpDaily' = Torn
    /\ mixed' = Mixing(p, Writing(p))
    /\ UNCHANGED <<registry, files, tmpPool, job, cand, handle, decision,
                   crashes>>

\* What the writer p leaves in a file of its own, or in one it has shared.
Leaves(p, c) == IF p \in mixed THEN {c, Torn} ELSE {c}

\* The base and the batch are streamed, and the file closed, wherever another
\* call has moved it since.
FillDaily(p) ==
    /\ At(p, "opened", "daily")
    /\ \E c \in Leaves(p, held[p][1]) :
         /\ tmpDaily' = IF handle[p] = NoSnapshot THEN c ELSE tmpDaily
         /\ daily' = IF handle[p] \in Snapshots
                       THEN [daily EXCEPT ![handle[p]] = c] ELSE daily
    /\ handle' = [handle EXCEPT ![p] = NoSnapshot]
    /\ mixed' = mixed \ {p}
    /\ UNCHANGED <<registry, pool, lineage, manifest, report, tmpPool, job, cand,
                   held, decision, crashes>>

\* The pool rows are put together in memory and replace the pool build file.
WritePool(p) ==
    /\ At(p, "daily", "pooled")
    /\ LET rows == Append(pool[job[p].base], job[p].batch) IN
         /\ rows \in Contents
         /\ held' = [held EXCEPT ![p] = <<NoFile, rows>>]
         /\ tmpPool' = rows
    /\ UNCHANGED <<registry, files, tmpDaily, job, cand, handle, mixed, decision,
                   crashes>>

\* The id is the hash of the daily rows read back and of the pool rows held.
HashContents(p) ==
    /\ At(p, "pooled", "hashed")
    /\ tmpDaily \in Contents
    /\ cand' = [cand EXCEPT ![p] = <<tmpDaily, held[p][2]>>]
    /\ UNCHANGED <<registry, files, build, job, held, handle, mixed, decision,
                   crashes>>

\* The hashes an existing artifact will be compared with, of the files as they
\* are by now.
HashFiles(p) ==
    /\ At(p, "hashed", "built")
    /\ tmpDaily # NoFile /\ tmpPool # NoFile
    /\ held' = [held EXCEPT ![p] = <<tmpDaily, tmpPool>>]
    /\ UNCHANGED <<registry, files, build, job, cand, handle, mixed, decision,
                   crashes>>

\* Idempotency: an id that is already SCREEN_READY is not promoted again.
Identify(p) ==
    /\ pc[p] = "built"
    /\ \/ /\ status[cand[p]] = "SCREEN_READY" /\ pointer = cand[p]
          /\ Leave(p)
       \/ /\ status[cand[p]] = "SCREEN_READY" /\ pointer # cand[p]
          /\ At(p, "built", "repoint") /\ UNCHANGED locals
       \/ /\ status[cand[p]] # "SCREEN_READY"
          /\ At(p, "built", "draft") /\ UNCHANGED locals
    /\ UNCHANGED <<registry, files, build, decision, crashes>>

\* The idempotent path moves the pointer in a transaction of its own.
RepointCommit(p) ==
    /\ pc[p] = "repoint"
    /\ pointer' = cand[p]
    /\ Leave(p)
    /\ UNCHANGED <<status, record, audited, files, build, decision, crashes>>

\* The new rows are checked in memory against the base; of the built file only
\* the history up to the base's date is compared.
GatesPass(p) ==
    /\ <<daily[job[p].base], job[p].batch>> \in Continues
    /\ tmpDaily \in Contents
    /\ IsPrefix(daily[job[p].base], tmpDaily)

Validate(p) ==
    /\ At(p, "draft", "validated")
    /\ GatesPass(p)
    /\ UNCHANGED <<registry, files, build, locals, decision, crashes>>

DryRunReturn(p) ==
    /\ pc[p] = "validated" /\ job[p].dry
    /\ Leave(p)
    /\ UNCHANGED <<registry, files, build, decision, crashes>>

----------------------------------------------------------------------------
(* Finalize: each artifact is moved or written into place unless a file of *)
(* that id was there when the call looked.                                 *)

\* exists() of an artifact: it is written next, or kept as it is.
Look(p, f, here, missing, final) ==
    At(p, here, IF f[cand[p]] = NoFile THEN missing ELSE final)

\* f with the evidence of p's run filed under its id.
Filed(f, p) == [f EXCEPT ![cand[p]] = job[p].evidence]

\* Mutant: a file of that id, even the very same, makes the call raise.
LookDailyOnce(p) ==
    /\ pc[p] = "validated" /\ ~job[p].dry
    /\ \/ daily[cand[p]] # NoFile /\ Leave(p)
       \/ /\ daily[cand[p]] = NoFile
          /\ At(p, "validated", "dailyMissing") /\ UNCHANGED locals
    /\ UNCHANGED <<registry, files, build, decision, crashes>>

\* An existing daily file must have the hash of the file that was built.
LookDaily(p) ==
    /\ Look(p, daily, "validated", "dailyMissing", "dailyFinal")
    /\ ~job[p].dry
    /\ daily[cand[p]] \in {NoFile, held[p][1]}
    /\ UNCHANGED <<registry, files, build, locals, decision, crashes>>

\* os.replace moves whatever is in the build directory by now over whatever
\* has taken the name, and takes the calls that have it open along.
MoveDaily(p) ==
    /\ At(p, "dailyMissing", "dailyFinal")
    /\ tmpDaily # NoFile
    /\ daily' = [daily EXCEPT ![cand[p]] = tmpDaily]
    /\ tmpDaily' = NoFile
    /\ handle' = [q \in Promoters |->
                    CASE q \in Writing(p) -> cand[p]
                      [] handle[q] = cand[p] -> Unlinked
                      [] OTHER -> handle[q]]
    /\ UNCHANGED <<registry, pool, lineage, manifest, report, tmpPool, job, cand,
                   held, mixed, decision, crashes>>

LookPool(p) ==
    /\ Look(p, pool, "dailyFinal", "poolMissing", "poolFinal")
    /\ pool[cand[p]] \in {NoFile, held[p][2]}
    /\ UNCHANGED <<registry, files, build, locals, decision, crashes>>

\* Mutant: a pool file that is no longer in the build directory is passed over.
MovePoolIfBuilt(p) ==
    /\ At(p, "poolMissing", "poolFinal")
    /\ pool' = IF tmpPool # NoFile THEN [pool EXCEPT ![cand[p]] = tmpPool] ELSE pool
    /\ tmpPool' = NoFile
    /\ UNCHANGED <<registry, daily, lineage, manifest, report, tmpDaily, locals,
                   decision, crashes>>

MovePool(p) ==
    /\ At(p, "poolMissing", "poolFinal")
    /\ tmpPool # NoFile
    /\ pool' = [pool EXCEPT ![cand[p]] = tmpPool]
    /\ tmpPool' = NoFile
    /\ UNCHANGED <<registry, daily, lineage, manifest, report, tmpDaily, locals,
                   decision, crashes>>

LookLineage(p) ==
    /\ Look(p, lineage, "poolFinal", "lineageMissing", "lineageFinal")
    /\ UNCHANGED <<registry, files, build, locals, decision, crashes>>

\* The lineage is opened under its final name, which empties it.
OpenLineage(p) ==
    /\ At(p, "lineageMissing", "lineageOpen")
    /\ lineage' = [lineage EXCEPT ![cand[p]] = Torn]
    /\ mixed' = Mixing(p, {q \in Promoters \ {p} :
                             pc[q] = "lineageOpen" /\ cand[q] = cand[p]})
    /\ UNCHANGED <<registry, daily, pool, manifest, report, build, job, cand,
                   held, handle, decision, crashes>>

\* Its records are written one by one, and the file closed.
FillLineage(p) ==
    /\ At(p, "lineageOpen", "lineageFinal")
    /\ \E e \in Leaves(p, job[p].evidence) :
         lineage' = [lineage EXCEPT ![cand[p]] = e]
    /\ mixed' = mixed \ {p}
    /\ UNCHANGED <<registry, daily, pool, manifest, report, build, job, cand,
                   held, handle, decision, crashes>>

\* Mutant: a manifest that is there is written again.
LookManifestNever(p) ==
    /\ At(p, "lineageFinal", "manifestMissing")
    /\ UNCHANGED <<registry, files, build, locals, decision, crashes>>

LookManifest(p) ==
    /\ Look(p, manifest, "lineageFinal", "manifestMissing", "manifestFinal")
    /\ UNCHANGED <<registry, files, build, locals, decision, crashes>>

WriteManifest(p) ==
    /\ At(p, "manifestMissing", "manifestFinal")
    /\ manifest' = Filed(manifest, p)
    /\ UNCHANGED <<registry, daily, pool, lineage, report, build, locals,
                   decision, crashes>>

LookReport(p) ==
    /\ Look(p, report, "manifestFinal", "reportMissing", "reportFinal")
    /\ UNCHANGED <<registry, files, build, locals, decision, crashes>>

WriteReport(p) ==
    /\ At(p, "reportMissing", "reportFinal")
    /\ report' = Filed(report, p)
    /\ UNCHANGED <<registry, daily, pool, lineage, manifest, build, locals,
                   decision, crashes>>

\* Mutant: the transaction runs before the promotion report is written.
CommitUnreported(p) ==
    /\ pc[p] = "manifestFinal"
    /\ status' = [status EXCEPT ![cand[p]] = "SCREEN_READY"]
    /\ record' = [record EXCEPT ![cand[p]] = job[p]]
    /\ audited' = [audited EXCEPT ![cand[p]] = "SCREEN_READY"]
    /\ pointer' = cand[p]
    /\ Leave(p)
    /\ UNCHANGED <<files, build, decision, crashes>>

\* One transaction: snapshot row (an upsert), publications, validation and
\* promotion records, pointer.
Commit(p) ==
    /\ pc[p] = "reportFinal"
    /\ status' = [status EXCEPT ![cand[p]] = "SCREEN_READY"]
    /\ record' = [record EXCEPT ![cand[p]] = job[p]]
    /\ audited' = [audited EXCEPT ![cand[p]] = "SCREEN_READY"]
    /\ pointer' = cand[p]
    /\ Leave(p)
    /\ UNCHANGED <<files, build, decision, crashes>>

----------------------------------------------------------------------------
(* The ways a call ends without a result.                                  *)

\* A file cannot be read, a gate fails, an artifact that is there differs (two
\* half-written ones may), or the file to move is gone.
Blocked(p) ==
    LET s == cand[p] IN
    \/ pc[p] = "begun" /\ daily[job[p].base] \notin Contents
    \/ pc[p] = "pooled" /\ tmpDaily \notin Contents
    \/ pc[p] = "hashed" /\ (tmpDaily = NoFile \/ tmpPool = NoFile)
    \/ pc[p] = "draft" /\ ~GatesPass(p)
    \/ pc[p] = "validated" /\ ~job[p].dry
         /\ (daily[s] \notin {NoFile, held[p][1]} \/ daily[s] = Torn)
    \/ pc[p] = "dailyMissing" /\ tmpDaily = NoFile
    \/ pc[p] = "dailyFinal" /\ pool[s] \notin {NoFile, held[p][2]}
    \/ pc[p] = "poolMissing" /\ tmpPool = NoFile

\* PromotionError, ArrowInvalid or FileNotFoundError: nothing is undone.
Raise(p) ==
    /\ Blocked(p)
    /\ Leave(p)
    /\ UNCHANGED <<registry, files, build, decision, crashes>>

\* A failpoint, or the death of the process: an open transaction rolls back.
Crash(p) ==
    /\ pc[p] # "idle" /\ crashes < MaxCrashes
    /\ Leave(p)
    /\ crashes' = crashes + 1
    /\ UNCHANGED <<registry, files, build, decision>>

----------------------------------------------------------------------------
(* Governance: set_snapshot_status runs two statements, each committed on  *)
(* its own.  It returns early when the status is already the wanted one.   *)

GovernUpdate(s, to) ==
    /\ decision = NoDecision
    /\ status[s] \notin {"ABSENT", to}
    /\ status' = [status EXCEPT ![s] = to]
    /\ decision' = <<s, to>>
    /\ UNCHANGED <<pointer, record, audited, files, build, calls, crashes>>

GovernRecord ==
    /\ decision # NoDecision
    /\ audited' = [audited EXCEPT ![decision[1]] = decision[2]]
    /\ decision' = NoDecision
    /\ UNCHANGED <<status, pointer, record, files, build, calls, crashes>>

GovernCrash ==
    /\ decision # NoDecision /\ crashes < MaxCrashes
    /\ decision' = NoDecision
    /\ crashes' = crashes + 1
    /\ UNCHANGED <<registry, files, build, calls>>

----------------------------------------------------------------------------
Builds(p) ==
    \/ OpenDaily(p) \/ FillDaily(p) \/ WritePool(p) \/ HashContents(p)
    \/ HashFiles(p) \/ Identify(p) \/ RepointCommit(p) \/ Validate(p)
    \/ DryRunReturn(p)

Finalizes(p) ==
    \/ LookDaily(p) \/ MoveDaily(p) \/ LookPool(p) \/ MovePool(p)
    \/ LookLineage(p) \/ OpenLineage(p) \/ FillLineage(p)
    \/ LookManifest(p) \/ WriteManifest(p) \/ LookReport(p) \/ WriteReport(p)

Step(p) == Builds(p) \/ Finalizes(p) \/ Commit(p) \/ Raise(p)

Governance ==
    \/ \E s \in Snapshots, to \in GovernTargets : GovernUpdate(s, to)
    \/ GovernRecord
    \/ GovernCrash

Next ==
    \/ \E p \in Promoters :
         \/ \E j \in Jobs : Begin(p, j)
         \/ Step(p)
         \/ Crash(p)
    \/ Governance

Spec == Init /\ [][Next]_vars

\* A promotion, no dry run, of a batch that passes the gates on its base and
\* is not published yet.
BeginUnpublished(p) ==
    \E j \in Jobs :
        /\ ~j.dry
        /\ Begin(p, j)
        /\ <<daily[j.base], j.batch>> \in Continues
        /\ status[<<Append(daily[j.base], j.batch),
                    Append(pool[j.base], j.batch)>>] # "SCREEN_READY"

(* A call that has begun keeps running, and operators do not stop promoting *)
(* while something is left to publish.                                      *)
Fairness == \A p \in Promoters : WF_vars(Step(p)) /\ SF_vars(BeginUnpublished(p))

FairSpec == Spec /\ Fairness

----------------------------------------------------------------------------
(* Properties.                                                             *)

\* The ids all of whose artifacts are in their final place.
Sealed ==
    {s \in Snapshots : /\ daily[s] # NoFile /\ pool[s] # NoFile
                       /\ lineage[s] # NoFile /\ manifest[s] # NoFile
                       /\ report[s] # NoFile} \cup {RootId}

FP == INSTANCE FormalPointer
        WITH Roots <- {RootId}, sealed <- Sealed

\* promote_snapshot implements the promise made to formal readers: visibility
\* is one step, and comes after every artifact of the snapshot is in place,
\* however calls interleave, raise and die (promotion.py, header).  In place
\* means under its name: what two calls at once put there is another matter.
RefinesFormalPointer == FP!FPSpec

\* A snapshot a formal reader can resolve, by id or through the pointer, has a
\* file under each of its names and its promotion record: neither a call that
\* dies between two artifacts nor one whose build files another call has taken
\* away leaves a registered snapshot without them.
VisibleInPlace ==
    /\ \A s \in Snapshots : status[s] # "ABSENT" =>
          s \in Sealed /\ (s = RootId \/ record[s] # NoJob)
    /\ pointer # NoSnapshot => status[pointer] # "ABSENT"

\* With one caller at a time, what is published under an id is the base the
\* promotion record names plus the batch it names, in both files, whatever
\* earlier calls have left in the build directory.
PublishedIsBasePlusBatch ==
    \A s \in Snapshots : record[s] # NoJob =>
        LET j == record[s] IN
        /\ daily[s] = Append(daily[j.base], j.batch)
        /\ pool[s] = Append(pool[j.base], j.batch)

\* With one caller at a time, historical evidence is immutable (architecture
\* constitution, AC-09): once an artifact is in place no retry, rerun with
\* other evidence or second promotion replaces it.  A lineage, which is written
\* in place, is the one file to change, and only while its writer has it open.
Keeps(f, g) == \A s \in Snapshots : f[s] # NoFile => g[s] = f[s]
BeingWritten(s) == \E p \in Promoters : pc[p] = "lineageOpen" /\ cand[p] = s
KeepsArtifacts ==
    /\ Keeps(daily, daily') /\ Keeps(pool, pool')
    /\ Keeps(manifest, manifest') /\ Keeps(report, report')
    /\ \A s \in Snapshots :
         lineage[s] # NoFile /\ ~BeingWritten(s) => lineage'[s] = lineage[s]
FilesImmutable == [][KeepsArtifacts]_files

\* Leftovers of dead calls never block a retry: while an operator keeps
\* promoting, every content that can be built is published in the end.
LeftoversNeverBlock == <>(\A c \in Contents : status[<<c, c>>] = "SCREEN_READY")

=============================================================================
