----------------------------- MODULE Bootstrap -----------------------------
(***************************************************************************)
(* warehouse/fetch.py (FetchContext, fetch_rows) inside _bootstrap_impl of *)
(* warehouse/pipeline.py: one run_id, called again and again, each call    *)
(* resuming what the ones before it left.  The warehouse lock keeps calls  *)
(* apart, so there is one caller; it may raise or die between any two of   *)
(* its effects.  An item is one code or one trade date of one dataset, and *)
(* its rows are the version of them that the provider had when asked.      *)
(***************************************************************************)
EXTENDS Naturals, Sequences, FiniteSets, Functions

CONSTANTS
    Requests,     \* what a call asks for, in order: items, dataset, dated, mode
    MaxVersion,   \* bound on the revisions of an item
    MaxFailures,  \* bound on the requests a provider fails
    MaxDeaths,    \* bound on the calls that raise or die
    None          \* no snapshot

Modes == {"bulk", "single", "isolated"}

Items == UNION {Requests[n].items : n \in DOMAIN Requests}
Datasets == {Requests[n].dataset : n \in DOMAIN Requests}

ASSUME RequestsAssumption ==
    /\ Requests \in Seq([items : SUBSET Items, dataset : Datasets,
                         dated : BOOLEAN, mode : Modes])
    /\ \A m, n \in DOMAIN Requests :
         m # n => Requests[m].items \cap Requests[n].items = {}
ASSUME BoundAssumption ==
    MaxVersion \in Nat /\ MaxFailures \in Nat /\ MaxDeaths \in Nat

RequestOf(i) == CHOOSE n \in DOMAIN Requests : i \in Requests[n].items
DatasetOf(i) == Requests[RequestOf(i)].dataset

Versions == 0 .. MaxVersion

\* Rows of some items, each in the version it was served in.
Batches == UNION {[I -> 1 .. MaxVersion] : I \in SUBSET Items}
NoRows == [i \in {} |-> 0]

Publications == {"daily_bars", "limit_up_pool"}

Snapshots == [rows : Batches, clashes : SUBSET Items,
              sources : SUBSET (Datasets \X Nat),
              published : SUBSET Publications, recorded : BOOLEAN]

ASSUME NoneAssumption == None \notin Snapshots

Failures == {"none", "PENDING", "DEFERRED_RATE_LIMIT", "RESOLVED"}

VARIABLES
    offered,   \* the version of each item's rows at its provider, 0: no rows
    run,       \* ingest_runs.status
    done,      \* the items COMPLETED in ingest_progress
    ledger,    \* ingest_failures.status, per item
    files,     \* raw/<provider>/<dataset>/<run_id>-<n>.parquet, per dataset
    listed,    \* source_files: the <<dataset, n>> registered
    snapshot,  \* the snapshot the run published last
    answer,    \* what the last call returned
    pc, at, rows, keys,  \* the call: its place, pending_rows, pending_keys
    failures, deaths

ledgers == <<run, done, ledger, listed, snapshot>>
call == <<pc, at, rows, keys>>
bounds == <<failures, deaths>>
vars == <<offered, ledgers, files, answer, call, bounds>>

TypeOK ==
    /\ offered \in [Items -> Versions]
    /\ run \in {"ABSENT", "RUNNING", "COMPLETED", "FAILED"}
    /\ done \subseteq Items
    /\ ledger \in [Items -> Failures]
    /\ files \in [Datasets -> Seq(Batches \ {NoRows})]
    /\ listed \subseteq Datasets \X Nat
    /\ snapshot \in Snapshots \cup {None}
    /\ answer \in {"none", "built", "reused"}
    /\ pc \in {"idle", "fetch", "write", "list", "mark", "resolve",
               "publish", "record", "finish"}
    /\ at \in 1 .. Len(Requests) + 1
    /\ rows \in Batches
    /\ keys \subseteq Items
    /\ failures \in 0 .. MaxFailures
    /\ deaths \in 0 .. MaxDeaths

Init ==
    /\ offered \in [Items -> Versions \cap {0, 1}]
    /\ run = "ABSENT"
    /\ done = {}
    /\ ledger = [i \in Items |-> "none"]
    /\ files = [d \in Datasets |-> <<>>]
    /\ listed = {}
    /\ snapshot = None
    /\ answer = "none"
    /\ pc = "idle" /\ at = 1 /\ rows = NoRows /\ keys = {}
    /\ failures = 0 /\ deaths = 0

\* A provider corrects rows it has already published.
Revise(i) ==
    /\ offered[i] \in 1 .. MaxVersion - 1
    /\ offered' = [offered EXCEPT ![i] = @ + 1]
    /\ UNCHANGED <<ledgers, files, answer, call, bounds>>

-----------------------------------------------------------------------------
(* The start of a call *)

Pending == {i \in Items : ledger[i] = "PENDING"}

\* Mutant: a completed run is reused whatever its failures.
ReusableAnyway == run = "COMPLETED"

Reusable == run = "COMPLETED" /\ Pending = {}

\* A completed run without pending failures is answered from the registry.
Reuse(force) ==
    /\ pc = "idle"
    /\ Reusable /\ ~force
    /\ answer' = "reused"
    /\ UNCHANGED <<offered, ledgers, files, call, bounds>>

Begin(force) ==
    /\ pc = "idle"
    /\ ~(Reusable /\ ~force)
    /\ run' = "RUNNING"
    /\ answer' = "none"
    /\ pc' = "fetch" /\ at' = 1 /\ rows' = NoRows /\ keys' = {}
    /\ UNCHANGED <<offered, done, ledger, files, listed, snapshot, bounds>>

-----------------------------------------------------------------------------
(* fetch_rows, one request at a time *)

\* Mutant: completed items are asked for again.
TodoAll(n) == Requests[n].items

Todo(n) == Requests[n].items \ done

\* A bulk batch is flushed at once; the others when batch_rows of them are
\* waiting, which their numbers decide, and at the end of the dataset.
MayWait(n) ==
    /\ Requests[n].mode # "bulk"
    /\ n < Len(Requests) /\ Requests[n + 1].dataset = Requests[n].dataset

\* After a request: flush what waits, wait for more, or, with no rows to flush,
\* forget the keys.
Proceed(n, waiting, keyed) ==
    \/ /\ waiting # NoRows
       /\ pc' = "write" /\ rows' = waiting /\ keys' = keyed
    \/ /\ MayWait(n)
       /\ pc' = "fetch" /\ rows' = waiting /\ keys' = keyed
    \/ /\ waiting = NoRows
       /\ pc' = "fetch" /\ rows' = NoRows /\ keys' = {}

Answered(n) ==
    /\ pc = "fetch" /\ at = n
    /\ LET served == {i \in Todo(n) : offered[i] > 0}
       IN  Proceed(n, [i \in DOMAIN rows \cup served |->
                         IF i \in served THEN offered[i] ELSE rows[i]],
                   keys \cup Todo(n))
    /\ at' = n + 1
    /\ UNCHANGED <<offered, ledgers, files, answer, bounds>>

\* Mutant: the items of a failed request are marked like the others.
FailedKeyed(n, status) ==
    /\ pc = "fetch" /\ at = n
    /\ Todo(n) # {}
    /\ failures < MaxFailures
    /\ status = "DEFERRED_RATE_LIMIT" => Requests[n].mode # "isolated"
    /\ ledger' = [i \in Items |-> IF i \in Todo(n) THEN status ELSE ledger[i]]
    /\ Proceed(n, rows, keys \cup Todo(n))
    /\ at' = n + 1
    /\ failures' = failures + 1
    /\ UNCHANGED <<offered, run, done, files, listed, snapshot, answer, deaths>>

\* A request that fails, retries included, is recorded for each of its items;
\* the isolated worker cannot tell a rate limit from a crash.
Failed(n, status) ==
    /\ pc = "fetch" /\ at = n
    /\ Todo(n) # {}
    /\ failures < MaxFailures
    /\ status = "DEFERRED_RATE_LIMIT" => Requests[n].mode # "isolated"
    /\ ledger' = [i \in Items |-> IF i \in Todo(n) THEN status ELSE ledger[i]]
    /\ Proceed(n, rows, keys)
    /\ at' = n + 1
    /\ failures' = failures + 1
    /\ UNCHANGED <<offered, run, done, files, listed, snapshot, answer, deaths>>

\* Its failures are recorded one by one, and a death leaves some of them.
DieFailing(n, status) ==
    /\ pc = "fetch" /\ at = n
    /\ failures < MaxFailures /\ deaths < MaxDeaths
    /\ status = "DEFERRED_RATE_LIMIT" => Requests[n].mode # "isolated"
    /\ \E some \in SUBSET Todo(n) :
         ledger' = [i \in Items |-> IF i \in some THEN status ELSE ledger[i]]
    /\ run' \in {run, "FAILED"}
    /\ pc' = "idle" /\ at' = 1 /\ rows' = NoRows /\ keys' = {}
    /\ failures' = failures + 1 /\ deaths' = deaths + 1
    /\ UNCHANGED <<offered, done, listed, snapshot, files, answer>>

\* Mutant: the items are marked before the file is registered.
WriteBatchUnlisted ==
    /\ pc = "write"
    /\ files' = [files EXCEPT ![Requests[at - 1].dataset] = Append(@, rows)]
    /\ pc' = "mark"
    /\ UNCHANGED <<offered, ledgers, answer, at, rows, keys, bounds>>

\* _write_batch: a new file, numbered by the files already there.
WriteBatch ==
    /\ pc = "write"
    /\ files' = [files EXCEPT ![Requests[at - 1].dataset] = Append(@, rows)]
    /\ pc' = "list"
    /\ UNCHANGED <<offered, ledgers, answer, at, rows, keys, bounds>>

ListFile ==
    LET d == Requests[at - 1].dataset
    IN  /\ pc = "list"
        /\ listed' = listed \cup {<<d, Len(files[d])>>}
        /\ pc' = "mark" /\ rows' = NoRows
        /\ UNCHANGED <<offered, run, done, ledger, snapshot, files, answer, at, keys,
                       bounds>>

\* _mark, first statement: the item is COMPLETED.
Mark(i) ==
    /\ pc = "mark" /\ i \in keys
    /\ done' = done \cup {i}
    /\ pc' = "resolve"
    /\ UNCHANGED <<offered, run, ledger, listed, snapshot, files, answer, at, rows,
                   keys, bounds>>

\* Second statement: failures recorded under the item's code are resolved.  A
\* date was recorded without a code and stays as it is.
Resolve(i) ==
    /\ pc = "resolve" /\ i \in keys \cap done
    /\ ledger' = IF Requests[RequestOf(i)].dated \/ ledger[i] = "none" THEN ledger
                   ELSE [ledger EXCEPT ![i] = "RESOLVED"]
    /\ keys' = keys \ {i}
    /\ pc' = IF keys' = {} THEN "fetch" ELSE "mark"
    /\ UNCHANGED <<offered, run, done, listed, snapshot, files, answer, at, rows,
                   bounds>>

-----------------------------------------------------------------------------
(* The end of a call *)

Stored(i) ==
    {batch[i] : batch \in {b \in Range(files[DatasetOf(i)]) : i \in DOMAIN b}}

\* All files of the run are read, registered or not; the manifest lists the
\* registered ones.  Two versions of an item from one provider are quarantined.
\* The snapshot has a fresh id, so its files are new; then it is registered.
CreateSnapshot ==
    LET clashes == {i \in Items : \E v, w \in Stored(i) : v # w}
        single == {i \in Items : Stored(i) # {}} \ clashes
    IN  /\ pc = "fetch" /\ at = Len(Requests) + 1
        /\ snapshot' = [rows |-> [i \in single |-> CHOOSE v \in Stored(i) : TRUE],
                        clashes |-> clashes,
                        sources |-> listed, published |-> {}, recorded |-> FALSE]
        /\ pc' = "publish"
        /\ UNCHANGED <<offered, run, done, ledger, listed, files, answer, at, rows,
                       keys, bounds>>

\* Its two publications, registered one after the other.
Publish(dataset) ==
    /\ pc = "publish"
    /\ dataset = IF snapshot.published = {} THEN "daily_bars" ELSE "limit_up_pool"
    /\ snapshot' = [snapshot EXCEPT !.published = @ \cup {dataset}]
    /\ pc' = IF dataset = "limit_up_pool" THEN "record" ELSE "publish"
    /\ UNCHANGED <<offered, run, done, ledger, listed, files, answer, at, rows, keys,
                   bounds>>

\* The reconciliation and quarantine records, inserted after the snapshot one
\* by one: it is recorded once they are all there.
RecordResults ==
    /\ pc = "record"
    /\ snapshot' = [snapshot EXCEPT !.recorded = TRUE]
    /\ pc' = "finish"
    /\ UNCHANGED <<offered, run, done, ledger, listed, files, answer, at, rows, keys,
                   bounds>>

Finish ==
    /\ pc = "finish"
    /\ run' = "COMPLETED"
    /\ answer' = "built"
    /\ pc' = "idle" /\ at' = 1 /\ rows' = NoRows /\ keys' = {}
    /\ UNCHANGED <<offered, done, ledger, listed, snapshot, files, bounds>>

\* The process dies, or an error other than a provider's ends the call, which
\* the handler records.
Die ==
    /\ pc # "idle" /\ deaths < MaxDeaths
    /\ run' \in {run, "FAILED"}
    /\ pc' = "idle" /\ at' = 1 /\ rows' = NoRows /\ keys' = {}
    /\ deaths' = deaths + 1
    /\ UNCHANGED <<offered, done, ledger, listed, snapshot, files, answer, failures>>

Fetch ==
    \/ \E n \in DOMAIN Requests : Answered(n)
    \/ \E n \in DOMAIN Requests, status \in {"PENDING", "DEFERRED_RATE_LIMIT"} :
         Failed(n, status)

Step ==
    \/ Fetch
    \/ WriteBatch \/ ListFile
    \/ \E i \in Items : Mark(i) \/ Resolve(i)
    \/ CreateSnapshot \/ (\E dataset \in Publications : Publish(dataset))
    \/ RecordResults \/ Finish

Next ==
    \/ \E force \in BOOLEAN : Reuse(force) \/ Begin(force)
    \/ Step
    \/ Die
    \/ \E n \in DOMAIN Requests, status \in {"PENDING", "DEFERRED_RATE_LIMIT"} :
         DieFailing(n, status)
    \/ \E i \in Items : Revise(i)

Spec == Init /\ [][Next]_vars

\* A call goes on until it ends, and the run is called again while it can be.
FairSpec == Spec /\ WF_vars(Step) /\ WF_vars(Begin(FALSE))
-----------------------------------------------------------------------------
(* Properties *)

Rows(f) == files[f[1]][f[2]]
Copies(i) == {n \in DOMAIN files[DatasetOf(i)] : i \in DOMAIN files[DatasetOf(i)][n]}
Registered(i) == \E f \in listed : f[1] = DatasetOf(i) /\ i \in DOMAIN Rows(f)
Known(i) == ledger[i] \in {"PENDING", "DEFERRED_RATE_LIMIT"}

\* Progress is never ahead of the files: an item marked COMPLETED, which no
\* later call asks for again, has its rows in a registered raw file.
DoneIsStored == \A i \in done : offered[i] > 0 => Registered(i)

\* When a run is COMPLETED its snapshot has both publications and its records,
\* and every item whose provider has rows is in it, quarantined by it, or known
\* to have failed.
Accounted ==
    run = "COMPLETED" =>
        /\ snapshot # None
        /\ snapshot.published = Publications /\ snapshot.recorded
        /\ \A i \in Items :
             offered[i] > 0 =>
                 i \in DOMAIN snapshot.rows \cup snapshot.clashes \/ Known(i)

\* What was confirmed is not fetched again: an item is in more than one raw
\* file only if calls died between writing and marking it.
FetchedOnce == \A i \in Items : Cardinality(Copies(i)) <= 1 + deaths

\* No call replaces or removes a raw file, registered or not.
RawImmutable ==
    [][\A d \in Datasets : \A n \in DOMAIN files[d] :
          n \in DOMAIN files'[d] /\ files'[d][n] = files[d][n]]_vars

\* A failure recorded as PENDING is retried by later calls until the item is
\* fetched or a retry is rate limited; a rate-limited one is FailedAreRetried's.
PendingIsRetried ==
    \A i \in Items :
        ledger[i] = "PENDING" /\ offered[i] > 0
            ~> i \in done \/ ledger[i] = "DEFERRED_RATE_LIMIT"

\* "failed items are recorded and retried on the next run of the same run_id"
\* (fetch_rows, warehouse/fetch.py): no call is answered from the registry
\* while an item that failed has not been fetched.
FailedAreRetried ==
    answer = "reused" => \A i \in Items : Known(i) => i \in done

=============================================================================
