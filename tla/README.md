# Verification of limit_pullback

TLA+ models of the A-share limit-up pullback screener: the warehouse it fetches
market data into and the runs that extend it, the staging and the promotion of
reviewed rows, the external archive it can read instead, the generation of
per-code strategy states, the screen that advances them, the state engine that
turns the bars of one code into a signal a day, and what is made of a signal
afterwards: the plan, the outcome study and the T+1 check.  TLC checks each
model on small instances; TLAPS proves safety properties for every value of the
constants.  Paths below are relative to `src/limit_pullback/` in the repository.

To repeat a check: `tlc -config MCUpdateChain.cfg MCUpdate`, and
`tlapm UpdateProofs.tla`.

## 1. The system

The program is a set of batch commands over one directory: parquet files, JSON
manifests, and a DuckDB registry.  There is no server.  What makes it hard is
that every command may die between any two of its effects and is run again by
an operator, that some commands exclude each other by a lock and others do not,
that the providers of market data answer late, partly or differently, and that
a strategy signal depends on the signal of the day before.

| Component | State it keeps | Operations | Talks to |
|---|---|---|---|
| Fetch and bootstrap (`warehouse/fetch.py`, `pipeline.py`) | `ingest_runs`, `ingest_progress`, `ingest_failures`, `source_files`, `raw/` | request, retry, batch, register, mark, finish | providers, snapshot creation |
| Update, auxiliary backfill (`pipeline.py`) | the same tables, `quarantine_records`, `reconciliation_results`, the chain of snapshots | extend the latest snapshot to a date, replace the rows of the revision window, release explained divergences | providers, reconciliation |
| Reconciliation, continuity, coverage | none | agree across providers, chain precloses, count sessions | update, staging, promotion |
| Snapshots (`snapshot.py`) | canonical files, manifest, `dataset_snapshots`, publications | create, resolve, read | registry |
| Staging (`staging.py`, TDX and Tencent providers) | the staged candidate and its evidence | fetch, confirm, fill in, gate | promotion |
| Promotion (`promotion.py`) | `tmp/pr-d/build`, five artifacts per id, promotion record, formal pointer | build, validate, finalize, commit | registry, readers |
| Governance (`metadata.py`) | snapshot status, governance records | quarantine, restore | registry |
| ASL adapters (`asl_adapter.py`, `asl_query_adapter.py`, `asl_snapshot.py`) | candidate snapshots | read facts two ways, build, validate | external archive |
| State generation (`screen/generation.py`) | build root, `screen/generations`, ACTIVE rows, state pointer | seed, screen, verify, finalize, commit | promotion's pointer, screen runner |
| Screen runner, chunks (`screen/`) | per-code states, spools, manifests | advance codes in workers, merge, verify | state engine |
| State engine (`state/`, `strategy/`) | the previous signal of a code | evaluate a day | signal validation |
| Signal validation (`models/signal.py`) | none | reject a malformed signal | state engine |
| Replay (`replay.py`) | a timeline and its per-setup summaries | replay the days of a code | state engine |
| Trade plan (`trade_plan.py`) | the plan output | plan a signal, read a generation | registry, generations |
| Outcome, execution reality (`outcome.py`, `execution_reality.py`) | episodes | freeze an event, follow it, relabel, resolve T+1 exits | replay, plan |
| Ranking, audits, evidence, command line | none here | sort, report, hash, parse | everything |

`PROJECT.json` lists all of them with what is modelled of each, and every
hazard with its line and the properties aimed at it.

The behaviours that are hard to test, and where they are modelled:

- **Death between two effects.**  Files are moved or written one by one, one of
  them in place, and most registry statements commit on their own; only the
  promotion and the generation use a transaction.  (`Promotion`, `Generation`, `Bootstrap`, `Update`, `ScreenRun`)
- **Calls that share a directory.**  `promote_snapshot`,
  `build_state_generation` and `run_screen` do not take the warehouse lock.
  (`Promotion`, `Generation`, `ScreenRun`; `Bootstrap` and `Update` have one
  caller because they do take it.)
- **Leftovers.**  A retry meets whatever a dead call left, and either keeps,
  overwrites, removes or trusts it.
- **Reading more than once.**  The plan output looks at the registry three
  times, an archive is read three times a chunk, and what was read first may
  have changed by the last.  (`PlanReader`, `AslSnapshot`)
- **Failures recorded and retried.**  Progress, failures and files are three
  separate ledgers of the same fact.  (`Bootstrap`)
- **Gaps and revisions.**  A provider that is silent is taken to say what it
  said before, in two versions that may differ.  (`Update`)
- **Memory across days.**  A level may act only from the day after it was
  frozen, the signal of another setup must not be inherited, a preclose chains
  from the last close, and a status learnt later excuses nothing.
  (`SetupEngine`, `Staging`, `AslLake`)
- **Results restated as data grows.**  (`SetupReplay`, `OutcomeStudy`)

## 2. The modules

```
FormalPointer  <- refined by -  Promotion     MCPromotion     PromotionProofs
      ^ extended by
  Generation                                                  GenerationProofs
      ^ extended by                                           (of both)
  PlanReader                                  MCPlanReader
Bootstrap                                     MCBootstrap     BootstrapProofs
CanonicalChain <- refined by -  Update        MCUpdate        UpdateProofs
                  Reconciliation  ^ extends
SetupLifecycle <- refined by -  SetupEngine                   SetupProofs
                                   ^ extended by SetupReplay  (of all of these)
                                   ^ TradePlan < Outcome < ExecutionReality
                                               < OutcomeStudy   MCOutcomeStudy
ScreenRun                                     MCScreenRun     ScreenProofs
Staging                                       MCStaging       StagingProofs
AslLake < AslSnapshot                         MCAsl           AslProofs
```

### FormalPointer: what readers are promised

The abstract registry: `status`, `sealed` (the ids whose artifacts are final)
and `pointer`.  A snapshot becomes visible in one step together with the
pointer, only after it is sealed.  `Promotion` implements it, and `Generation`
runs inside it, so the generation is checked against every registry that keeps
the promise and not against one implementation.

### Promotion: `warehouse/promotion.py`, `warehouse/metadata.py`

One caller is a program counter `pc`, its inputs `job` and its computed
snapshot id `cand`.  A content is the sequence of staged batches on top of the
root history; an id is the pair of contents hashed for the daily and the pool
file, which is what content addressing means here.  Callers share the build
directory and are kept apart by nothing, so every read, test, move and write of
a file is a step of its own.

| Action | Code |
|---|---|
| `Begin` | the base lookup and its SCREEN_READY test |
| `OpenDaily`, `FillDaily` | the daily file, opened and streamed into `tmp/pr-d/build` |
| `WritePool` | the pool file, put together in memory and moved into the build directory |
| `HashContents`, `HashFiles` | the hashes of the rows, which make the id, then those of the two files |
| `Identify`, `RepointCommit` | the idempotent return, which may move the pointer |
| `Validate`, `DryRunReturn` | the gates; a dry run ends here |
| `LookDaily` .. `LookReport` | `exists()` of an artifact, and the comparison of a file that is there |
| `MoveDaily`, `MovePool` | `os.replace` of what the build directory holds by then |
| `OpenLineage`, `FillLineage` | the lineage, opened and streamed under its final name |
| `WriteManifest`, `WriteReport` | two files that are replaced whole |
| `Commit` | the one registry transaction |
| `Raise`, `Crash` | every way a call ends without a result; nothing is undone |
| `GovernUpdate`, `GovernRecord`, `GovernCrash` | the two statements of `set_snapshot_status` |

A file that is open is `Torn`, and stays so if its writer dies.  If two calls
have one open at once, whoever closes it leaves its own content or a torn one
(`mixed`).  `handle` is where the daily file that a call has open is by now: it
follows a move by another call to the final name, and is `Unlinked` once a
further move replaces that.

The row-level gates are one relation `Continues` between a content and a batch
here, and are spelled out in `Staging`.  A DuckDB lock error ends a call as a
crash does.

### Staging: `warehouse/staging.py`, the gates of `promotion.py`, `continuity.py`, `coverage.py`, `derived_limit_event.py`

The rows themselves: what happened at the exchange (`Histories`), what TDX and
Tencent answer of it with one fault a run, the candidate that staging makes of
the answers, and the gates a promotion puts it through.  A staging run is one
action up to the point where it gives up or stages, since it takes the lock of
nothing and leaves nothing behind when it fails; a promotion is one action
because `Promotion` shows how it reaches the disk.  TDX gives the last `Recent`
bars; the Tencent file of a code, once cached, answers whatever is asked later.
A close is a limit close when it is within `LimitTolerance` of the limit price,
as in `at_price`; the configuration has one tick (`config/strategy.yaml:39`).
Rows that are published already may come again in another order, which is
another id to the code: they go through the gates like any others.

### Update, Reconciliation, CanonicalChain: `_update_impl` and `_aux_backfill_impl` of `pipeline.py`, `reconciliation.py`

One code; codes never meet in a decision.

| Variable | Code |
|---|---|
| `offered` | what each provider has; `Revise` corrects it |
| `raw` | `raw/<provider>/daily_bars`, each file with its `recorded_at` and whether `source_files` lists it |
| `finished`, `held`, `records` | `ingest_runs`, `quarantine_records`, `reconciliation_results` |
| `latest` | what `latest_snapshot` answers with: its date, daily rows and pool |
| `got`, `pooled`, `factors`, `todo`, `due` | the local variables of a call |

`BeginUpdate` cleans up what an earlier call of the same run id wrote, `Fetch`
is the providers' answers with any row missing, `Write` is a file and its row
in `source_files` (`DieWriting` the death between the two), `PublishUpdate`
reconciles the window with the fallback rows and creates the snapshot,
`RecordResults` and `Finish` are the registry rows after it (`DieRecording` the
death among the records, which are inserted one by one).  A backfill
fetches factors and examines each held divergence, updating its record at once,
then publishes the released rows.  `Promote` is the next promotion on the
latest snapshot.  `Reconciliation` is `reconcile_daily_rows` for one key:
rows are told apart by their bar, on a scale with the policy's tolerance, their
preclose, and whether `pct_change` agrees with both.  `CanonicalChain` is what a
reader of the chain may rely on.

### Bootstrap: `warehouse/fetch.py` in `_bootstrap_impl` of `pipeline.py`

One run id, called again and again.  `Requests` gives what a call asks for, in
order, in three forms: `bulk` (flushed at once), `single` (one item in
process) and `isolated` (a chunk of codes in a worker process).

| Variable | Code |
|---|---|
| `run` | `ingest_runs.status` |
| `done`, `ledger` | `ingest_progress`, `ingest_failures.status` |
| `files`, `listed` | `raw/<provider>/<dataset>/`, `source_files` |
| `snapshot` | canonical files, manifest, row, publications and records of the published snapshot |
| `rows`, `keys` | `pending_rows` and `pending_keys` of `fetch_rows` |
| `offered` | what the provider holds; `Revise` corrects it |

`Answered` and `Failed` are a request's two ends, `Proceed` what `fetch_rows`
does after either: flush, wait for more, or with nothing to flush forget the
keys.  `WriteBatch`, `ListFile`, `Mark`, `Resolve` are one statement each, then
`CreateSnapshot`, `Publish` (twice), `RecordResults`, `Finish`.  The files,
manifest and row of a snapshot are one action because its id is a fresh uuid
that nothing else can name.  `Die` is a death or an error that no handler
retries, at any point; `DieFailing` is one among the failures of a request,
which are recorded one by one.

### AslLake, AslSnapshot: the external archive and its two readers

`AslLake` holds the archive as far as the adapters read it: bars, which come
with their session, and statuses, which come on the day, late from the two
histories the adapter trusts, or as a status of today given to a past day.
`QueryFacts` and `PhysicalFacts` are the two readers, each from three reads
(`View`) to rows and absences or `Raised`.  The physical reader wants a partition
of bars on some day of the window and one of statuses in some month of it
(`Partitioned`); the query reader does not look for either.  `AslSnapshot` builds a candidate
chunk by chunk while statuses move, and validates what it published as
`data_validate` does.

### Generation and PlanReader: `screen/generation.py`, `trade_plan.build_trade_plan_output`

The state of a code is the history its signal was computed from, with the
snapshot it is bound to: two states are equal exactly when the code's prefix
hashes are.  `ScreenCode` continues a state when `Fresh` holds and rebuilds it
otherwise, which is the runner's choice.  `Verify` hashes the states, and not
the output, into the generation id; `Look` is `exists()` of the root of that id,
and `Move` the `shutil.move` of the build root to it, which ends up inside a root
that another builder has put there since; `Commit` is the transaction.  `Seal`,
`Publish`, `Repoint` and `Govern` of `FormalPointer` go on between any two of
these steps.  `PlanReader` adds a reader with its three looks at the registry
and its walk over the state files of the generation it was pointed to.

### SetupEngine, SetupLifecycle, SetupReplay: `state/`, `strategy/`, `models/signal.py`, `replay.py`

One action per outcome of `evaluate_strategy`, tried in the code's order:
normal, invalid, anchor, confirmed, held, triggered, B1, watch.  A setup is
named by its anchor date.  `Observe` takes in one bar later than the last one;
the days between may be missing (suspension).  Prices are small integers,
buffers are gaps of some of them, and what indicators, patterns and volumes
decide is chosen freely, so the results hold for any of their definitions.
`Accepts` is the validator of `StrategySignal`.  `SetupLifecycle` is what a
reader of the signals may rely on: a setup opens once, its floor is sealed
before its trigger, both stay as sealed, and a dead setup stays dead.
`SetupReplay` appends each signal to the timeline and derives the setup
summaries from it, as `replay.py` does; its run checks the module itself,
without an MC module.

### TradePlan, Outcome, ExecutionReality, OutcomeStudy

Pure operators from a signal to its plan (`BuildTradePlan`, with the validator
`ValidPlan`), from an event and the sessions after it to its fill, result,
patterns and conversions (`CompleteEvent`), and from a filled episode to its
strict and conservative T+1 exits (`ResolveExecution`).  `OutcomeStudy` runs the
engine to any event it can freeze, lets sessions come one by one, and applies
the study, the relabelling of an older artifact and the T+1 check after each.

### ScreenRun: `screen/runner.py`, `screen/chunks.py`, `screen/verify.py`

A call is a request with a path (sequential with verification, parallel
workers, chunked children), pieces of work that open a spool, load, screen and
save a code at a time and close, then the merge and the manifest.  A signal is
what it was computed from, so a state that was continued wrongly is told from a
rebuilt one.  Two calls, a death of a process or a worker, and the withdrawal of
a snapshot interleave.

## 3. What TLC checks

Every property of a passing run has a mutant in `PROJECT.json`: a plausible bug
in one definition, kept beside it, under which TLC finds that very property
violated.

| Run | Question | Bounds |
|---|---|---|
| `promotion_callers` | Does a registered snapshot have all its artifacts in place, and is every step a `FormalPointer` step? | 2 callers, 2 editions of a batch, 1 crash, governance |
| `promotion_retry` | Is what is published the recorded base plus the recorded batch, is no artifact replaced, and do leftovers never block a retry? | 1 caller, 3 batches, 2 evidences, 2 crashes |
| `bootstrap_resume` | Is what is marked stored, what is missing recorded and retried, and nothing fetched twice? | 4 items in 2 datasets, 2 versions, 2 failures, 1 death |
| `bootstrap_deferred` | Are failed items retried by the next run of the same id, as `fetch_rows` says?  (Not the rate-limited ones.) | the same |
| `update_chain` | Are the snapshots a chain, each row traced to a listed file, each confirmed one to two providers, each missing one explained? | 4 days of 3 sessions, window 1, 1 revision, 1 gap, 1 death, 1 backfill |
| `update_downgrade` | Does a gap never downgrade a confirmed row, as its docstring says?  (It does.) | the same, without promotions |
| `staging` | Do published precloses chain, does the universe miss no bar, is the pool the limit closes? | 4 codes, 3 sessions, 1 fault, 2 promotions |
| `asl_snapshot` | Do the two readers agree over all windows and chunks, is no fact changed in hindsight, is a candidate whole? | 2 codes and a stranger, 3 sessions, 2 oddities, 1 build |
| `plan_reader` | Does an incremental build activate what a rebuild would, does a rebuild succeed, does the state pointer resolve, is no root replaced, is a plan output the whole of one generation or nothing? | 2 builders, 2 codes, 2 snapshots, 3 jobs, 1 crash, a quarantine, 1 reader |
| `screen_run` | Are states and manifests those of a rebuild, and is an answer that was to be verified verified? | 2 calls, 2 codes, 2 snapshots, 1 death |
| `setup_replay` | Are signals accepted, levels frozen in order and used from the next day, the lifecycle kept, the summaries consistent? | 6 days, 3 prices |
| `outcome_study` | Does no event abort the study, does a win pay, is what was decided final, do the T+1 exits agree? | 4 days, 4 prices, 3 later sessions |

Why these bounds are enough for the interesting cases to occur:

- Promotion: a batch and its corrected edition compete for one base and leave
  leftovers of each other; in the retry run a second batch gives a base that
  grows, two evidences leftovers of another run of the same content, and two
  deaths a retry that dies too.  `AloneOrQuiet` lets two callers meet, at any
  step of either, while nothing dies, nothing is governed, no call is a dry run
  and no call that raised has left artifacts; a caller that is alone meets a
  death, governance, dry runs and what such calls leave.  At most one snapshot
  is published on top of the root.  The symmetry exchanges the callers and the
  two editions.
- Bootstrap: a dated bulk dataset, and a code dataset in two isolated chunks of
  two codes and of one, give a flush at once, a flush that waits, a failure that
  resolves and one that cannot, and a death that leaves one failure of two; two
  failures and a death meet in one run id.  `OneCorrected` lets the provider of
  one code correct its rows, which is enough for two versions to meet in a batch
  or a snapshot.
- Update: three sessions with a closed day between them give an update over no
  session, a window that reaches back into published rows, an update that is
  repeated after a death with another answer, and a backfill whose end is past
  the frontier; the death may come among the records of a run; the offers make AKSHARE late on the last day or diverge in
  preclose on the day the factor changes; the revision may contradict.
- Staging: a code suspended for a day and a steady one, one of another board,
  and one newly listed; closes at the limit, a tick off it, which the tolerance
  admits, and two ticks off, which it does not; a TDX window shorter than the
  sessions, a cache of other sessions, and batches of one or two sessions on any
  base.
- Archive: a code whose closes differ and one that never moves, so a wrong
  predecessor shows and a right one does not; listing on the first day, on the
  second, or leaving; two oddities among missing bars, missing amounts, zero
  closes and statuses of any source.  The last day is the first of a month
  (`MonthOf`), so a window may have bars without a partition of statuses.
- Generation, plan: `s1` corrects the first session of `s0` and has one more, so
  a state may be fresh, stale, ahead of its date, bound to another snapshot or to
  one that is withdrawn while the build runs; the jobs are a full build, an
  incremental one, and a dry run in arrears.  Builders share the registry and
  the roots, and not their build roots, so `Meetings` has two at work at once
  where that matters: over one snapshot, one of them past its screening and the
  other starting from nothing or done as well, before any death.  Otherwise one
  works beside what the other has left.  The reader meets the registry at every
  step, and one builder, from its test of the root to its commit.
- Screen: one code is suspended on a day and the second snapshot revises the
  other's first bar; the requests hold each path, a rerun, a rebuild, another
  commit and a daily run in debug mode.  `Calm` lets deaths and withdrawals happen while at most one call is
  at work.  Calls are interchangeable, hence the symmetry.
- Setup, outcome: six days hold an anchor, a watch, B1, B2 and confirmation with
  one day to lapse or to be superseded; three prices separate below, at and
  above every level.  For outcomes four days reach every label a plan has
  (`Fitting` keeps the histories before an event few and the sessions after it
  to the ones that its label looks at), and the view forgets the replay once an
  event is frozen, as the code does.

Deadlock is checked in `promotion_callers`, `promotion_retry`,
`bootstrap_resume`, `plan_reader` and `screen_run`.  The
other models end: a calendar, a tape of bars or a bounded number of revisions
and faults runs out.

### Fairness

- `Promotion`: a call that has begun goes on (`WF Step`), and operators do not
  stop promoting what is left to publish (`SF BeginUnpublished`; strong, because
  another call may disable it in between).  Nothing promises that an operator
  asks: `LeftoversNeverBlock` says that if they do, no leftover stands in the
  way.
- `Generation`: a builder that has begun goes on, and some builder or other does
  not stop asking for the rebuild of the snapshot the pointer stays on
  (`SF BeginRebuild`, over all builders, since one of them is enough).
- `Bootstrap`: the call goes on, and the run id is called again without force
  while it is not reusable.  Failures and deaths are bounded, since a provider
  that always fails lets nothing complete.  `PendingIsRetried` ends where a retry
  is rate limited: what becomes of that item is the second disagreement below.

The other modules state no fairness and no liveness.  An update that is asked
for and not interrupted ends, by its straight line of steps; whether it is asked
for is the operator's.

### Two disagreements with the repository's own words

`update_downgrade`: the docstring of `_historical_daily_rows`
(`warehouse/pipeline.py:402`) says that a transient gap never silently
downgrades a confirmed row.  Inside the revision window the row published as a
provider's and the row it last stored are both put into its answer; if the
provider was revised in between, the two differ, reconciliation takes that for a
contradiction, leaves the provider out, and publishes the other provider's row
as PROVISIONAL.

`bootstrap_deferred`: the docstring of `fetch_rows` (`warehouse/fetch.py:412`)
says that failed items are recorded and retried on the next run of the same run
id, and that of the module (3-5) that such a run retries missing and failed
items.  A rate-limited item is recorded as DEFERRED_RATE_LIMIT (`fetch.py:568`)
and not as PENDING, and only PENDING failures keep a completed run from being
answered from the registry (`pipeline.py:765`): the next call of the run id
returns the snapshot without the item, and asks for nothing.

### Observations

What the code does at places where nothing in the repository says otherwise, but
for the pool mode of chunks under Screen.  None is a property of a run; they are
kept for those who change the code.

- Promotion.  Nothing keeps two calls apart, and they share the build directory
  `tmp/pr-d/build` (`promotion.py:594`).  An id may then be published with a file
  it does not hash; an artifact that is in place may be replaced, when both have
  looked for it before either moved its own (920-930); and one call may go on
  writing a daily file that the other has moved to its final name.
  `VisibleInPlace` says what is left: the names are there.  With one caller only
  the lineage is at risk: it is written under its final name (937-942), a death
  leaves it half-written, and the retry finds it and publishes the snapshot with
  it, although the header of the module calls what a crash leaves unreferenced
  orphans (line 13).  A status transition is two statements (`metadata.py:599`):
  a death between them leaves a status that no record accounts for, and the
  retry returns early.  The idempotent answer precedes every gate.
- Generation.  The id leaves the output out (`generation.py:689`), so a row may
  record the hash of another output than the one on disk (795); asking for a
  generation that is already ACTIVE reports the pointer on it without moving it
  there (744).  Of two builders of one id that both found no root, the second
  moves its build root into the first one's (804), where it stays as a stray
  directory.
- Update.  A backfill reads raw files by directory, so also those a dead update
  wrote and never listed (this is why `Traced` and `ConfirmedByTwo` except a
  released date after a death).  A code that has no row at all in a run's window
  gets no INCOMPLETE record of it, and a backfill whose end lies past the
  frontier moves it over sessions that no run comes to: `Explained` says what is
  left, that a session which is not published has a record once a provider gave
  a row of it, or any row of the code to the run that came to it.  A death
  between the UPDATE of a quarantine record and the new snapshot loses the
  released row.  An update over no session completes without a snapshot, and the
  same call again answers with snapshot None.  A released row is added beside
  one that the date has.  Promoted rows of TDX are one provider's for the next
  update.
- Screen.  Two live runs of one id share spools (`ManifestsAreRebuilds` excepts
  them); workers outlive a killed parent; verification over no row holds
  vacuously; `--start` with an incremental verification raises after the state
  was saved; a chunked rerun overwrites a verified manifest.  The command line
  of a chunk child leaves the pool mode out (`screen/chunks.py:161`), which the
  child then takes for formal (`chunk_child.py:28`), while the manifest records
  the mode of the call (`chunks.py:246`): `screen --rebuild --pool-debug` does
  not do what `DECISIONS.md:97` and the help of the option say (`cli.py:259`),
  and a chunked request in debug mode violates `ManifestsAreRebuilds`.  The mode
  is not part of what makes a state stale, so a state keeps the data quality of
  a debug run until a day is added to it.
- Outcome.  The sessions the study follows are configurable
  (`config/outcome_study.yaml:3`), those of the T+1 check are fixed at 10
  (`execution_reality.py:42`); `SameExits` needs them equal, as they are by
  default.  On a day that touches both stop and target the study and the T+1
  check decide differently; `prep_conversion_1d` answers False with no session
  read yet; one event without room would end the whole study (`StudyCompletes`
  shows that the engine and the plan never produce one).
- Staging.  A batch whose sessions hold no bar at all would end before its base,
  and the next one could then chain from the wrong close; the gates do not look
  for it, and `MarketAssumption` says that it does not come about, since on
  every session some main-board code trades.  A code listed since the seed never
  enters by staging one session at a time.  A Tencent cache file answers for
  other sessions for good; the rows then stay PROVISIONAL, and coverage refuses
  the promotion.  TDX gives five bars, and older sessions are silently absent.
  The continuity gate of staging compares rows with the chain they were built
  from and cannot fail; `publish_eligible` is never read.
- ASL.  Over a window in which only codes of other boards have bars the query
  reader raises, and the physical one answers with an empty scope.  Over one
  without a partition of statuses the physical reader raises
  (`asl_adapter.py:328`) and the query reader answers, which is why
  `ReadersAgree` asks for the partitions.  A row
  without an amount is dropped from a candidate, and `data_validate` then blames
  the next row of the code (`validate.py:126`).  A status refresh of the same
  day replaces the row that excused an absence.
- Plan output.  A state of another day is passed over without a word, a missing
  generation root gives an empty output, a status withdrawn after the third read
  goes unnoticed, and one unusable state aborts the whole output.

## 4. What is proved

Every safety property of every passing run, for any callers, contents,
calendars, prices, requests, failures, gaps, revisions and deaths.  Each proof
module defines an inductive invariant `IInv`, checked by TLC first, and adds to
it what single properties need (`SetupProofs` two more, `RInv` of the replay and
`SInv` of the study).

The proofs rest on the named `ASSUME`s of each module, all evaluated by TLC.
Most give types, or say that a sentinel is outside the set it stands beside.
Those with content are

- `SetupEngine`: a support may lie above the close by less than its invalid
  price lies below it;
- `Staging`, `MarketAssumption`: on each session some main-board code of the
  root trades;
- `OutcomeStudy`, `SessionAssumption`: a session's low is not above its open,
  nor that above its high.

Four theorems have a hypothesis of their own, which their statement names:
`OneCaller` (twice: two callers share a build directory, see the observations),
`FormalChunks` (chunked calls are made in the formal mode, for the children run
in no other) and `SameWindow` (the study and the T+1 check follow as many
sessions, 10 each by default).

- `PromotionProofs`: `TypeCorrect`, `VisibleAlwaysInPlace`, `Refinement`,
  `ArtifactsImmutable`, `BasePlusBatch`.  That a visible snapshot has all its
  files is not inductive: it needs what a call knows at each stage, namely that
  the artifacts it has passed are in place (`Consistent`), and that no step of
  any call takes a name away, though it may put another file under it
  (`FilesStay`, `SealedKept`).  Each step then maps to a seal, a publication, a
  repointing, a governance decision, or a stutter.  The last two are for one
  caller: what it did not find when it looked is still missing when it writes
  (`StillMissing`), and from the hashing on both build files are those its id
  was made of (`BuildsExtended`), since every call empties them before it reads
  them; artifacts left by a dead call under an id have that id's contents.
- `GenerationProofs`: `TypeCorrect`, `IncrementalIsRebuild`,
  `StatePointerResolves`, `Immutable`, and of the reader `OutputsAreWhole`.
  `Consistent` says that a code screened in this run has the state of a full
  rebuild, whatever was there before, and that a verified id is `Genuine`; the
  heart is `Rejoin`, that a history cut at any session and continued is the
  whole history.  The reader needs no lock because an activated root never
  changes: what it was pointed to stays what the registry said of it, and a
  state of another snapshot or day is not accepted.
- `BootstrapProofs`: `TypeCorrect`, `ProgressIsStored`, `RunIsAccounted`,
  `NothingFetchedTwice`, `RawFilesKept`.  The invariant follows an item through
  a call: asked for, waiting, written, registered, marked; an item the call has
  passed by is done, waiting or a known failure.
- `UpdateProofs`: `TypeCorrect`, `RowsTraced`, `ConfirmedByBoth`,
  `MissingExplained`, `Refinement`.  A published row is `Backed` by a listed
  file that is `Settled`: of the bootstrap, or of an update that has moved the
  frontier past its own start.  A clean-up removes files of a run that starts at
  the frontier, hence none that is settled; what a call publishes is read from
  its own listed files, from settled ones or from rows that were backed, and
  publishing settles the former.  A released date is told by its mark in
  `quarantine_records`, which is only taken off when the date is held again
  (`ReleasesMarked`).  `MissingExplained` needs that what is written lies within
  the window of its run (`Accounts`), so that whoever comes to a session reads
  all that was said of it.  `Refinement` needs of the invariant that an update
  under way started at the frontier.
- `StagingProofs`: `TypeCorrect`, `PrecloseChain`, `UniverseCovered`,
  `PoolExact`.  Of every snapshot, withdrawn ones included, the invariant says
  that its rows are the exchange's, one to a key and none past its date; of a
  candidate, that its CONFIRMED rows are such rows of its own sessions.  Two
  chains are then joined where the batch begins: the last row of a code in the
  base is the predecessor of its first row in the batch, because the dates of
  the base end before the batch does begin.  `PoolExact` holds for any tolerance
  of the limit close: the events of a batch and the pool of the rows it adds ask
  the same question of the same close and preclose.
- `AslProofs`: `TypeCorrect`, `ReadersAnswerAlike`, `AnyWindow`,
  `NeverHindsight`, `CandidatesWhole`, `BlameIsExplained`.  What a reader says
  of a key is shown to be a function of the lake alone (`Fact`, `Excuse`): the
  search before the window and the chain inside it always meet at the last
  close of the code.  Agreement, where the partitions of the window are there,
  and independence of the window follow, and hindsight needs only the trusted
  statuses.  A build reads while the lake
  moves, but a session that has come is never revised, so what it has of bars
  and of the closes before the window is what the lake says now (`CallOK`).
- `ScreenProofs`: `TypeCorrect`, `PersistedRebuilds`, `VerifiedReturns`,
  `PublishedRebuilds`.  The first invariant says what each piece of work has
  loaded and is about to save, and that a slice is one run's; a state is
  continued only over a prefix of equal bars, and evaluated by one commit.
  Answers are verified because two live calls of an id have been seen to be two
  (`Sharing`) and a call alone keeps the manifest it published.  For the
  manifest, each piece has the rows of the codes it has been through
  (`Listing`), and the spools, of a call that has its id for itself, have the
  rows of the pieces (`SpoolsHold`), whatever a dead call had left in them.
- `SetupProofs`, of the engine: `TypeCorrect`, `AlwaysAccepted`,
  `FreezingOrder`, `EntriesAreValid`, `YesterdayDecides`,
  `LifecycleImplemented`, and two that no run lists, `RecoveryIsNeverFirst`
  (`state/engine_helpers.py:437`) and `ReasonsStand` (`state/engine.py:392`).
  The invariant says what a signal holds at each stage and how old it is; every
  step loses the anchor, opens a setup or continues one, so each property is
  argued on three cases and not on eight.
- `SetupProofs`, of the replay: `OneLifeAtATime`, `EndsAreFinal`.  A timeline
  has its days in order and its setups in order, each of them there on the day
  it is named by (`Story`), and its last day is the engine's (`Current`).  A
  setup's days are then an interval, and what a further day adds to a closed
  setup is nothing, or the anchor that supersedes it.
- `SetupProofs`, of the study: `NoStudyRaises`, `WinsArePaid`,
  `DecidedIsFinal`, `SameExits`.  An event is sound because the signal it was
  planned from satisfies the engine's invariant (`EventSound`); an episode is
  what the labelling says of the event and of the sessions read
  (`EpisodeFollows`).  What is decided on some sessions is decided alike on more
  of them, since each label looks for the first session at which something
  holds and that one stays the first.  The T+1 exits compare that session with
  the next at which the position may be sold.

Only model-checked:

- the liveness properties (`LeftoversNeverBlock`, `RebuildSucceeds`,
  `PendingIsRetried`), which are beyond the prover;
- the violations `NeverDowngraded` and `FailedAreRetried`, which are
  counterexamples of TLC.

No module with a theorem declares a RECURSIVE operator; what a fold or a
recursive function computes for every input is not proved anywhere.

## 5. What the models leave out

- Promotion: the spool that the daily file is sorted through, files damaged on
  disk; a file that two calls have written is `Torn` or what one of them wrote,
  and what a formal reader makes of a torn one is not looked at.  Staging: several callers, a staging run that dies (it leaves files that
  nothing reads), sessions and universes the operator hands over wrongly.  Every
  staged close is the traded one (a fault takes a row away or makes it less than
  CONFIRMED), so of `MembersCovered` the presence of a bar is what is checked, and
  not its close.
- Bootstrap, Update: the records of a run, and the failures of a request, are
  inserted one by one in the code and in one step here, except that a death may
  leave any of them (`DieRecording`, `DieFailing`); no other call reads them
  before this one ends.
- Update: other codes; `daily_basic` and the instrument tables; BAOSTOCK's rows
  in the checked instance (the proofs have them); a bootstrap that goes on
  beside an update, which the lock excludes; snapshot statuses, since
  `latest_snapshot` does not look at them.  Row hashes are the rows.
- Bootstrap: one run id; several providers of one row; a provider that starts to
  have rows for an item it answered as empty; the composition of isolated chunks
  is given by `Requests`; other runs of the same end date.
- Generation: every code trades in every session; two builders use two build
  roots, on the filesystem of the generations, so that a move is a rename.
- Screen: the sequential path without verification, which runs on a machine with
  one processor or with a failpoint set (`runner.py:763`); `derive_status`, indicators, memory limits and the sampling of it; the
  data quality of a signal, for which a row has the pool mode instead.
- SetupEngine: volumes, averages and patterns are free choices; the three
  invalidation reasons that read them are one, `STRUCTURE`; how supports are
  clustered is a choice of a price the code's filter admits; immediate
  resistance, scores, entry quality and data quality are absent.  The limit-up
  of a day does not change later, which holds within a chain of snapshots: the
  runner rebuilds a code when the prefix of its pool has another hash.
- Trade plan, outcome, execution reality: position sizes, scores, texts,
  aggregates over episodes; prices are small integers and a tick may be none.
- ASL: partitions of the calendar and the instruments file are taken to be there,
  and a dataset that is absent is one without rows to the query reader; the SQL
  and the parquet schemas; the archive's own collection beyond the
  order in which bars and statuses arrive.

### Not modelled

Ranking (a sort over scores the models leave out), audits and studies (reports
over published data), evidence receipts (hashing of files), the command line and
configuration, and the parsing in the adapters of TUSHARE, AKSHARE and BAOSTOCK:
I/O, formatting or pure statistics with no state of their own.  Indicators and
scores are decimal arithmetic over long windows, out of TLC's reach.

## 6. Plan

1. Done: the modules of section 2, and a theorem for every safety property of
   every passing run (section 4).
2. Of the code, next: the checks of `data_validate` on pools and inventories,
   and `derive_status` of the screen; then a caller of `promote_snapshot` whose
   base is quarantined while the batch is built (`promotion.py:563`), for which
   no document says what should happen.
3. Of the proofs: what is beyond the prover is the liveness of `Promotion`,
   `Generation` and `Bootstrap`.
