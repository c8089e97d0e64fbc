# Specifications of the football prediction lab

TLA+ specifications of the stateful core of `football_prediction_lab`, with TLC
configurations that check them on small instances and TLAPS proofs of their
safety properties for any instance. `PROJECT.json` links every definition to the source
lines it models, lists the runs, and says where each hazard of the code bites.

Paths below are relative to `src/football_prediction_lab/` unless they start with
another top-level directory of the repository.

## 1. The system

The lab issues pre-match football predictions (markets `btts` and `cards`) locally and
in shadow mode only: `commercial_release` is false everywhere. Data flows one way, and
components meet in files:

```
 CSV file --> local ingestion --> manifest --> shadow run --> shadow ledger --> service / API
 providers --> shadow ingest --> SQLite store, raw archive        |                  |
                                                                  v                  v
                            worker (cycles, retries, breakers) --> notifier     audit log
```

| Component | State it keeps | Operations | Hard behaviour | What makes it correct |
|---|---|---|---|---|
| Local worker (`worker/core.py`) | state file, lock file, event log; per process the loaded state | `run_once`, `run_forever`, startup recovery | several processes, kills, exceptions, timeouts that leave a thread running, retries, circuit breakers | cycles exclude each other; an accepted event is never lost; a finished event is not delivered again; the key lists agree |
| Shadow runs (`shadow/runner.py`) | per run an artifact and a run record | `run_shadow` | files written in place, a crash between any two, two callers at once | an artifact is never changed; a recorded run is backed by ledger and artifact; a repeated request resumes |
| Shadow ledger (`shadow/ledger.py`) | one hash-chained JSONL file for all runs | `append_prediction`, `verify`, `sha256` | verify, read and append without a lock; an append that is cut short | one chain, no duplicate id, nothing removed |
| Prediction service, local API (`service/`) | API audit log, service artifacts | `predict`, `health`, validators, HTTP dispatch | a thread per request on one ledger; counts and hashes read separately | an answer that was sent is audited, and is what the ledger says |
| Telegram notifications (`notification/telegram.py`) | notification ledger | `prepare`, `send` | at-least-once delivery around a crash, retries, dead letters | an attempt is logged before it is made; nothing leaves in dry-run; a sent notification is skipped |
| Local ingestion (`ingestion/local_csv.py`) | raw, normalized, processed, quarantine files, manifests, registry | `ingest_file`, `validate_manifest`, `replay_manifest` | a dozen files written one after another; file names by content hash, manifests by run id | a match id is accepted from one input only; a manifest describes the files it names |
| Source adapters, shadow ingest (`source/`, two scripts) | response cache, SQLite rows, raw archive | `run_once`, `fetch_league_season`, the loop and the pipeline | several transactions per run, scripts on one database, a cache that expires between two reads | rows refer to rows that exist; counts and times of fixtures are accounted for; an analysis passes its audit unless the provider moved the match |
| SQLite store (`storage/sqlite_store.py`) | tables | transactions, inserts, backup, restore, health | rollback, replaced backups | idempotent inserts; a failed restore leaves the database as it was |
| Source readiness (`ingestion/external_readiness.py`) | report, manifest | audit of records, write, validate | duplicates of a refused record, a manifest of another report | every record is counted and accepted for a reason; what validates belongs together |
| Prediction ledger (`ledger/append_only.py`, two scripts) | hash-chained JSONL file | write predictions, reveal outcomes, verify | scripts that overlap, a file that is removed and written again | an outcome follows its prediction, once |
| Research ledgers (`nqbe_api.py`, `evaluation/*ledger*`, `evaluation/manual_results.py`) | JSON files | append, verify | rewriting of the file | nothing recorded is lost |
| Odds gate (`evaluation/` odds, commercial gate) | odds rows | ingest, source policy, audit, gate | quotes of one outcome given twice, late or mismatched | a prediction is compared with one pair of one moment before it was issued |
| Evaluation scripts and gates (`scripts/evaluation/`, `learning/`) | reports, decisions | folds, scoring, report, gates that read it later | off-by-one between train, validation, test; a data set that grew since the report | no fold looks ahead; a gate compares like with like |
| Holdout policy (cycles 35 and 36) | lock, predictions, evaluation, policy and their manifests | freeze, evaluate, select | files replaced while a script runs, deaths between two files | manifests that verify describe what was used |
| Release gate, kill switch (`release/`) | decisions | pure functions, one switch | combinations of conditions | fail closed |
| Features (`features/`) | rolling histories | one pass over matches in time order | same-time matches, update before read | a feature uses only what was known before kickoff |
| Player warehouse (`player_warehouse/`) | alert and drift states | thresholds, cooldowns | boundaries | no duplicate alerts |
| Data sources (`data_sources/`) | rate limiter of a client, shared response cache | fetch through limiter and cache | calls that queue behind a sleep, responses out of order | never above the rate; no answer staler than the cache may keep |
| Android companion (`android-companion/`) | outbox table | `SyncWorker.doWork`, retry marks | lost answers, retries, deaths between two statements | nothing entered is lost; every event is answered in the end |
| Stand-alone services (`services/` at the root) | history file, SQLite cache | accumulators, win estimates | torn history, correlated legs, concurrent tasks on one cache row, a backup model | legs are apart; an estimate is of the data it was asked for, or a cached one |
| Models, metrics, AI adapters, scripts, SQL/JS schemas | none or numeric | fitting, reports | - | out of scope, see 11 |

Components call each other directly: the worker gets its source, predictor and notifier as
callbacks; the service calls `run_shadow`, which calls `validate_manifest` and the shadow
ledger; the API calls the service from one thread per request. Everything else meets in
files below an output root, and only the worker and the API audit log use a lock. The parts
from `SyncOutbox` down in the plan are modelled each by itself.

## 2. Plan

In the order of importance; a module is listed with what it composes.

| Module | Models | State |
|---|---|---|
| `WorkItems`, `Worker`, `WorkerMC`, `WorkerProofs` | worker processes on one output root | done |
| `PredictionLog`, `ShadowRuns`, `ShadowRunsMC`, `ShadowRunsProofs` | shadow runs, ledger, the service's predict | done |
| `TelegramSettings`, `TelegramAdapter`, `TelegramAdapterProofs` | what adapters are given; notification ledger, attempts, restarts | done |
| `Files`, `IngestionJobs`, `LocalIngestion`, `IngestionExtracts`, `LocalIngestionMC`, `LocalIngestionProofs` | what ingestion is called with; the calls, the files and manifests they leave; `Files` is shared with `ShadowRuns` | done |
| `ProviderSeason`, `ShadowIngest`, `ShadowIngestProofs` | what the provider answers; its cache, ingest runs, SQLite rows, AI pipeline, audit, backup and restore | done |
| `Records`, `RecordsMC` | shadow runs, adapters, ingestion and shadow ingestion as one specification, and its instance | done |
| `SyncOutbox`, `SyncOutboxProofs` | the outbox of the companion, its worker, its server's answers | done |
| `OddsGate` | odds rows, source policy, audit, commercial gate | done |
| `Experiments` | the folds of every evaluation script, reports, retraining gates | done |
| `HoldoutPolicy` | cycles 35 and 36, their files and manifests | done |
| `PreMatchFeatures` | the three feature builders against a reference definition | done |
| `ApiGateway` | dispatch, the appends of concurrent shadow runs, audit and answers | done |
| `ExternalReadiness` | audit of a source's records, report and manifest | done |
| `PredictionLedger`, `PredictionLedgerMC` | the generic ledger and the scripts that fill it | done |
| `Accumulators`, `WinInference` | the stand-alone services | done |
| `DataSources` | rate limiter, shared cache and requests of the clients | done |
| `Lab`, `LabMC`, `LabServicesProofs`, `LabEvaluationProofs` | the modules above from `SyncOutbox` on, as one specification; its instance; the theorems about its parts | done |
| `ResearchLedgers`, `PlayerAlerts`, `AiGuardrails` | the other ledgers, alerts and their transaction, acceptance of assessments | left |

Of the invariants, action properties and refinements in the passing runs each is a theorem
now (section 9), of its own module if a run checks it in a composed one. Worth proving next:
`OneInputPerMatch` as the refinement of an abstract registry of claims, and for
`TelegramAdapter` an abstract delivery log that one adapter implements.

The type invariants of the first five components hold for every instance by proof (section
9) and are not repeated in the runs.

## 3. The worker

`Worker` has one process per element of `Workers`, all on one output root. Shared files are
`lockFile` (`worker.lock` exists) and `disk` (the `WorkerState` last saved); a save is
atomic in the code (`os.replace`), and so in the model. Per process: `pc`, `held`
(`FileLock._held`), `mem` (the loaded state), `now` (the `as_of` read at the start of the
cycle), `batch`, `attempt`, and `late`, the notifier threads a timeout left running
(`ThreadPoolExecutor` cannot stop them). `clock` moves on its own.

A step ends at each save, each lock operation and each callback. `acquire` takes two: the
file is created with `O_EXCL` (`Create`, in `RunOnce`, `RunForever`, `LoopRunOnce`,
`Reacquire`), and `_held` is set once the pid is written (`TakeLock`). An exception between
the two, of a disk that is full, leaves a file that nobody holds. `LoadAndRecover`,
`Heartbeat`, `SourceFails`/`SourceReturns`/`SourceCircuitOpen`, `SkipEvent`,
`AcceptEvent`, `Prediction*`, `Notif*`, `SaveEvent` and `FinishCycle` are `run_once` in
order; `RunForever`, `LoopRelease`, `LoopRunOnce`, `LoopBlocked`, `Reacquire*`, `LoopStop`
are `run_forever`, including that it gives the lock up before each iteration and, at the
end, loads and saves the state, whose `status` nothing reads. `Interrupt`
is an exception that unwinds the process through its `with` blocks, `Kill` a death that
does not. `accepted`, `rejected` and `delivered` are history.

Left out: the event log (written, never read by the worker), fields of the state no branch
reads, backoff durations (a sleep may take any time). The prediction id is the event key,
as `scripts/ops/scripts_run_worker.py` builds it.

`WorkItems` is the abstract specification: events are pending, have an outcome, are done.
`ImplementsWorkItems` is the refinement.

| Run | Instance | Shows |
|---|---|---|
| `worker_processes` | 2 processes, 1 event, 3 cycles, 1 interrupt, no kill, `FairSpec` | `MutualExclusion`, `AcceptedNeverLost`, `SettledNeverRedelivered`, `ImplementsWorkItems`, `LockReturned`, `MarkerRecovered` |
| `worker_cycle` | 1 process, 2 events, 4 batches, clock to 3, 3 cycles, 1 interrupt, 1 kill, in `shadow` or `dry-run` mode | `ProcessedOnlyAfterOutcome`, `StateFileAgrees` |
| `worker_killed` | 1 process, 1 kill, `FairSpec` | violation of `CrashRecovered`: a killed process leaves the lock behind, and the marker is never recovered |

`LockReturned` has two parts. A lock file goes away again or is `Stranded`: it exists and no
process holds it or is about to. And a file is stranded only by a kill or by an exception
between creation and `_held` (`StrandedExplained`), so nothing a callback does strands one.
`MarkerRecovered` says that a marker is recovered or the file stranded. `worker_killed` is
what becomes of a marker then.

Bounds. Two processes are enough for a lock: every rule about it relates a pair. Three
cycles let an event fail, be recovered or requeued, and be settled; a threshold of two and
a cooldown of one open, half-open and close each breaker within them; two attempts give a
retry and an exhaustion; a clock of three puts the kickoff of one event between two cycles.
`MaxInterrupts` and `MaxKills` bound the environment and are named constants. The two-event
instance has one process because events interact only through one process's state. A kill is
in that run and not in the one with two processes: a killed holder's lock stops every other
process too, which is what `worker_killed` shows.

Fairness. `FairSpec` has weak fairness on the steps of a cycle and of the loop (every
callback runs under a timeout, `_call_with_timeout`) and strong fairness on `RunOnce`, since
the script is started again and again while other processes take and return the lock.
Nothing is assumed of callbacks, of `run_forever` being started, of crashes, or of the
clock.

## 4. Shadow runs

`ShadowRuns` has callers (API threads, command lines) on one output root. Files: `ledger`,
and per run id `artifact` and `record`, which are `Files`: written in place, and so absent,
empty (`Torn`: opened for writing, not yet written) or whole. A line is appended to the
ledger by one write, which a death or a full disk can cut (`CutAppend`): part of the entry
is in the file, or all of it but its newline, and then the next line runs together with it.
`cuts` has the places where a line is not one entry, and `unended` says that the newline is
missing. `records` raises on a cut line (`Readable`), and so does every `verify` from then
on. Hashes do not collide: the hash of a ledger line is the sequence of
predictions it is computed from, the hash of a file is its text. A request is a run id and
a plan, the sequence of predictions the eligibility loop of `run_shadow` builds from it; in
a prediction `id` stands for everything `_prediction_id` hashes and `cutoff` for
`training_cutoff`, which is in the ledger line and not in the id.

A step is one file operation, in the order of the code: compare the artifact, test that it
exists, open, write, hash it; per prediction verify, look it up, read the last hash, append;
verify, hash the ledger, find, compare or write the record; count and hash the ledger for
the answer. `Refuse` is any `ValueError` of that path, which the service turns into
`blocked_provenance`. `Crash` can happen between any two steps.

`PredictionLog` is the abstract specification: a log to which each id is added once, and
runs that are complete only when their plan is in it.

| Run | Instance | Shows |
|---|---|---|
| `records`, part `runs` | 1 caller, 5 requests, 4 calls, 2 crashes or cuts | `ChainIntact`, `RecordMatchesArtifact`, `AnswersAgree`, `ResumedUnlessTorn`, `ImplementsLog` |
| `records`, part `threads` | 2 callers, 2 requests with a common prediction, 3 calls, 1 crash or cut | `PlansCovered`, `BreaksContained` (`RecordCoversPlan` and `BreakContained` here) |
| `shadow_fork` | 2 callers, no crash | violation: `ChainIntact` |
| `shadow_replay` | 1 caller, no crash | violation: `ReplayAccepted` |

Bounds. The five requests are chosen for their conflicts: two runs with one plan, one run
id with two plans, one prediction id with two cutoffs, an empty plan. Four calls let a run
be crashed twice, resumed and contested, and two cuts make a line of two parts, or a cut
line after one that has no newline. Two callers suffice to break the chain, and a third
would only add lines of the same kind; the third call meets what the first two left.

What this says of the code: with one caller at a time the entries stay one chain through
crashes, but a crash inside a file write leaves a file that blocks its run for good, and one
inside an append a line that blocks all runs (`ResumedUnlessTorn` names exactly these
refusals). With two callers at once only what does not depend on reading before writing
survives: `RecordCoversPlan` and `BreakContained`.

## 5. Telegram notifications

`TelegramAdapter` has adapters (one process each) over one append-only `ledger`. An adapter
is constructed with a configuration (`Construct`, which refuses production and a test
adapter without a client), is handed a notification (`Send`, with the guards of `prepare`
and of `NotificationPolicy.permits`), looks for its latest event (`SkipDuplicate`,
`NotSettled`), and then either logs `dry_run` or goes through attempts: log
`attempt_started`, call the client, log what came of it. Each is a step, so `Crash` can fall
between a delivery and its `sent` event. The client delivers, raises, or delivers and loses
the answer. `delivered` and `lost` are history: what reached the chat, and which of it
nobody will know of.

Left out: the text of messages and the hash of events, which no branch reads.

| Run | Instance | Shows |
|---|---|---|
| `records`, part `telegram` | 1 adapter, 4 configurations, 3 notifications, 3 sends, 1 crash, 1 lost answer | `DeliveriesAccounted`, `DuplicatesExplained`, `AttemptsInOrder`, `SettledIsFinal` |

Bounds. Three sends are what one notification needs to be interrupted, sent and skipped;
the notifications differ in what the configurations permit (market, kickoff), and the
configurations in mode and in the limit on attempts, so that a restarted adapter meets what
one with another limit left. The ledger is append-only and consulted per key, so further
notifications add nothing but length.

The adapter is used by one process at a time. With two on one ledger both may look before
either logs, and `DuplicatesExplained` and `SettledIsFinal` fail; `DeliveriesAccounted`
holds for any number of them, by proof.

Safety only. That a call returns is the bound on attempts and a client that answers; `send`
has no timeout of its own, and a client that hangs hangs it.

## 6. Local ingestion

`LocalIngestion` is a sequence of calls of `ingest_file`, one at a time as the command line
makes them, each a job of input, run id and source. An input is named by its hash, and has
rows with a match id and at most one flaw. `raw`, `normalized` and `processed` are `Files`
by input, `quarantine` and `manifest` by run id: two runs of one input share three files,
and two inputs ingested under one run id share two. Each file is opened and written in
separate steps and a crash may fall between any two; the registry of conflicts is the
manifests themselves, read in `ResolveConflicts` as the code globs them.

`finished`, `superseded` and `forgotten` are history: the manifests written, those whose
input or run id was ingested again since, and whether a manifest was lost to a crash or to
another job of the same run id.

Left out: `match_registry.json` (written, not read by `ingest_file`), `replay_manifest`,
which writes nothing (it validates a manifest, as `ManifestsStayValid` does, and compares
the hash of the input), the columns of a row beyond its id and its flaw, and the status of a
run beyond failed or not.

| Run | Instance | Shows |
|---|---|---|
| `records`, part `ingestion` | 3 extracts that overlap pairwise, 8 jobs (2 run ids each, a second source), 3 calls, 1 crash | `OneInputPerMatch`, `ManifestsStayValid`, `RerunsAgree` |
| `ingestion_rows` | the same, 2 calls, no crash | violation: `RowsAccounted` |

Bounds. A conflict is between two inputs; the third makes a conflict of a conflict and a
rerun in between possible, and three calls let a call be made, contested or crashed, and
repeated. The extracts hold a flawed row ahead of good ones and an id that occurs twice,
the cases in which row numbers and positions part.

## 7. Shadow ingestion

`ShadowIngest` has processes that run one of two scripts on one SQLite database: `loop`
(`scripts/shadow/scripts_run_local_shadow.py`, `run_once` every hour) and `pipeline`
(`scripts_run_ai_shadow_pipeline.py`: `run_once`, a second `fetch_league_season`, and an
analysis of the first upcoming matches). They take no lock. `provider` is what a request
would be answered now; a response is a function from match ids to kickoffs and stands for
its hash, and so for the manifest fingerprint. Per process: `cache` (the client's
`_cache`), `asOf`, `batch` and `fetchedAt`, `cited` (the fingerprint the run returned),
`left` (what the loop over matches has not come to) and `inserted`. `db` has the five
tables these scripts write, `backup` the file of `backup_to`. `served` and `overlapped` are
history, and so are `seen` and `captured` of an analysis, which the code hands to the model
and does not store.

A step ends at each request and at each committed transaction: `FetchCached` and
`FetchProvider` are `_request` with what the caller goes on with (`Continue`),
`RecordManifest`, `RecordFixture` once per match in order of kickoff, `RecordRun` and
`RecordAudit` are `run_once`, `StoreAnalysis` and `Quarantine` the body of the pipeline's
loop. No script catches anything, so a failed request, a locked database and a kill are one
action, `Die`. Transactions are atomic, as SQLite makes them.

Left out: `rejected_rows`, the payloads of audit events and the events of quarantined
analyses, which nothing reads; several leagues, seasons or AI models, which never meet in a
row. That nobody restores a backup while a script runs is an assumption about the operator:
`restore_from` replaces the file under open connections.

| Run | Instance | Shows |
|---|---|---|
| `records`, part `season` | 2 processes, 2 runs, 2 matches, 2 responses, clock to 1, time to live 1, one change at the provider, 1 death, 1 backup, 1 restore | `RowsLinked`, `FixtureTimes`, `CountsAccounted`, `AnalysesExplained` |

Bounds. Two runs are what it takes for scripts to overlap, for a loop to use its cache, and
for a run, a backup, a restore and a run to follow each other. The responses differ by a
postponed match and one that is not listed, and the provider may begin with either. The
clock passes the kickoff of a match and the time to live. Safety only: a script ends after a
bounded number of iterations, and nothing says that it is started again.

What this says of the code: the order of the transactions makes up for the foreign keys the
schema lacks. Two weaknesses are in the properties as conditions: `last_seen_at_utc` may
move backwards when scripts overlap, and a postponed match keeps its first kickoff, so
`audit_ai_store` can pass or fail an analysis for a kickoff the provider no longer gives.

### The run `records`

The modules of 4 to 7 have no variable in common, so `Records` has them as one
specification: the initial states choose a part, and the steps are its own. Shadow runs of
one caller keep their variables; the other parts are instances whose variables are the slots
`u1` to `u20`, and a property of a part is stated for the states of that part. The tables
above give the bounds. Deadlock is checked: each part ends in a stutter of its own where it
may stop. The two processes are interchangeable (`ProcessSymmetry`): they are the threads of
shadow runs and the processes of shadow ingestion, and no property of theirs names one. The
theorems of section 9 are about the modules of the parts.

## 8. The parts that stand alone

Eleven components write nothing that another of them or of those above reads while it runs;
the API, which goes round shadow runs, has their ledger in its own module, and artifacts and
records of a run in `ShadowRuns` only.
Each has a module, and `Lab` instantiates them in one specification: the initial states choose
a part, its variables are the slots `v1` to `v12`, and the steps are its own. A counterexample
is one of the part `lab` names. The constants of the parts are constants of `Lab`, with the
assumptions the theorems need; `LabMC` and `Lab.cfg` give them their values.

| Run | Instance | Shows |
|---|---|---|
| `lab` | the table below; no part need go on for ever, so deadlock is not checked | `NothingLost`, `EverythingSettles`, `ComparisonSound`, `NoLookahead`, `ReportsSound`, `PublishedAgree`, `PointInTime`, `AnswersAccountable`, `ReadinessSound`, `LedgerHonest`, `AccumulatorsSound`, `EstimatesExplained`, `FetchesSound` |

| Module | Bounds | Why they are enough |
|---|---|---|
| `SyncOutbox` | 3 events, two of one key, batches of 2, backoff 1 to 2, 2 faults | a batch leaves one event out; a duplicate, a retry and a death can meet |
| `OddsGate` | 4 rows, 1 of them flawed, 4 kinds of prediction | a pair, a quote given again, and a later or flawed one |
| `Experiments` | 3 rows a season, the holdout is the fifth season and the sixth is protected | every fold length, and a data set before, at and after the holdout |
| `HoldoutPolicy` | 2 edits, 2 starts | a script overtaken by an edit, died and started again |
| `PreMatchFeatures` | 4 matches, kickoffs on days 1, 2 and 4, two of them with a statistic that may be missing, events on days 1 to 3, windows of 1 and 2 | equal kickoffs, a season that changes, a window that is full and one that is not, a statistic imputed from the team and one from the league |
| `ApiGateway` | 2 threads, 2 requests, 1 death or cut | two appends that fork the chain or follow a line without newline; an answer counted and hashed across them |
| `ExternalReadiness` | 3 records, 2 commands | a record, its duplicate and its correction; a report of another command |
| `PredictionLedger` | 2 matches, 2 processes, 3 scripts | two scripts at once, and one after a ledger was begun anew |
| `Accumulators` | 9 legs, 3 days asked for, history of 3, 1 death | correlated pairs that share a leg; a history that drops its oldest entry |
| `DataSources` | 3 calls of one or two objects for one or two keys, interval 2, row age 1, time-out 1, clock to 6 | three calls of one object queue, sleep and are cancelled; two responses for one key overtake each other |
| `WinInference` | 3 tasks, 2 tries, 2 faults | a task reads what another stored while a third is under way |

**`SyncOutbox`** is `OutboxDao` and `SyncWorker.doWork`. `outbox` is the table; `batch`,
`answer` and `pc` are the worker's; `applied` is what the server did, and `unheard` what it
did without the companion learning of it. A step ends at the push and at each statement.
Fairness is weak on `DoWork`, which WorkManager runs again and again, and on `Tick`, since
backoffs pass; pushes fail or are left undecided at most `MaxFaults` times, which is what
"in the end" means in `EverythingSettles`. Nothing is assumed of the application entering
events. `Enqueue` is the insert that ignores a key already in the table.

**`OddsGate`** reads the rows of a file one at a time (`Ingest`, with the rejections of
`ingest_jsonl_snapshots`), then decides once: the source policy keeps the admissible rows,
the audit selects one quote of each outcome, the gate compares or declines; it declines a
match of a protected season, a definition that is empty and another market before it looks
at a quote (`Bar`). `rejected` and `decision` are the results; prices are left out but for
what makes a pair unusable.

**`Experiments`** has one operator per evaluation script for the folds it builds, from the
number of seasons; a running script (`job`) predicts one fold after another, aborts where
the script raises and marks the fold where it catches, and leaves a report; the gates read
the report later, possibly with another data set. Scores are losses in units of the
constant's, and secondary metrics agree or do not.

**`HoldoutPolicy`** has the files of cycles 35 and 36 as terms of what they were made from,
so that equal hashes are equal terms. It is one market: a script reads, freezes and scores
the other likewise between the same steps, so what is replaced in between meets both alike,
and a second copy would add no order that one does not have. Each script reads its inputs
and writes its outputs in the order of the source; `Replace` changes the lock, the report of
cycle 34 or the data between any two steps, and a script may die there. `disturbed` is
history.

**`PreMatchFeatures`** has one action per row of the three builders: features first, history
after. A feature is the set of rows its value is computed from, compared with a definition
that mentions no loop. A statistic the row lacks (`lacking`) is imputed as `_optional_value`
does, from the deque of the team or else from the league, and gathered; `stored` has, for
each statistic gathered, the rows it was computed from, which may be matches of other teams
and matches that have left the window. So `TeamHistoryExact` is about results, and what
`StatisticsEarlier` says of statistics is that they are of earlier matches.

**`ApiGateway`** has threads that check a request in the order of `dispatch`, have its
predictions issued, count and hash the ledger, audit and then send. A prediction takes
`verify`, the look-up, the reading of the last line and the append, each a step, so two
threads can fork the chain; an append can be cut short as in `ShadowRuns`. A run may fail at
any of its steps (`RunFails`), which stands for what else can go wrong in it. `torn` and
`forked` are history: an append between count and hash, and one since the last verification
that does not follow the line before. `Validates` is `validate_service_response`, with the
verification of the ledger.

**`ExternalReadiness`** audits records as they come and counts each; the command writes
report and manifest in two steps and a later command validates what it finds. The counter
`license_failures` is not modelled: it counts records of a source without a licence, and
the validator of `ExternalSource` (`external_contracts.py:41`) lets no such source exist.

**`PredictionLedger`** has the two scripts as processes on one file, with each append as its
read and its write; `generation` counts how often the file was removed.

**`Accumulators`** selects legs of a fixed pool by edge and confidence (the scan that fills
the pool is not in the repository), replaces correlated ones, and appends to the history in
separate steps. **`WinInference`** has asynchronous tasks that estimate one match with data
of their own, a cache whose key is the match alone, and a primary and a backup model.

**`DataSources`** has the calls of clients in one event loop: through the limiter of the
client object (`Call`, `Sleep`, `Wake`), to the cache or to a request (`Fetch`), to the
response that is stored and returned. A request is answered or times out within `Timeout`;
the sleep may end late. Clients without a limiter do not look at the status of a response.

## 9. What is proved

`WorkerProofs` (any processes, events, batches, bounds; assumption `ConfigAssumption`, the
ranges pydantic enforces on `WorkerConfig`):

- `TypeOKCorrect`: `Spec => []TypeOK`, by `TypeInv`, which adds that a process with an event
  in hand has a non-empty batch.
- `MutualExclusionHolds`: by `LockInv`. Mutual exclusion alone is not inductive: one must
  know that a process has `_held` exactly at the places with an open `with` block, that the
  file exists there and inside `acquire`, and that one process is at any of these places. A
  killed process leaves a file and no holder, which is safe and, as `worker_killed` shows,
  stuck.
- `AcceptedNeverLostHolds`: by `CoverInv`: not only the file but every copy a process will
  save accounts for all accepted events, and a copy that can set a new marker carries none.
  It needs mutual exclusion, since a second cycle would save over the first.
- `ProcessedOnlyAfterOutcomeHolds` and `StateFileAgreesHolds`: by `SoundInv`, the two
  properties said of every copy of the state that may still be saved, and of the event whose
  outcome a process knows and has not saved.
- `StrandedExplainedHolds`, an action property, from `LockInv`: a file without a holder is
  left by a kill, or by an exception between its creation and `_held`.
- `SettledNeverRedeliveredHolds`, an action property: by `TrackInv`: from load to release the
  copy has what the file has processed, up to the event in hand, and the event in hand is
  accepted and not processed. So a step that delivers is either of an event the file still
  has open or of a thread a timeout left running, which the property excepts.
- `ShadowImplementsWorkItems`: `Modes \subseteq {"shadow"} => (Spec => ImplementsWorkItems)`
  for a worker in shadow mode, step by step: an `AcceptEvent` takes an item, a delivery or a
  refusal makes its outcome known, the save of a processed event ends it, and every other
  step, crashes included, stutters. The other modes close events without an outcome, which
  `WorkItems` does not allow, so the theorem and the run `worker_processes` are about shadow
  mode.

`ShadowRunsProofs` (any callers, requests and bounds; assumption `RequestAssumption`: a plan
has no id twice, which `duplicate match_id` and one market each guarantee):

- `TypeOKCorrect`: by `TypeInv`, which bounds `next` by the plan where it is used.
- `RecordCoversPlanHolds`: by `CoverInv`: what a caller has passed in its plan is in the
  ledger and stays there, through any interleaving.
- `OneCallerChainIntact`: `OneCaller => (Spec => []ChainIntact)` by `ChainInv`: between the
  read of the last hash and the append the ledger is intact, lacks the id, and ends in the
  hash that was read. `ChainIntact` says that the entries are one chain and that a line is
  broken only at the end of it: the places in `cuts` are at most one entry before the last,
  since nothing is appended once a line cannot be read. Without `OneCaller` this is false
  (`shadow_fork`).
- `OneCallerRecordMatchesArtifact`, `OneCallerAnswersAgree`, `OneCallerResumedUnlessTorn`: by
  `SerialInv`, which says of each place what the caller has made sure of (the artifact is its
  plan, what it hashed is still the ledger, the record is absent, torn or its own), of each
  artifact and record that it is of a request with that run id, and of each answer that the
  record beside it has the ledger that was answered. A refusal then needs a file a crash left
  empty, a line it cut, a request that clashes, or a record of an earlier ledger.
- `BreakContainedHolds`, for any finite number of callers: by `BreakInv`: the entries after the
  undamaged prefix and the callers that have verified and not yet appended are together no more
  than there are callers. A caller can verify only while the whole ledger is intact, so the
  count starts again at each verification.
- `OneCallerImplementsLog`: with one caller the ledger and the complete runs, as the
  refinement mapping takes them, implement `PredictionLog`: an append adds one prediction, the
  writing of a record completes a plan the log holds, and every other step stutters.

`TelegramAdapterProofs` (any adapters, notifications, configurations, bounds; assumption
`SettingsAssumption`: finitely many adapters, a key determines its notification):

- `TypeOKCorrect`.
- `DeliveriesAccountedHolds`, for any number of adapters: `AccountInv` adds to the two
  counts the client calls under way, which are logged and not delivered, and the deliveries
  under way, which are not recorded yet.
- `OneAdapterDuplicatesExplained` and `OneAdapterSettledIsFinal`, for one adapter: by
  `SerialInv`: a final event is the last of its notification, an adapter past its look has
  found its notification open, and a delivery that was not lost is in the ledger or about
  to be.
- `OneAdapterAttemptsInOrder`, for one adapter: by `AttemptInv`: what an adapter starts next is
  the first attempt or follows the failure that is the last event of its notification, and is
  within the limit of the configuration it was constructed with.

`LocalIngestionProofs` (any inputs, jobs, rejection rate and bounds; assumption
`InputAssumption`, which only types the constants):

- `TypeOKCorrect`, with the counts of a manifest as cardinalities of sets of rows.
- `OneInputPerMatchHolds`: by `ClaimInv`: from the resolution of conflicts to the writing
  of the manifest nothing else writes manifests, so what the call accepts stays unclaimed.
- `ManifestsStayValidHolds`: by `ValidInv`: a manifest names its own run; each file the call
  has passed holds what its manifest will say; and no manifest that counts as valid shares
  an input or a run id with the call that is rewriting files.
- `RerunsAgreeHolds`: by `RerunInv`: while no manifest was lost, the claims on disk are those of
  all manifests ever finished, so each call computes the accepted rows of its input against the
  same claims as every other call of it, and the fingerprint is a function of those.

`ShadowIngestProofs` (any processes, responses, time to live and bounds; assumption
`SeasonAssumption`: finitely many matches, kickoffs are numbers):

- `TypeOKCorrect`: by `TypeInv`: a process has a response, and then a citation, from its
  first fetch on.
- `RowsLinkedHolds`: by `LinkInv`: what a process cites is in the database before anything
  cites it, its run before the audit event, and no transaction takes either away
  (`INSERT OR REPLACE` of a run puts back one of the same time and manifest).
- `FixtureTimesHolds`: by `TimeInv`: a script works on matches that start after its `asOf`;
  nothing in database or backup was first seen later than now; and a script that was never
  overlapped runs later than all it finds.
- `AnalysesExplainedHolds`: by `AnalysisInv`: every stored kickoff comes from a response that was
  served; an analysis is of a match its response has ahead, and that is stored if the response
  it cites has it ahead (`Explained`); a script stores the fixtures of what it cites before it
  analyses (`Cites`); and a pipeline's cache has the response of its first fetch and no older
  one, so that a second response means that the time to live has passed (`CacheSound`).
- `CountsAccountedHolds`: by `CountInv`: there is an assignment of matches to owners, a run or a
  script at its fixtures, in which each owns exactly as many matches as it has counted, all
  first seen at its time, and no match has two. The property says this of the runs alone.

`SyncOutboxProofs` (any events, keys, batch size, backoff and faults; assumption
`OutboxAssumption`: finitely many events, the others are numbers):

- `NothingLostHolds`: by `OutboxInv`. That no event is lost says how a row relates to what
  the server did with it, so the invariant adds what is in between: an answer on its way is
  about the events of the batch and says of each what the server holds of its key; an event
  is waiting, or its row says how it was settled; and the worker has a batch exactly where
  it uses one.

`LabServicesProofs` and `LabEvaluationProofs` prove, for `LabSpec`, the properties of the other
parts of the run `lab`, each for any value of its constants. `lab` never changes, so the
invariant of a part need only be kept by the steps of that part (`StepOfPart`,
`StepOfEvaluation`); it is stated at the end of the part's module and was checked by TLC on the
instance of the run before it was proved.

| Theorem | Invariant | What the invariant adds |
|---|---|---|
| `FetchesSoundHolds` | `FetchInv` of `DataSources` | no request is later than the last call its object has noted, and one task at a time sleeps, with the lock, until a full interval after it (`Paced`); a cached row is of its key and was fetched while its response was fresh (`Current`). Assumption `SourcesAssumption`: times are numbers, tasks call one of two objects |
| `EstimatesExplainedHolds` | `EstimatesInv` of `WinInference` | at each place of a task, which models it has missed, whether it found the cache empty, and that it has stored nothing before it answers |
| `AnswersAccountableHolds` | `AnswersInv` of `ApiGateway` | the predictions a thread has passed are in the ledger; between count and hash the count is that of the ledger exactly unless it is `torn`, and the ledger is intact exactly unless it is `forked`; and an answer is in the audit before it is sent |
| `LedgerHonestHolds` | `LedgerInv` of `PredictionLedger` | how old what a script has looked up is: in a file of the same generation, outcomes of the match were all appended since, and its prediction is there; this whether or not the ledger verifies |
| `ReadinessSoundHolds` | `ReadinessInv` of `ExternalReadiness` | the identities seen are those of the records not refused; reports in files and in memory defer exactly under a policy without sources |
| `ComparisonSoundHolds` | `GateInv` of `OddsGate` | every ingested row is a well-formed quote of a source that may be used |
| `NoLookaheadHolds`, `ReportsSoundHolds` | `ScriptsInv` of `Experiments` | a running script has each fold of its protocol to do, done or marked; losses stay within what its folds allow. That each fold is behind its tests is a lemma per script (`FoldsBehind`), for any number of seasons, of rows a season (`SeasonRows`) and any held-out season, by arithmetic on products of the two. Assumption `ExperimentsAssumption` |
| `PublishedAgreeHolds` | `PolicyInv` of `HoldoutPolicy` | what a script has read at each place and that it is still there unless disturbed; what it has written; and that a manifest says of the contents it names what the property says of files |
| `PointInTimeHolds` | `FeaturesInv` of `PreMatchFeatures` | the loop has passed a prefix of the order; a deque has the last matches of its team in order, by counting those after each; the dates of a team are its kickoffs, ascending; and a statistic is stored for the rows passed and computed from such rows only. Assumption `FeaturesAssumption`: finitely many matches, windows with a largest |
| `AccumulatorsSoundHolds` | `AccumulatorsInv` of `Accumulators` | until a leg is replaced the pairs that were checked are apart; afterwards all legs of the first selection but the first that was replaced are, so only that one can be met again, by at most two since a leg has two teams; the loaded history is the newest of what was answered. Choices from sets of combinations exist because numbers are well-founded. Assumption `AccumulatorsAssumption`: the limit is a number |

Only model-checked:

- `LockReturned` (but for its `StrandedExplained`), `MarkerRecovered` and `EverythingSettles`:
  liveness under fairness needs `ENABLED` and an induction over what is left to do, which
  TLAPS does not reach.
- That the systems in which two callers, two adapters or a killed worker violate a property do
  so: these are the runs of section 10, and the theorems carry the condition (`OneCaller`,
  `OneAdapter`, `Modes`) in their statement.

Assumptions are on constants only, are named in the module that declares the constants, and TLC
evaluates them in every run of that module.

## 10. Findings

Each contradicts what a document, a comment or a test says; `PROJECT.json` quotes it. All but
the last are a run that violates the claim.

1. A worker killed inside a cycle leaves `worker.lock`; nothing removes it (`worker_killed`).
2. Two concurrent `predict` calls can fork the shadow ledger for good (`shadow_fork`).
3. A repeated request is refused once another run has appended to the ledger, since the
   run record contains the hash of the whole ledger (`shadow_replay`).
4. A row rejected as a conflict is recorded at its index in the accepted frame, which
   validation has sorted and renumbered. The index may be that of a row rejected before:
   the two count once, and `validate_manifest` refuses the manifest of a clean run
   (`ingestion_rows`).
5. The multi-season comparison of card features, whose docstring says "on future-only
   splits", trains on every season but 2425, those after it included once the data set has
   any (`future_only`; the one for btts slices alike).
6. The gate of Platt calibration "on identical test folds" computes its constant again for
   every season of the data set but two: a report calibrated on two seasons, or a data set
   that has grown since, gives it other folds than the candidate had (`identical_folds`).
7. "outcome cannot be recorded before its prediction" (`append_only.py:25`, and a test):
   the writing script removes the ledger between the check and the append of the revealing
   one, and the outcome is the first line of a ledger that verifies (`ledger_outcome`).
8. "pick top N legs (N = system legs)" (`services/accumulator_generator.py:394`), four for
   "2/4": a leg correlated with two others is replaced twice, and the system has five
   (`system_legs`).
9. `features/pre_match.py` says at line 118 that a row uses only what was known before the
   match, and the league averages and standings include matches of the same kickoff that
   the loop has passed. The run `lab` shows exactly which (`ContextOfRowsBefore`, a part of
   `PointInTime`).

The properties of passing runs that exempt one of these cases (`LockReturned`,
`ResumedUnlessTorn`, `NoLookahead`, `ReportsSound`, `LedgerHonest`, `AccumulatorsSound`) say
that it is the only one.

What else the models show is a hazard rather than a finding, since no document denies it, or
none that a run of its own would settle:

- Worker: a pid that cannot be written leaves a lock file that nobody holds
  (`StrandedExplained`); the retry queue may hold an event more than once, and `run_forever`
  leaves the lock free before each iteration.
- Outbox: an error for a batch that may not be retried rejects every event in it; an HTTP
  exception is retried without end; a rejected row keeps its key, so a later event of the
  same key is ignored.
- Odds: the latest quote of an outcome, if it was given twice, is dropped, and the quote of
  an earlier moment takes its place. `remove_binary_overround` raises where the gate around
  it would decline.
- Features: a statistic a row lacks is imputed and then gathered as if it had been measured,
  so a team's window may hold averages of other teams and of matches outside it.
- Evaluation scripts: a fold that failed in the walk-forward script is isolated and then
  ends the script in `average_metrics`.
- Shadow ledger: an append cut short by a death makes the ledger unreadable for every run,
  and nothing repairs it.
- Holdout policy: lock and data are read more than once by one script, so a file replaced
  in between leaves a manifest that does not verify, or verifies for a run that used both.
- API: the count and the hash of an answer are read separately, so an answer may validate
  against no ledger that ever was. A response that fails its own contract is reported as an
  invalid request although the run was written.
- Readiness: the first record of an identity hides a corrected one if it was late or matched
  nothing; without a source each record counts twice as lacking provenance; a report
  validates without a manifest; a policy with an allow-listed source never validates.
- Prediction ledger: two reveals that overlap can record an outcome twice.
- Accumulators: a leg may be replaced for its correlation with one already removed,
  and an entry is appended to the history whether or not it is returned. A torn history is
  read as an empty one and written over.
- Data sources: two calls for one key both ask the provider, and a call that the cache will
  answer waits for the limiter all the same; a client without a limiter keeps the body of an
  error for as long as that of an answer.
- Win estimates: the cache answers for the match, whatever the data; of tasks that overlap
  the last to finish is kept.

## 11. Not modelled

Numeric code (`models/`, `evaluation/metrics.py`, `nqbe*.py` fitting, calibration): results
are floating-point functions of data frames, with no state or order to check. `release/gate.py`
is a conjunction of flags. Clients of external services (`source/` providers,
`ai/openai_adapter.py`) beyond how their results are used. The other scripts, which run
components once and report, and the summaries of data and odds quality, which count. The
screens and the session of the companion, and its pull, which overwrites two tables.
Database schemas under `schemas/`, to which no code of the repository writes. Two
accumulator processes at once, and two calls of `ingest_file` at once, are not modelled
although nothing prevents them: both are commands one operator runs. The player warehouse
is one idempotent insert around a threshold on floating-point loads. The rest of what is
absent from 3 to 8 is the last row of the plan.
