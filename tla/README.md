# A verification project for ModelWatch

ModelWatch watches deployed machine-learning models: clients upload a reference
sample and send production observations, the service compares the two feature by
feature, stores the result as a *drift run* and raises alerts. This directory
holds TLA+ modules that model its concurrent core, TLC configurations that check
them on small instances, and proofs that TLAPS checks for every instance. Paths
below are relative to `src/backend/app/` unless they start with `src/`.

## 1. Inventory

| component | state | operations | speaks to |
|---|---|---|---|
| Drift checks and windows (`services/drift_service.py`, `api/drift.py`) | `drift_runs` (window, status, snapshot), `feature_drift_results` | `run_drift_check`, `overall_drift_status`, listings | reads observations, snapshots and earlier runs; calls the engine and the alert service; called by the API and by the worker |
| Ingestion (`services/ingestion_service.py`, `api/ingestion.py`) | `production_observations` with `ingested_at` | `ingest_observations` | reads the latest snapshot to judge categories; drift checks read its rows |
| Reference snapshots (`services/reference_service.py`) | `reference_snapshots`, `reference_stats`, raw samples and categories | create from an upload, copying other features forward | read by drift checks and ingestion |
| Alerts (`services/alert_service.py`) | `alerts` | create one per drifted feature, list | part of a run's transaction |
| Monitoring jobs (`services/monitoring_job_service.py`, `workers/queue.py`) | `monitoring_jobs` | enqueue, read | database and Redis |
| Worker task (`workers/tasks.py`) | none of its own; writes `monitoring_jobs`, calls drift checks | `execute_monitoring_job` | called by RQ, with retries |
| Scheduler (`services/scheduler_service.py`, `scheduler.py`) | `monitoring_schedules` (`is_active`, `last_run_at`) | create, list, deactivate; `find_and_enqueue_due_schedules` on a timer | database and Redis |
| Drift engine (`drift/engine.py`, `drift/metrics.py`) | none | PSI, JS, KS, thresholds, status of a feature | called by drift checks |
| Registry (`services/registry_service.py`, `api/registry.py`) | models, versions, features | create, list; who owns what | everything filters by version and owner |
| Accounts (`services/auth_service.py`, `api/auth.py`, `api/deps.py`) | users, API keys (`revoked_at`) | sign up, create and revoke keys, authenticate a request | every request but a sign-up |
| Dashboard (`src/frontend/src`) | the key in `localStorage`; React state: selected model and version (`App`), lists, `triggering` | sign up, sign in and out, reload, pick, load, create, run a check, open a run | HTTP API, one request per `await` |
| Alert deliveries, migrations, configuration | tables, wiring | none that the running program changes | |

What is hard to test here:

* **Interleaving.** API processes and RQ workers run drift checks of one version
  at the same time, without a lock, at READ COMMITTED. Every query sees its own
  moment.
* **Visibility against time stamps.** A row or a snapshot is stamped before it is
  committed. A query by time may miss what becomes visible behind it.
* **Two stores.** A job is a row in the database and a message in Redis, with no
  common transaction. Either may come first, or alone.
* **Several transactions per attempt.** `execute_monitoring_job` commits four
  times; it may die or raise an error between any two, and RQ tries again.
* **Delivery.** RQ may deliver a job again after it is done, or while an attempt
  whose worker stopped sending heartbeats is still at it.
* **Numbers at the edge.** Degenerate quantile edges, empty bins, the sample
  floor, values that parse as `nan`.
* **Stale reads.** Schedules loaded once per tick; categories judged against a
  snapshot that is no longer the latest; a report whose references are read one by
  one while uploads commit; answers in the dashboard that belong to the previous
  selection.
* **Handlers that outlive their component.** A log-out or a reload unmounts what the
  browser shows, not the handlers under way: they go on with whatever key there is
  by then.

What makes each component correct: windows of successive runs join without gap
and without overlap, rows are counted once or lost only for a known reason, a
report agrees with the rows it was computed from (drift checks); a stamped row is
visible together with its request (ingestion); an upload keeps every other
feature (snapshots), and all references of a report are of one snapshot (both
together); a job is done once, ends in a status a client can read and
points to its run (jobs, worker); a schedule gets one job per interval and obeys
its owner (scheduler); the overall status follows from the features' metrics
(engine); a key is taken for its user until it is revoked, and a user reads and changes
his own only (accounts, registry); what is shown belongs to what is selected, and to
whoever is signed in (dashboard).

## 2. Modules

| module | contents |
|---|---|
| `DriftRuns` | one model version: ingestion requests, snapshots, and any number of concurrent calls of `run_drift_check`, one action per query |
| `ObservationLedger` | abstract specification: time is cut into intervals by an edge that only moves forward; a check counts rows of the interval it closes, no row twice |
| `DriftRunsLedger` | the mapping from `DriftRuns` to the ledger |
| `MonitoringJobs` | job rows, RQ messages, the API, the scheduler's tick and the workers' attempts, one action per commit, send or error |
| `Baselines` | one version's reference snapshots: concurrent uploads, query by query, with copy-forward |
| `DriftEngine` | one feature: its observations' classification, and the verdict of the metrics on them |
| `BaselineUse` | extends `Baselines` with its readers, drift checks and ingestions, query by query |
| `Registry` | the API as a client meets it: accounts, keys, and who owns which models, versions and runs |
| `Dashboard` | extends `Registry` with a browser: sessions, selection, lists, the asynchronous handlers await by await |
| `MCDriftRuns`, `MCMonitoringJobs`, `MCBaselines`, `MCBaselineUse`, `MCDriftEngine`, `MCDashboard` | constants and symmetry for TLC |
| `DriftRunsProofs`, `MonitoringJobsProofs`, `BaselinesProofs`, `BaselineUseProofs`, `DriftEngineProofs` | theorems and proofs about the module of that name |
| `DriftRunsLedgerProofs` | that runs made one at a time implement the ledger |
| `DashboardProofs`, `DashboardShownProofs` | types of `Dashboard`; what it shows |

The modules meet where the components do: a job's `CheckDrift` is a run of
`DriftRuns`, the snapshot a run resolves there is made by an upload of `Baselines`
(`BaselineUse` composes the two sides), a check the dashboard triggers is one more call
of it, and the status it stores for a feature is the `featureStatus` of `DriftEngine`.

### DriftRuns

`pc[r]` is where a call is: `idle`, `resolved` (`_resolve_reference_snapshot`),
`ended` (`window_end = window_end or now`), `querying` (the run is flushed, the
loop is under way), `committed`, `aborted`. The code takes `window_end` *before*
it reads the previous run's end, and so does the model. Each turn of the loop is
an action, since each feature's observations come from a query of their own.
`Abort` is any exception, job timeout or death: the run's rows vanish. A request
stamps its rows one by one (`Flush`, the column default of `ingested_at`) and
shows them together (`CommitBatch`). `EvaluateFeature` chooses any status the
engine can give to rows of that number: `skipped` without rows,
`insufficient_data` below `MIN_USABLE_SAMPLES`, and otherwise any.

Simplifications. There is one version, as every query filters by it. All processes
read one clock. The first row can be stamped only after the version's
`created_at`, since the version must be committed first. An explicit `window_end`
is one of `ExplicitEnds`; an explicit end that equals the clock is the same as
taking the end at that time. Whether a request is rejected before its flush does
not matter to the rows, so a request is a batch that commits or does not.
`seen` and `settled` are history: which runs and rows were committed when a run
read its window start. They occur in properties only.

### MonitoringJobs

The database variables hold what is committed. A tick is a transaction of several
steps: `EnqueueDueSchedule` flushes a job (in `staged`, invisible) *and* sends its
message, which a worker can receive at once; `CommitTick` makes all rows visible.
Flush and send are one action because nobody can see the flush. `DeactivateSchedule`
waits for a row the tick has updated (a row lock), and may come between the tick's
read and its update. `RequestJob`, `SendRequestedJob` and `LoseRequest` split
`enqueue_monitoring_job` at its commit.

An attempt goes through `start` (the row is read), `marking`, `checking`,
`recording` and `done`. A job that was running already when it was read goes through
`restarting` instead of `marking`: the session writes no column that has not changed, so
the commit leaves the status as another attempt may have set it since. `RaiseError` is
an exception inside the `try`, `RecordFailed` the `except` branch. The commit that
completes the job (`tasks.py:48`) is inside the `try`, so RQ's job timeout or a lost
answer of the database can raise the error behind it, from `done`: the completed job
becomes failed, keeps its `drift_run_id`, and is tried again. `run[w]` is the local
`drift_run` and is there until the attempt ends. `LoseAttempt` is the death of
the worker or an exception outside the `try`. `stranded` is history: the runs of
attempts that failed or were lost and did not leave their job completed. `CheckDrift` stands for one call of
`run_drift_check` and its commit: `DriftRuns` is the model of what happens inside.

RQ is external and modelled from how the code uses it: `Retry(max=3)` (a failed
attempt puts the message back until retries are used up, then marks the job
failed), a dead worker is a failed attempt, and with `Redelivers` RQ may give up
on a worker that still runs. A message in the queue is not doubled, as the
job id is the row's id.

Left out, as nothing in the code reads them: `idempotency_key`, `error_message`,
`created_at`, `started_at`, `finished_at`.

### Baselines

`pc[u]` is where a call of `create_reference_snapshot` is: `listed` (features read,
upload checked), `chosen` (the previous snapshot read), `flushed` (the snapshot has
its `created_at`), `written` (all data added), `committed`, `aborted`. The snapshot
is named after its upload, and `baseline[u][f]` says whose values it holds for a
feature: `u`'s own, those of the upload they were copied from, however long ago, or
none. The loop over the features is one step: its rows show only at the commit, and
what it copies is committed and never changes. An upload is refused (unknown
feature, wrong type) when it has listed the features, and rolled back by an empty
list, any other error or a crash at any time. `seen` is history: the uploads
committed when an upload listed the features.

Left out: labels, stored statistics (they are shown, never computed with) and
`n_missing`. Two flushes in one microsecond are excluded, the code leaves their
order open.

### BaselineUse

A reader `r` is one call of `run_drift_check` or of `ingest_observations`, at any time
between the steps of uploads. A check takes a snapshot (`ResolveSnapshot`: the latest,
or the one its caller names), then the features (`ListForCheck`), then one feature's
reference after another (`ReadReference`), as the loop does; it may end with any of
them read, since a feature without observations is skipped before its reference is
read. An ingestion lists the features first and reads the latest snapshot's categories
in one query (`ReadKnownCategories`); without a snapshot every category is valid.
`found[r][f]` is whose values it got, as in `baseline`. `knew` is history: the uploads
committed when it looked for the latest snapshot. That an error ends a reader early is
a reader that takes no further step.

### DriftEngine

`reference` is the bag of a feature's values in the latest snapshot, `rows` the bag of
classified observations in a window. `Upload` may come between two observations, so
categories are judged by different snapshots and compared with yet another, as in the
code. `Observe` classifies a text (`_classify_and_build`). A drift check then goes
through `Collect` (the values handed to the engine), `MakeCells` (bins from the
quantiles of the reference, in multiples of `1 / (2 * NBins)`, or the categories of
both sides) and `Evaluate`, or stops at `ReportInsufficient`; `featureStatus` is any
status the metrics allow. `Distance` is the KS statistic times both sizes.

TLC has no logarithm, so PSI and JS are bounded: equal shares, or nothing to count on
one side, give exactly 0; every term of PSI is non-negative, and one bin that is
empty on one side and holds a twentieth of the other gives
`(p - 0.0001) ln(p / 0.0001) > 0.3` by itself; up to 5000 cells of which none has values
of both sides give more than that together (`Apart`, by convexity of the terms); anything
else may have any status.
Arithmetic is exact: the program rounds, and a value on an edge may fall into the bin
beside it. `KsStatuses` leaves a statistic of exactly 0.2 open for the same reason.
A nan passes through `ks_2samp` (`nan_policy="propagate"`) and compares false.
Infinite values are left out.

### Registry and Dashboard

`Registry` has one operator per service function that writes or that decides who may:
a key is issued (`CreateUser` for the first of an account, `CreateApiKey`), revoked, and
taken for a user (`Authenticate`); a user has what hangs on his models (`OwnsModel`,
`OwnsVersion`, the joins of `get_owned_version`). Entries are numbered as they are made, so that
a list is known by whose it is and how far it goes.

`Dashboard` calls these operators. A call in `calls` (a bag, two equal requests may be
under way) is a handler that has run up to an `await`; `awaits` holds that await and those
to come, `of` the user, model or version of its closure, which does not follow the
selection, `by` whose key went with the request it waits for, which is read when the
request is sent (`client.ts:96`). `GoOn` runs it to its next await or its end. `CommitPost` is a POST
taking effect, before its answer; a request for a list reads the server some time between
its sending and its answer (`c.from .. Stored(...)`). `Refuse` is a 401, 404 or 409.
`SelectVersion` is `setVersionId` with the effects that run with it: `App`'s, and those of
`FeaturesAndReference` and `DriftDashboard`, which stay mounted from version to version and
are unmounted without one. `Failed` follows the `catch` arms: the loads catch and go on, a
failed POST ends its handler, `handleTrigger` has a `finally`.

`Logout` unmounts the selector and the panels. Their handlers go on (`live` is off, what
they load is shown nowhere) and still call `onSelectModel` and `onSelectVersion` at their
end, which are `App`'s. `SignUp` may be answered after its user has gone on with an
existing key; `setApiKey` then changes the key under the dashboard. Handlers of the panels
can show nothing once unmounted, and are dropped: what they still commit is among the
steps of `Elsewhere`, with other windows, other users and the scheduler's jobs.

Lists keep whose they are and, but for features and alerts, up to which entry they go.
`disturbed` is history: the lists for which, since the selection changed, a request
failed, or an answer was shown that is about another selection or older than what was
shown. `switched` is history: a sign-up's answer has replaced another user's key. Without
such events everything shown is about the selection; the code has nothing against them.

Left out: how many features and alerts there are, names, the text of keys (an unknown
text is refused like a revoked key), messages and forms.

## 3. Runs

| run | what it checks | expected |
|---|---|---|
| `drift_concurrent` | `TypeOK`, `LaterRunsCountAnew`, `WindowsLeaveNoGap`, `UncountedRowsWereLate` with three runs at once, all with any window end | pass |
| `drift_serial` | `NoDoubleCount`, `ReportMatchesRows`, and that `DriftRuns` implements the ledger (`RunsKeepTheLedger`), runs one at a time | pass |
| `drift_overlap` | `NoDoubleCount` with two workers at once | violated |
| `jobs_one_attempt` | `RunningJobsHaveAnAttempt`, `OneRunPerCompletedJob`, `RequestedJobsAreNotDropped`, `CompletedUnlessItsAttemptFails`, and the liveness properties `QueuedJobsSettle` and `SchedulesAreServed` | pass |
| `jobs_redelivered` | `TypeOK`, `RunsBelongToJobs`, `RunsWithinDeliveries`, when RQ hands out a job that is still worked on; `ScheduledJobsAreSpaced`, `DeactivationIsFinal` with ticks that fail half-way | pass |
| `jobs_early_message` | `ScheduledJobsAreNotDropped` | violated |
| `jobs_failed_run` | `FailedJobsLeaveNoRun` | violated |
| `baselines_concurrent` | `TypeOK`, `BaselinesComeFromUploads`, `OnlyOverlapsLoseBaselines` with three uploads at once; `UseTypeOK`, `ReportsAreReproducible`, `ReadersFindWhatWasBrought` of a check or an ingestion between them | pass |
| `baselines_overlap` | `LatestBaselineIsComplete` with two uploads of different features at once | violated |
| `engine_samples` | `TypeOK`, `NumbersFallIntoOneBin`, `UnchangedSamplesAreOk`, `NewValuesDrift` on every small sample and window | pass |
| `dashboard_answers` | `TypeOK`, `ShownIsSelected`, `ShownIsOwn`, `DetailIsListed` and the liveness property `ButtonComesBack`, with two users, answers late, overtaken, refused or missing | pass |
| `engine_nan` | `TooFewNumbersAreNotOk` | violated |

The five violations are disagreements of code and documentation:

1. `drift_overlap`: `drift_service.py:12-13` promises that windows never overlap
   and nothing is counted twice. Two sessions that read the previous end before
   either commits get overlapping windows. It holds of runs made in turn
   (theorem `SerialRunsCountOnce`), and even with concurrent runs a run never
   recounts what was committed before it read its start (`CountsAnew`).
2. `jobs_early_message`: the scheduler sends messages (`scheduler_service.py:93`)
   before it commits the rows (line 101). A fast worker finds no row, returns, and
   RQ is content; the row then appears and stays `pending` for ever.
3. `jobs_failed_run`: `tasks.py:6-9` says a failed attempt persists nothing. The
   run is committed (line 43) before the job (line 48); an error between the two
   leaves the run behind a failed job, and a retry makes another run. An error behind
   line 48's commit, which the same `except` branch catches, does it to a job that was
   completed: `tasks.py:5-6` calls a completed job a no-op on re-run, but by then it is
   failed, and the retry makes a run of its own. `CompletedUnlessItsAttemptFails` says
   that this is the only way a completed job changes, and `OneRunPerCompletedJob`
   exactly how many runs there can be.
4. `baselines_overlap`: `reference_service.py:4-9` promises one complete baseline
   whatever is uploaded. Two uploads that overlap copy from the same snapshot, and
   the later one lacks what the other brought; no later copy brings it back.
   `OnlyOverlapsLoseBaselines` says that nothing else can lose a baseline.
5. `engine_nan`: `engine.py:9-11` says insufficient data is never reported as
   healthy. The text `nan` is a valid number (`ingestion_service.py:78`), counts
   towards the sample floor, falls into no bin and silences KS: a window of nothing
   else is `ok`.

Two oddities. `production_observation.py:39-40` says `observed_at` is "used for windowing";
a check selects its rows by `ingested_at` (`drift_service.py:146-147`), and
nothing reads `observed_at`, so `DriftRuns` has the one stamp and not the other. And one no
document speaks of: categories lose the blanks around them in
production (`ingestion_service.py:74`) and keep them in the reference
(`reference_service.py:133`), so such a category never matches. `DriftEngine` has
it; `UnchangedSamplesAreOk` compares parsed values.

**Bounds.** Three runs are the least in which one run overtakes another that a
third depends on. Two features with a row each in one request show a request
taken in part. The clock takes values 1..3, so that a row can be before, at and
after an end; the explicit end 3 is in the future of a run at 1 or 2 and in
the past of nothing later. `MinUsable` is 9 where the verdicts do not matter and 1
where they do. Two jobs and one schedule show a job of the API next to one of the
scheduler. In `jobs_redelivered` two workers show attempts at one job racing. Where a job
has one attempt at a time, attempts share nothing but the queue, so `jobs_one_attempt` has
one worker, for which a message may have to wait (with two it passes as well, in four
times the time); the theorems below are about any number of workers. One retry
(`MaxRetries = 1`, three in the code) shows both a retry and its exhaustion. An interval
of 1 and a clock up to 1 make the schedule due at once and once again, so that a failed tick and
a good one, or two good ones, use up the two jobs; longer times and more schedules are
covered by the theorems `JobsAreSpaced` and `DeactivatedForGood`.
Three uploads are the least in which one copies from another that has lost a third
one's feature; four uploads (five million states) show nothing else. One reader is enough:
readers change nothing that another sees. Samples of up to
five numbers out of {-1, 0, 1, 3} with four bins and a floor of 3 contain constant
references, references of two values (one bin, blind), uneven gaps, interpolated
quantiles, values outside the range on both sides, and KS distances from 1/20 to 1, 1/5 among them;
four bins and not ten, as the quantiles of ten bins need samples of eleven to be different
places. Three categories, two of them the same up to blanks, show each case of
classification.
In the dashboard, two users with a key each (or one and a free e-mail address), one model
with two versions and another that is new or empty make every kind of change of selection
and of session possible. Four acts are enough to pick a version, start something, pick
another version (or log out and come back as somebody else) and have something fail; each
may begin with a handler still under way. An act that would have to wait for two handlers is
not taken.
Deadlock is not checked: the clock, the job ids, the uploads, the users' acts and the one check of
`DriftEngine` are bounded, so the models end where the program goes on.

**Fairness** (`FairSpec`). In `MonitoringJobs`, for `QueuedJobsSettle`: weak fairness of
`Deliver` for each worker and of a worker's own steps. RQ workers loop on a blocking dequeue
and an attempt goes on until it ends; nothing is assumed of the API, the clock, or of
errors. A queued job therefore settles although any attempt can fail: the retries end. A
job committed and never sent (`LoseRequest`) settles never; the code has no sweep for it
and no document promises one. For `SchedulesAreServed`: weak fairness of `StartTick`, as
APScheduler calls `tick` every 60 seconds whatever became of the last call
(`scheduler.py:32`), and strong fairness of a tick's work on each schedule and of its
commit, since a tick may fail at every step but the property is about failures that come
and go: with Redis or the database gone for good no schedule is served. What it shows is
that no failed tick leaves the schedule in a state in which later ticks pass it over. Its
last alternative, that all job ids are used up, is there for the bound: with two ids a tick
fails after it has sent a message, and the next one must serve the schedule. In
`Dashboard`, for `ButtonComesBack`: weak fairness of the steps of a check, as `fetch`
resolves or rejects in the end; nothing is assumed of the other requests or of the user.

## 4. Proofs

Assumptions: only those stated in the modules (`RowsAssumption`, `TimesAssumption`,
`BoundsAssumption`, `NoneAssumption`, `UnreadAssumption`, `RegistryAssumption`,
`SamplesAssumption`, `NothingAssumption`): types of the constants, finitely many numbers and
categories that a feature can have, nan not one of the numbers, an interval and a sample
floor that are not zero, and that what stands for "nothing" stands for nothing else. The
number of runs, rows, jobs, workers, retries, uploads, readers, features, users, keys and
acts, the size of samples and the length of time are arbitrary.

`DriftRunsProofs`. `IInv` is `TypeOK` with
`RowsAreStamped` (visible rows are flushed, after `created_at`),
`CountsInWindow` (a run counts visible rows of its window),
`SeenRunsAreBehind` (what a run saw committed ends no later than it starts: its start is
the *largest* end),
`StartsAtAnEnd` (a start is `created_at` or some committed end),
`SettledRowsAreCounted` (what the loop has passed is counted),
`ResultsMatchRows` (the result of each feature the loop has passed fits the rows counted
for it, and the run's status fits the results),
`WindowsLeaveNoGap` and `SerialRunsSeeAll`. None of the properties is inductive by
itself: that a run recounts nothing needs the order of ends and starts, which needs
to know where a start came from. Each part has a lemma with one step per action.
From `IInv` follow `CountsAnew`, `NoGap`, `OnlyLateRowsAreLost` (the gap argument gives the
window, `SettledRowsAreCounted` the rest), `ReportsMatch` and, for serial runs,
`SerialRunsCountOnce`.

`DriftRunsLedgerProofs`. The ledger's edge is the largest committed end, chosen from a set
that has one (`EdgeInvariance`: commits come one by one, so the set is finite). With serial
runs a `CommitRun` maps to a check of the interval behind the edge, since its run has seen
all the others and starts where the last one ended; a `CommitBatch` maps to an arrival; all
else is a stutter (`SerialRunsKeepTheLedger`). How often a row is counted is the number of
runs that counted it, so the refinement needs `NoDoubleCount` to know it is 0 before the
check that counts the row. What the ledger promises therefore holds of the runs
(`SerialRunsCountBehindTheEdge`).

`MonitoringJobsProofs`. `IInv` holds whatever RQ does: `AttemptsHaveRows` (past its
first test an attempt has a row, and a job without a row has nothing) carries
`RunsBelongToJobs`; `StagedJobsAreDue` (what a tick staged is new, belongs to one
schedule, and is due until the commit; rows are not later than `last_run_at`) carries
`ScheduledJobsAreSpaced`. `MessagesAreSentOnce` and `DeliveriesAreCounted` carry
`RunsWithinDeliveries`: runs made, attempts that may still make one, and retries left add up
to no more than the deliveries there can be. `OneAttemptInv` needs `~Redelivers`:
`OneAttemptAtATime` (one message per job, in the queue or with one worker) carries
`AttemptsKnowTheStatus` (what an attempt read of the status is still so until it completes
the job, and an attempt that fails with its job completed has made a run), and from both
follow `RunningJobsAreAttended` and `RequestedJobsAreWorkedOn`;
`RunsAreAccountedFor` (a run is stranded, in the hands of its attempt, or the one its
completed job points to) gives `RunsAreRecordedOnce`, and with `AttemptsKnowTheStatus`
`CompletedForGood`: the attempt that undoes a completed job is the one whose run it points
to. The two parts need each other, as an error may come before and after the job is
recorded.

`BaselinesProofs`. `IInv` is `TypeOK` with `StampsAreDistinct`, `FeaturesAreListed` (an
upload lists what the uploads it has seen brought), `PreviousIsLatest` (it copies from a
committed snapshot, none older than those it has seen, older than its own),
`ValuesHaveASource` and `OverlapsLoseBaselines`, which extend the two properties to snapshots
not yet committed: the step that matters is `WriteFeatures`, where the property of
the previous snapshot becomes that of the new one, and at the commit nothing may be
left to show but that no other upload has seen it. From it follow
`CopiesComeFromUploads`, `LostOnlyByOverlap`, and that uploads in turn keep the
promise the overlap breaks (`UploadsInTurnAreComplete`).

`BaselineUseProofs`. Readers change no snapshot (`ReadersLeaveSnapshotsAlone`), so the
invariant of `Baselines` holds with them. `UseInv` adds that a reader's snapshot is
committed, was the latest of those it knew, and that what it has found is what that snapshot
holds, which a committed snapshot keeps. `ReportsReproducible` and `ReadersFind` follow, the
latter with `OnlyOverlapsLoseBaselines`; for uploads in turn it becomes
`NothingFoundNothingBrought`.

`DriftEngineProofs`. Samples are added up by the library's folds, and what a fold computes
cannot be proved by the library's induction theorems here. Finiteness does instead: if a
claim about sums failed for some subset of a finite set it would fail for a smallest one
(`SmallestSubset`), and a sum over it is one element and a sum over a smaller set
(`SumOfPick`). So sums do not depend on the order (`SumIsInt`), split (`SumSplits`), and keep
proportions (`SumsInProportion`), and a finite set of numbers has a maximum (`MaxAndMin`).
From these: each place of a sorted sample has a value (`PlacesHaveValues`), hence quantiles
and edges exist whatever the reference is, and between finitely many edges a number
falls into one bin (`NumbersAreInOneBin`). What `Collect` hands over is what was observed,
value by value (`CollectedIsObserved`), so that a window of equal shares has equal shares of
every bin and below every number (`UnchangedStaysOk`), and a window of new values has none of
the reference's. Half of it or more then lies on one side of the reference, which is a
distance of a half for KS; categories are cells of one side each (`NewValuesAreDrifted`). That
theorem is about at most 5000 categories, which is a limit of the code: an empty share
counts 0.0001, and with ten thousand categories on each side both metrics call two samples
without a common value alike. `TooFewAreInsufficient` is what is left of the promise that
`engine_nan` shows broken.

`DashboardProofs`. Which values a call can have depends on the await it is at: what it is about,
whose key went with its request, how far its answer may go. `TypeInv` says so for each call,
that what is shown, selected or asked for exists at the server, and that one check is under
way exactly while the button is off. Its proof follows a step through its three parts: the call
is taken from the bag, what it shows or fails, what it sends next.

`DashboardShownProofs`. `ShownInv` has three parts. `SelectionInv`: a list that is about
something else than the selection is being asked for, or disturbed; and signed out, nothing
is left of a session, nor anything to come of it but what `App` itself loads. `OwnInv`: what
is shown, what is asked for and the run a check has made belong to who is signed in.
`HistoryInv`: the run in detail, and one that a handler is about to open, is in the history
or in the answer to a request for it under way. `Fits` says the same of what is shown and
asked for half-way through a step, so that the part of a handler that shows an answer, the part
that goes on and the effects of a selection are proved once each. `ShownIsSelected`,
`ShownIsOwn` and `DetailIsListed` follow.

Only model-checked: the liveness properties `QueuedJobsSettle`, `SchedulesAreServed` and
`ButtonComesBack`, which are out of the prover's reach. Every invariant and every other
action property that a passing run checks is a theorem.

## 5. Plan

Done, in this order: `DriftRuns` with the ledger and `MonitoringJobs`, since every
other component feeds them or depends on them; `Baselines`; `DriftEngine`; `Dashboard`; the
proofs about the first three; `BaselineUse`, `Registry` with the sessions of `Dashboard`, and
the scheduler's liveness; the ledger refinement, and the proofs about `BaselineUse`,
`DriftEngine` and `Dashboard`. Next, safety lemmas that liveness rests on:

1. For `QueuedJobsSettle`, that the retries left of a job and the steps left of its attempt
   go down with each step of an attempt, for any number of retries.
2. For `SchedulesAreServed`, that a tick that fails leaves its schedules due.
3. For `ButtonComesBack`, that the awaits left of a check go down with each answer.

## 6. Not modelled

How HTTP, schema validation and hashing work is library behaviour; names of models and
versions, and the uniqueness constraints on them, are single inserts the database makes
safe; logarithms and p-values are out of TLC's reach; `alert_deliveries` is a table no code
writes; migrations run by hand while nothing else does. A schedule's
`reference_snapshot_id` is kept and never used by the worker (`tasks.py:42`), so jobs have none.
