------------------------------ MODULE DriftRuns ------------------------------
(***************************************************************************)
(* Drift checks of one model version (app/services/drift_service.py).      *)
(*                                                                         *)
(* A run is one call of run_drift_check inside one database transaction.   *)
(* The API (api/drift.py) and the RQ worker (workers/tasks.py) both make   *)
(* such calls, in processes of their own, without any lock, at the         *)
(* isolation level READ COMMITTED: each query of a run sees what was       *)
(* committed when that query ran, and nobody sees a run before its commit. *)
(* Ingestion requests stamp their rows (ingested_at) when they flush and   *)
(* make them visible when they commit, some time later.                    *)
(*                                                                         *)
(* The model has one model version: every query of a run filters by it.    *)
(***************************************************************************)
EXTENDS Naturals, FiniteSets

CONSTANTS
    Runs,          \* the calls of run_drift_check
    Features,      \* the version's features
    Batches,       \* the ingestion requests
    Rows,          \* the production observations they insert
    FeatureOf,     \* the feature of a row
    BatchOf,       \* the request that inserts a row
    UsableRows,    \* rows with a value the engine can use
    Snapshots,     \* reference snapshots, numbered by created_at
    ManualRuns,    \* the runs API callers make, with options of their own
    ExplicitEnds,  \* the values of window_end they pass
    MinUsable,     \* MIN_USABLE_SAMPLES
    CreatedAt,     \* the version's created_at
    MaxTime,       \* bound on the clock
    Serial         \* TRUE: a run begins only when no other is active

ASSUME RowsAssumption ==
    /\ FeatureOf \in [Rows -> Features]
    /\ BatchOf \in [Rows -> Batches]
    /\ UsableRows \subseteq Rows
    /\ ManualRuns \subseteq Runs

ASSUME TimesAssumption ==
    /\ Snapshots \subseteq Nat
    /\ ExplicitEnds \subseteq Nat
    /\ MinUsable \in Nat
    /\ CreatedAt \in Nat
    /\ MaxTime \in Nat
    /\ Serial \in BOOLEAN

VARIABLES
    now,           \* the clock the processes read
    ingestedAt,    \* row -> ingested_at; meaningful once the row is flushed
    flushed,       \* rows stamped by a flush
    batch,         \* batch -> "open", "committed" or "rolledback"
    snapshots,     \* committed reference snapshots
    pc,            \* run -> the step it is at
    snapshot,      \* run -> drift_run.reference_snapshot_id
    windowStart,   \* run -> drift_run.window_start
    windowEnd,     \* run -> drift_run.window_end
    todo,          \* run -> features its loop has still to visit
    counted,       \* run -> rows its feature results count
    status,        \* run -> drift_run.status
    featureStatus, \* run -> feature -> feature_status, or "skipped"
    alerts,        \* run -> features it adds an alert for
    seen,          \* history: run -> runs committed when it read its start
    settled        \* history: run -> rows committed when it read its start

data == <<now, ingestedAt, flushed, batch, snapshots>>
run == <<pc, snapshot, windowStart, windowEnd, todo, counted, status,
         featureStatus, alerts, seen, settled>>
vars == <<data, run>>

Statuses == {"ok", "moderate", "drifted", "insufficient_data"}
Steps == {"idle", "resolved", "ended", "querying", "committed", "aborted"}
ActiveSteps == {"resolved", "ended", "querying"}

Active == {r \in Runs : pc[r] \in ActiveSteps}
Committed == {r \in Runs : pc[r] = "committed"}
CommittedRows == {o \in Rows : batch[BatchOf[o]] = "committed"}

InWindow(o, r) == windowStart[r] < ingestedAt[o] /\ ingestedAt[o] <= windowEnd[r]

TypeOK ==
    /\ now \in Nat
    /\ ingestedAt \in [Rows -> Nat]
    /\ flushed \subseteq Rows
    /\ batch \in [Batches -> {"open", "committed", "rolledback"}]
    /\ snapshots \subseteq Snapshots
    /\ pc \in [Runs -> Steps]
    /\ snapshot \in [Runs -> Nat]
    /\ windowStart \in [Runs -> Nat]
    /\ windowEnd \in [Runs -> Nat]
    /\ todo \in [Runs -> SUBSET Features]
    /\ counted \in [Runs -> SUBSET Rows]
    /\ status \in [Runs -> {"empty", "completed"}]
    /\ featureStatus \in [Runs -> [Features -> Statuses \cup {"skipped"}]]
    /\ alerts \in [Runs -> SUBSET Features]
    /\ seen \in [Runs -> SUBSET Runs]
    /\ settled \in [Runs -> SUBSET Rows]

Init ==
    /\ now = CreatedAt + 1
    /\ ingestedAt = [o \in Rows |-> 0]
    /\ flushed = {}
    /\ batch = [b \in Batches |-> "open"]
    /\ snapshots = {}
    /\ pc = [r \in Runs |-> "idle"]
    /\ snapshot = [r \in Runs |-> 0]
    /\ windowStart = [r \in Runs |-> 0]
    /\ windowEnd = [r \in Runs |-> 0]
    /\ todo = [r \in Runs |-> {}]
    /\ counted = [r \in Runs |-> {}]
    /\ status = [r \in Runs |-> "empty"]
    /\ featureStatus = [r \in Runs |-> [f \in Features |-> "skipped"]]
    /\ alerts = [r \in Runs |-> {}]
    /\ seen = [r \in Runs |-> {}]
    /\ settled = [r \in Runs |-> {}]

-----------------------------------------------------------------------------
(* The clock, ingestion and reference snapshots.                           *)

Tick ==
    /\ now < MaxTime
    /\ now' = now + 1
    /\ UNCHANGED <<ingestedAt, flushed, batch, snapshots, run>>

\* ingest_observations flushes: the column default stamps each row in turn.
Flush(o) ==
    /\ batch[BatchOf[o]] = "open"
    /\ o \notin flushed
    /\ flushed' = flushed \cup {o}
    /\ ingestedAt' = [ingestedAt EXCEPT ![o] = now]
    /\ UNCHANGED <<now, batch, snapshots, run>>

\* The endpoint commits the request's rows, all of them flushed, together.
CommitBatch(b) ==
    /\ batch[b] = "open"
    /\ \A o \in Rows : BatchOf[o] = b => o \in flushed
    /\ batch' = [batch EXCEPT ![b] = "committed"]
    /\ UNCHANGED <<now, ingestedAt, flushed, snapshots, run>>

\* The request fails, or its process dies, before the commit.
AbortBatch(b) ==
    /\ batch[b] = "open"
    /\ batch' = [batch EXCEPT ![b] = "rolledback"]
    /\ flushed' = {o \in flushed : BatchOf[o] # b}
    /\ ingestedAt' = [o \in Rows |-> IF BatchOf[o] = b THEN 0 ELSE ingestedAt[o]]
    /\ UNCHANGED <<now, snapshots, run>>

\* A snapshot is committed. Its number is its created_at, which is set before
\* the commit: snapshots may become visible in another order.
CreateSnapshot(s) ==
    /\ s \notin snapshots
    /\ snapshots' = snapshots \cup {s}
    /\ UNCHANGED <<now, ingestedAt, flushed, batch, run>>

-----------------------------------------------------------------------------
(* run_drift_check, one action per query or clock reading.                 *)

\* _resolve_reference_snapshot without an id: the latest one by created_at.
LatestSnapshots == {s \in snapshots : \A t \in snapshots : t <= s}

\* An API caller may name a snapshot of the version; everyone else gets the
\* latest. A foreign version or snapshot, or no snapshot, makes the call raise
\* before it writes anything.
Resolve(r) ==
    /\ pc[r] = "idle"
    /\ Serial => Active = {}
    /\ \/ \E s \in IF r \in ManualRuns THEN snapshots ELSE LatestSnapshots :
            /\ snapshot' = [snapshot EXCEPT ![r] = s]
            /\ pc' = [pc EXCEPT ![r] = "resolved"]
       \/ /\ r \in ManualRuns \/ snapshots = {}
          /\ pc' = [pc EXCEPT ![r] = "aborted"]
          /\ UNCHANGED snapshot
    /\ UNCHANGED <<data, windowStart, windowEnd, todo, counted, status,
                   featureStatus, alerts, seen, settled>>

\* window_end = window_end or now
TakeWindowEnd(r) ==
    /\ pc[r] = "resolved"
    /\ \E e \in {now} \cup (IF r \in ManualRuns THEN ExplicitEnds ELSE {}) :
          windowEnd' = [windowEnd EXCEPT ![r] = e]
    /\ pc' = [pc EXCEPT ![r] = "ended"]
    /\ UNCHANGED <<data, snapshot, windowStart, todo, counted, status,
                   featureStatus, alerts, seen, settled>>

\* _resolve_window_start: the largest window_end of a committed run, or the
\* version's created_at when there is none.
LatestRuns == {q \in Committed : \A p \in Committed : windowEnd[p] <= windowEnd[q]}

\* Mutant: the ORDER BY is missing.
WindowStartsUnordered ==
    IF Committed = {} THEN {CreatedAt} ELSE {windowEnd[q] : q \in Committed}

\* Mutant: the window starts after the previous end, and excludes its start.
WindowStartsSkipping ==
    IF Committed = {} THEN {CreatedAt} ELSE {windowEnd[q] + 1 : q \in LatestRuns}

WindowStarts ==
    IF Committed = {} THEN {CreatedAt} ELSE {windowEnd[q] : q \in LatestRuns}

\* Reads the window start and the feature list and flushes the new run.
ReadWindowStart(r) ==
    /\ pc[r] = "ended"
    /\ \E s \in WindowStarts : windowStart' = [windowStart EXCEPT ![r] = s]
    /\ todo' = [todo EXCEPT ![r] = Features]
    /\ seen' = [seen EXCEPT ![r] = Committed]
    /\ settled' = [settled EXCEPT ![r] = CommittedRows]
    /\ pc' = [pc EXCEPT ![r] = "querying"]
    /\ UNCHANGED <<data, snapshot, windowEnd, counted, status, featureStatus,
                   alerts>>

\* Mutant: the end of the window is excluded.
ObservationsBeforeEnd(r, f) ==
    {o \in CommittedRows : /\ FeatureOf[o] = f
                           /\ windowStart[r] < ingestedAt[o]
                           /\ ingestedAt[o] < windowEnd[r]}

\* Mutant: the start of the window is included.
ObservationsFromStart(r, f) ==
    {o \in CommittedRows : /\ FeatureOf[o] = f
                           /\ windowStart[r] <= ingestedAt[o]
                           /\ ingestedAt[o] <= windowEnd[r]}

\* The rows one feature's query returns.
Observations(r, f) == {o \in CommittedRows : FeatureOf[o] = f /\ InWindow(o, r)}

\* Mutant: the sample floor counts rows that cannot be used.
EvaluationsOfAllRows(rows) ==
    IF rows = {} THEN {"skipped"}
    ELSE IF Cardinality(rows) < MinUsable THEN {"insufficient_data"}
         ELSE Statuses

\* Mutant: a feature without rows gets the status of an empty run.
EvaluationsOrEmpty(rows) ==
    IF rows = {} THEN {"empty"}
    ELSE IF Cardinality(rows \cap UsableRows) < MinUsable
         THEN {"insufficient_data"}
         ELSE Statuses

\* The statuses the engine can give to the rows of a feature.
Evaluations(rows) ==
    IF rows = {} THEN {"skipped"}
    ELSE IF Cardinality(rows \cap UsableRows) < MinUsable
         THEN {"insufficient_data"}
         ELSE Statuses

\* One turn of the loop over the features; no order is asked of the query
\* that lists them.
EvaluateFeature(r, f) ==
    /\ pc[r] = "querying"
    /\ f \in todo[r]
    /\ todo' = [todo EXCEPT ![r] = @ \ {f}]
    /\ counted' = [counted EXCEPT ![r] = @ \cup Observations(r, f)]
    /\ \E v \in Evaluations(Observations(r, f)) :
          /\ featureStatus' = [featureStatus EXCEPT ![r][f] = v]
          /\ alerts' = [alerts EXCEPT ![r] =
                           IF v = "drifted" THEN @ \cup {f} ELSE @]
    /\ UNCHANGED <<data, pc, snapshot, windowStart, windowEnd, status, seen,
                   settled>>

\* The run gets its final status and the caller commits.
Commit(r) ==
    /\ pc[r] = "querying"
    /\ todo[r] = {}
    /\ status' = [status EXCEPT ![r] =
                     IF counted[r] = {} THEN "empty" ELSE "completed"]
    /\ pc' = [pc EXCEPT ![r] = "committed"]
    /\ UNCHANGED <<data, snapshot, windowStart, windowEnd, todo, counted,
                   featureStatus, alerts, seen, settled>>

\* An exception, a job timeout or a crash: the transaction is rolled back, the
\* run's rows are gone.
Abort(r) ==
    /\ pc[r] \in ActiveSteps
    /\ pc' = [pc EXCEPT ![r] = "aborted"]
    /\ snapshot' = [snapshot EXCEPT ![r] = 0]
    /\ windowStart' = [windowStart EXCEPT ![r] = 0]
    /\ windowEnd' = [windowEnd EXCEPT ![r] = 0]
    /\ todo' = [todo EXCEPT ![r] = {}]
    /\ counted' = [counted EXCEPT ![r] = {}]
    /\ featureStatus' = [featureStatus EXCEPT ![r] = [f \in Features |-> "skipped"]]
    /\ alerts' = [alerts EXCEPT ![r] = {}]
    /\ seen' = [seen EXCEPT ![r] = {}]
    /\ settled' = [settled EXCEPT ![r] = {}]
    /\ UNCHANGED <<data, status>>

RunStep(r) ==
    \/ Resolve(r)
    \/ TakeWindowEnd(r)
    \/ ReadWindowStart(r)
    \/ \E f \in Features : EvaluateFeature(r, f)
    \/ Commit(r)
    \/ Abort(r)

Next ==
    \/ Tick
    \/ \E o \in Rows : Flush(o)
    \/ \E b \in Batches : CommitBatch(b) \/ AbortBatch(b)
    \/ \E s \in Snapshots : CreateSnapshot(s)
    \/ \E r \in Runs : RunStep(r)

Spec == Init /\ [][Next]_vars
-----------------------------------------------------------------------------
(* Properties.                                                             *)

\* A run never counts a row again that a run committed before it read its
\* window start has counted, whatever window_end either was given: what
\* "windows never overlap" comes to when several sessions run checks
\* (_resolve_window_start, run_drift_check).
LaterRunsCountAnew ==
    \A r \in Committed : \A q \in seen[r] : counted[q] \cap counted[r] = {}

\* Everything up to the end of a committed run lies in the window of some
\* committed run, although runs overtake one another, abort, and are given
\* window ends of the past and the future (_resolve_window_start).
WindowsLeaveNoGap ==
    \A r \in Committed : \A t \in (CreatedAt + 1)..windowEnd[r] :
        \E q \in Committed : windowStart[q] < t /\ t <= windowEnd[q]

\* A visible row whose time has passed the end of a committed run was counted,
\* or the run whose window holds it had read its window start before the row's
\* request committed: only a row that commits late, after the stamp it
\* carries, is lost, and one run takes or leaves settled requests as a whole
\* (the queries of run_drift_check against ingestion's flush and commit).
UncountedRowsWereLate ==
    \A r \in Committed : \A o \in CommittedRows :
        ingestedAt[o] <= windowEnd[r] =>
            \E q \in Committed : /\ InWindow(o, q)
                                 /\ o \in counted[q] \/ o \notin settled[q]

\* overall_drift_status of a run's feature results.
OverallStatus(r) ==
    LET found == {featureStatus[r][f] : f \in Features} \ {"skipped"}
    IN  IF "drifted" \in found THEN "drifted"
        ELSE IF "moderate" \in found THEN "moderate"
        ELSE IF found \subseteq {"insufficient_data"} THEN "insufficient_data"
        ELSE "ok"

\* What the API reports of a committed run agrees with the rows it counted,
\* which its loop read one feature at a time: the status is "empty" exactly
\* when no feature has a result, there is an alert exactly when the overall
\* status is "drifted", and a drifted feature has enough usable rows.
ReportMatchesRows ==
    \A r \in Committed :
        /\ status[r] = "empty" <=>
              \A f \in Features : featureStatus[r][f] = "skipped"
        /\ alerts[r] # {} <=> OverallStatus(r) = "drifted"
        /\ \A f \in alerts[r] :
              LET rows == {o \in counted[r] : FeatureOf[o] = f}
              IN  rows # {} /\ Cardinality(rows \cap UsableRows) >= MinUsable

\* No row is counted by two runs: what drift_service.py promises. It holds of
\* runs made one at a time, and not of concurrent ones.
NoDoubleCount ==
    \A q, r \in Committed : q # r => counted[q] \cap counted[r] = {}
=============================================================================
