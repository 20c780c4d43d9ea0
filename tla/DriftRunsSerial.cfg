\* Runs in turn, as one worker makes them: r1 and r2 by the worker, r3 by an API
\* caller; two requests insert rows meanwhile.
CONSTANTS
    f1 = f1  f2 = f2  o1 = o1  o2 = o2  o3 = o3  b1 = b1  b2 = b2
    Runs = {r1, r2, r3}
    ManualRuns = {r3}
    Features <- MCFeatures
    Batches = {b1, b2}
    Rows = {o2, o3}
    FeatureOf <- MCFeatureOf
    BatchOf <- MCBatchOf
    UsableRows = {o3}
    Snapshots = {1}
    ExplicitEnds = {3}
    MinUsable = 1
    CreatedAt = 0
    MaxTime = 3
    Serial = TRUE
SPECIFICATION Spec
INVARIANTS NoDoubleCount ReportMatchesRows
PROPERTY RunsKeepTheLedger
CHECK_DEADLOCK FALSE
