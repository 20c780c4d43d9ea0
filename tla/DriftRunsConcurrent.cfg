\* Three runs at once, each with any window end, against ingestion.
CONSTANTS
    f1 = f1  f2 = f2  b1 = b1  b2 = b2
    o1 = o1  o2 = o2  o3 = o3
    Runs = {r1, r2, r3}
    ManualRuns = {r1, r2, r3}
    Features <- MCFeatures
    Batches = {b1}
    Rows = {o1, o2}
    FeatureOf <- MCFeatureOf
    BatchOf <- MCBatchOf
    UsableRows = {o1}
    Snapshots = {1}
    ExplicitEnds = {3}
    MinUsable = 9
    CreatedAt = 0
    MaxTime = 3
    Serial = FALSE
SPECIFICATION Spec
INVARIANTS TypeOK LaterRunsCountAnew WindowsLeaveNoGap UncountedRowsWereLate
SYMMETRY RunSymmetry
CHECK_DEADLOCK FALSE
