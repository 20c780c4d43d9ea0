\* Two workers check the same version at the same time.
CONSTANTS
    f1 = f1  f2 = f2  b1 = b1  b2 = b2
    o1 = o1  o2 = o2  o3 = o3
    Runs = {r1, r2}
    ManualRuns = {}
    Features <- MCFeatures
    Batches = {b1}
    Rows = {o1, o2}
    FeatureOf <- MCFeatureOf
    BatchOf <- MCBatchOf
    UsableRows = {o1}
    Snapshots = {1}
    ExplicitEnds = {3}
    MinUsable = 9
    CreatedAt = 0
    MaxTime = 3
    Serial = FALSE
SPECIFICATION Spec
INVARIANT NoDoubleCount
CHECK_DEADLOCK FALSE
