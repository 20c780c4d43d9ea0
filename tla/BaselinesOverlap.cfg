\* Two uploads of different features at the same time.
CONSTANTS
    None = None
    Uploads = {u1, u2}
    Features = {f1, f2}
SPECIFICATION Spec
INVARIANT LatestBaselineIsComplete
CHECK_DEADLOCK FALSE
