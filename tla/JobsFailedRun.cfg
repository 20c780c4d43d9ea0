\* A retry after an attempt that committed its run and not its job.
CONSTANTS
    None = None
    Jobs = {j1}
    Schedules = {s1}
    Workers = {w1}
    MaxRetries = 1
    Interval = 1
    MaxTime = 1
    Redelivers = FALSE
SPECIFICATION Spec
INVARIANT FailedJobsLeaveNoRun
CHECK_DEADLOCK FALSE
