\* The scheduler's message reaches a worker before the scheduler commits.
CONSTANTS
    None = None
    Jobs = {j1}
    Schedules = {s1}
    Workers = {w1}
    MaxRetries = 1
    Interval = 1
    MaxTime = 1
    Redelivers = FALSE
SPECIFICATION Spec
INVARIANT ScheduledJobsAreNotDropped
CHECK_DEADLOCK FALSE
