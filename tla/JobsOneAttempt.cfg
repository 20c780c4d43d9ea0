\* One attempt at a job at a time: the worker dies, errors are raised, RQ retries.
CONSTANTS
    None = None
    Jobs = {j1, j2}
    Schedules = {s1}
    Workers = {w1}
    MaxRetries = 1
    Interval = 1
    MaxTime = 1
    Redelivers = FALSE
SPECIFICATION FairSpec
INVARIANTS RunningJobsHaveAnAttempt OneRunPerCompletedJob RequestedJobsAreNotDropped
PROPERTIES CompletedUnlessItsAttemptFails QueuedJobsSettle SchedulesAreServed
CHECK_DEADLOCK FALSE
