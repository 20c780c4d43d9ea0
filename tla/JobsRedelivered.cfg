\* Two workers, one schedule that can be due at every time; ticks fail half-way, users
\* deactivate the schedule meanwhile, and RQ may hand out a job that is still worked on.
CONSTANTS
    None = None
    Jobs = {j1, j2}
    Schedules = {s1}
    Workers = {w1, w2}
    MaxRetries = 1
    Interval = 1
    MaxTime = 1
    Redelivers = TRUE
SPECIFICATION Spec
INVARIANTS TypeOK RunsBelongToJobs RunsWithinDeliveries ScheduledJobsAreSpaced
PROPERTY DeactivationIsFinal
SYMMETRY JobSymmetry
CHECK_DEADLOCK FALSE
