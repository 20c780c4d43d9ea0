---------------------------- MODULE MonitoringJobs ----------------------------
(***************************************************************************)
(* Monitoring jobs: rows of a table that say what a client is told, and    *)
(* messages of an RQ queue that make a worker do the work.                 *)
(*                                                                         *)
(* The API (services/monitoring_job_service.py) commits the row and then   *)
(* sends the message; the scheduler (services/scheduler_service.py) sends  *)
(* messages while it goes through the due schedules and commits the rows   *)
(* of all of them at the end; a worker (workers/tasks.py) handles a        *)
(* message in several transactions. Any of them may fail between two       *)
(* steps. Redis and the database share no transaction.                     *)
(***************************************************************************)
EXTENDS Naturals, FiniteSets

CONSTANTS
    Jobs,        \* job ids; one is used up by every attempt to create a job
    Schedules,   \* the monitoring schedules
    Workers,     \* the RQ workers
    MaxRetries,  \* Retry(max=3)
    Interval,    \* the interval of the schedules, in units of the clock
    MaxTime,     \* bound on the clock
    Redelivers,  \* TRUE: RQ may hand out a job again while an attempt at it,
                 \* whose worker stopped sending heartbeats, still runs
    None         \* no schedule, no time

ASSUME BoundsAssumption ==
    /\ MaxRetries \in Nat
    /\ Interval \in Nat \ {0}
    /\ MaxTime \in Nat
    /\ Redelivers \in BOOLEAN
    /\ None \notin Nat \cup Schedules \cup Jobs

VARIABLES
    now,          \* the clock
    \* The database, as committed.
    table,        \* the jobs that have a row
    status,       \* job -> monitoring_jobs.status
    jobSchedule,  \* job -> schedule_id
    jobRun,       \* job -> drift_run_id: the number of one of its runs, or 0
    driftRuns,    \* job -> how many drift runs it has committed
    schedule,     \* schedule -> "absent", "active" or "inactive" (is_active)
    lastRunAt,    \* schedule -> last_run_at
    \* Redis.
    queue,        \* the messages waiting for a worker
    sent,         \* the jobs a message was ever sent for
    retriesLeft,  \* job -> deliveries its message still has after a failure
    outcome,      \* job -> "none", "finished" or "failed", as RQ records it
    \* The API processes and the scheduler.
    requests,     \* the jobs an API request has committed and not yet sent
    ticking,      \* the scheduler is inside find_and_enqueue_due_schedules
    tickTime,     \* its `now`
    due,          \* the schedules it loaded and has still to look at
    staged,       \* schedule -> the job it has added and not committed, or None
    \* The workers.
    at,           \* worker -> the step of execute_monitoring_job it is at
    job,          \* worker -> the job it works on
    run,          \* worker -> the number of the drift run it committed, or 0
    orphan,       \* the workers whose job RQ has taken from them
    \* History.
    stranded,     \* job -> runs whose attempt ended without the job completed
    dueAt         \* job -> the tick that created it

database == <<table, status, jobSchedule, jobRun, driftRuns, schedule, lastRunAt>>
redis == <<queue, sent, retriesLeft, outcome>>
scheduler == <<ticking, tickTime, due, staged>>
workers == <<at, job, run, orphan>>
vars == <<now, database, redis, requests, scheduler, workers, stranded, dueAt>>

AttemptSteps == {"start", "marking", "restarting", "checking", "recording",
                 "done", "failing"}

TypeOK ==
    /\ now \in Nat
    /\ table \subseteq Jobs
    /\ status \in [Jobs -> {"pending", "running", "completed", "failed"}]
    /\ jobSchedule \in [Jobs -> Schedules \cup {None}]
    /\ jobRun \in [Jobs -> Nat]
    /\ driftRuns \in [Jobs -> Nat]
    /\ schedule \in [Schedules -> {"absent", "active", "inactive"}]
    /\ lastRunAt \in [Schedules -> Nat \cup {None}]
    /\ queue \subseteq Jobs
    /\ sent \subseteq Jobs
    /\ retriesLeft \in [Jobs -> 0..MaxRetries]
    /\ outcome \in [Jobs -> {"none", "finished", "failed"}]
    /\ requests \subseteq Jobs
    /\ ticking \in BOOLEAN
    /\ tickTime \in Nat
    /\ due \subseteq Schedules
    /\ staged \in [Schedules -> Jobs \cup {None}]
    /\ at \in [Workers -> AttemptSteps \cup {"idle"}]
    /\ job \in [Workers -> Jobs \cup {None}]
    /\ run \in [Workers -> Nat]
    /\ orphan \subseteq Workers
    /\ stranded \in [Jobs -> Nat]
    /\ dueAt \in [Jobs -> Nat \cup {None}]

Init ==
    /\ now = 0
    /\ table = {}
    /\ status = [j \in Jobs |-> "pending"]
    /\ jobSchedule = [j \in Jobs |-> None]
    /\ jobRun = [j \in Jobs |-> 0]
    /\ driftRuns = [j \in Jobs |-> 0]
    /\ schedule = [s \in Schedules |-> "absent"]
    /\ lastRunAt = [s \in Schedules |-> None]
    /\ queue = {}
    /\ sent = {}
    /\ retriesLeft = [j \in Jobs |-> MaxRetries]
    /\ outcome = [j \in Jobs |-> "none"]
    /\ requests = {}
    /\ ticking = FALSE
    /\ tickTime = 0
    /\ due = {}
    /\ staged = [s \in Schedules |-> None]
    /\ at = [w \in Workers |-> "idle"]
    /\ job = [w \in Workers |-> None]
    /\ run = [w \in Workers |-> 0]
    /\ orphan = {}
    /\ stranded = [j \in Jobs |-> 0]
    /\ dueAt = [j \in Jobs |-> None]

Tick ==
    /\ now < MaxTime
    /\ now' = now + 1
    /\ UNCHANGED <<database, redis, requests, scheduler, workers, stranded, dueAt>>

StagedJobs == {staged[s] : s \in Schedules} \ {None}

\* A job id nobody has: uuid4 gives every row a new one.
Fresh(j) == j \notin table \cup StagedJobs \cup sent

Send(j) ==
    /\ queue' = queue \cup {j}
    /\ sent' = sent \cup {j}
    /\ UNCHANGED <<retriesLeft, outcome>>

-----------------------------------------------------------------------------
(* The API.                                                                *)

\* enqueue_monitoring_job up to its commit.
RequestJob(j) ==
    /\ Fresh(j)
    /\ table' = table \cup {j}
    /\ requests' = requests \cup {j}
    /\ UNCHANGED <<now, status, jobSchedule, jobRun, driftRuns, schedule, lastRunAt,
                   redis, scheduler, workers, stranded, dueAt>>

SendRequestedJob(j) ==
    /\ j \in requests
    /\ Send(j)
    /\ requests' = requests \ {j}
    /\ UNCHANGED <<now, database, scheduler, workers, stranded, dueAt>>

\* Redis does not answer, or the API process dies, after the commit.
LoseRequest(j) ==
    /\ j \in requests
    /\ requests' = requests \ {j}
    /\ UNCHANGED <<now, database, redis, scheduler, workers, stranded, dueAt>>

CreateSchedule(s) ==
    /\ schedule[s] = "absent"
    /\ schedule' = [schedule EXCEPT ![s] = "active"]
    /\ UNCHANGED <<now, table, status, jobSchedule, jobRun, driftRuns, lastRunAt,
                   redis, requests, scheduler, workers, stranded, dueAt>>

\* The update waits while the scheduler's transaction holds the row.
DeactivateSchedule(s) ==
    /\ schedule[s] # "absent"
    /\ staged[s] = None
    /\ schedule' = [schedule EXCEPT ![s] = "inactive"]
    /\ UNCHANGED <<now, table, status, jobSchedule, jobRun, driftRuns, lastRunAt,
                   redis, requests, scheduler, workers, stranded, dueAt>>

-----------------------------------------------------------------------------
(* The scheduler: one process, one tick at a time.                         *)

\* find_and_enqueue_due_schedules reads the clock and the active schedules.
StartTick ==
    /\ ~ticking
    /\ ticking' = TRUE
    /\ tickTime' = now
    /\ due' = {s \in Schedules : schedule[s] = "active"}
    /\ UNCHANGED <<now, database, redis, requests, staged, workers, stranded, dueAt>>

\* Mutant: a schedule that has never run has nothing to add an interval to.
IsDueOnceRun(s) == lastRunAt[s] # None /\ lastRunAt[s] + Interval <= tickTime

\* Mutant: a schedule comes one unit early.
IsDueEarly(s) ==
    IF lastRunAt[s] = None THEN TRUE ELSE lastRunAt[s] + Interval <= tickTime + 1

IsDue(s) ==
    IF lastRunAt[s] = None THEN TRUE ELSE lastRunAt[s] + Interval <= tickTime

SkipSchedule(s) ==
    /\ ticking /\ s \in due
    /\ ~IsDue(s)
    /\ due' = due \ {s}
    /\ UNCHANGED <<now, database, redis, requests, ticking, tickTime, staged, workers,
                   stranded, dueAt>>

\* The job is flushed, which nobody sees, and its message sent, which a worker
\* may receive at once.
EnqueueDueSchedule(s) ==
    /\ ticking /\ s \in due
    /\ IsDue(s)
    /\ \E j \in Jobs : /\ Fresh(j)
                      /\ Send(j)
                      /\ staged' = [staged EXCEPT ![s] = j]
    /\ due' = due \ {s}
    /\ UNCHANGED <<now, database, requests, ticking, tickTime, workers, stranded, dueAt>>

\* Mutant: the commit writes the schedules back as they were loaded.
CommitTickWholeRow ==
    /\ ticking /\ due = {}
    /\ table' = table \cup StagedJobs
    /\ schedule' = [s \in Schedules |->
                       IF staged[s] # None THEN "active" ELSE schedule[s]]
    /\ staged' = [s \in Schedules |-> None]
    /\ ticking' = FALSE
    /\ UNCHANGED <<now, status, jobSchedule, lastRunAt, dueAt, jobRun, driftRuns,
                   redis, requests, tickTime, due, workers, stranded>>

\* The commit at the end of the tick writes all jobs and all last_run_at.
CommitTick ==
    /\ ticking /\ due = {}
    /\ table' = table \cup StagedJobs
    /\ jobSchedule' = [j \in Jobs |->
                          IF j \in StagedJobs
                          THEN CHOOSE s \in Schedules : staged[s] = j
                          ELSE jobSchedule[j]]
    /\ lastRunAt' = [s \in Schedules |->
                        IF staged[s] # None THEN tickTime ELSE lastRunAt[s]]
    /\ dueAt' = [j \in Jobs |-> IF j \in StagedJobs THEN tickTime ELSE dueAt[j]]
    /\ staged' = [s \in Schedules |-> None]
    /\ ticking' = FALSE
    /\ UNCHANGED <<now, status, jobRun, driftRuns, schedule, redis, requests, tickTime,
                   due, workers, stranded>>

\* Redis or the database fails, or the scheduler dies: its transaction is
\* rolled back, the messages it has sent stay.
FailTick ==
    /\ ticking
    /\ ticking' = FALSE
    /\ due' = {}
    /\ staged' = [s \in Schedules |-> None]
    /\ UNCHANGED <<now, database, redis, requests, tickTime, workers, stranded, dueAt>>

-----------------------------------------------------------------------------
(* RQ, as the code uses it, and execute_monitoring_job.                    *)

Goto(w, step) ==
    /\ at' = [at EXCEPT ![w] = step]
    /\ UNCHANGED <<job, orphan>>

Leave(w) ==
    /\ at' = [at EXCEPT ![w] = "idle"]
    /\ job' = [job EXCEPT ![w] = None]
    /\ run' = [run EXCEPT ![w] = 0]
    /\ orphan' = orphan \ {w}

\* The run an attempt committed is stranded unless it leaves its job completed.
Strand(w) ==
    LET strands == run[w] # 0 /\ status'[job[w]] # "completed"
    IN  stranded' = [stranded EXCEPT ![job[w]] = @ + (IF strands THEN 1 ELSE 0)]

Finish(w) ==
    /\ Leave(w)
    /\ outcome' = [outcome EXCEPT ![job[w]] = "finished"]
    /\ UNCHANGED <<queue, sent, retriesLeft>>

\* What RQ does with a job whose attempt failed: Retry(max=3). A message that is
\* already in the queue is not doubled.
RetryOrGiveUp(j) ==
    /\ IF retriesLeft[j] > 0
       THEN /\ queue' = queue \cup {j}
            /\ retriesLeft' = [retriesLeft EXCEPT ![j] = @ - 1]
            /\ UNCHANGED outcome
       ELSE /\ outcome' = [outcome EXCEPT ![j] = "failed"]
            /\ UNCHANGED <<queue, retriesLeft>>
    /\ UNCHANGED sent

Deliver(w, j) ==
    /\ at[w] = "idle"
    /\ j \in queue
    /\ queue' = queue \ {j}
    /\ at' = [at EXCEPT ![w] = "start"]
    /\ job' = [job EXCEPT ![w] = j]
    /\ UNCHANGED <<now, database, sent, retriesLeft, outcome, requests, scheduler,
                   run, orphan, stranded, dueAt>>

\* Mutant: a message without a row is worked on.
SkippableIfCompleted(j) == status[j] = "completed"

\* Mutant: a completed job is worked on.
SkippableIfMissing(j) == j \notin table

\* Mutant: a job someone has started is left to him.
SkippableIfRunning(j) == j \notin table \/ status[j] \in {"running", "completed"}

\* There is no such row, or the job is done: return, and RQ is content.
Skippable(j) == j \notin table \/ status[j] = "completed"

DropJob(w) ==
    /\ at[w] = "start"
    /\ Skippable(job[w])
    /\ Finish(w)
    /\ UNCHANGED <<now, database, requests, scheduler, stranded, dueAt>>

TakeJob(w) ==
    /\ at[w] = "start"
    /\ ~Skippable(job[w])
    /\ Goto(w, IF status[job[w]] = "running" THEN "restarting" ELSE "marking")
    /\ UNCHANGED <<now, database, redis, requests, scheduler, run, stranded, dueAt>>

MarkRunning(w) ==
    /\ at[w] = "marking"
    /\ status' = [status EXCEPT ![job[w]] = "running"]
    /\ Goto(w, "checking")
    /\ UNCHANGED <<now, table, jobSchedule, jobRun, driftRuns, schedule, lastRunAt,
                   redis, requests, scheduler, run, stranded, dueAt>>

\* The job it read was running already, so the session has no new status to
\* write: the commit leaves the column as it is by then.
RestartRunning(w) ==
    /\ at[w] = "restarting"
    /\ Goto(w, "checking")
    /\ UNCHANGED <<now, database, redis, requests, scheduler, run, stranded, dueAt>>

\* run_drift_check and the commit of its run.
CheckDrift(w) ==
    /\ at[w] = "checking"
    /\ driftRuns' = [driftRuns EXCEPT ![job[w]] = @ + 1]
    /\ run' = [run EXCEPT ![w] = driftRuns[job[w]] + 1]
    /\ Goto(w, "recording")
    /\ UNCHANGED <<now, table, status, jobSchedule, jobRun, schedule, lastRunAt,
                   redis, requests, scheduler, stranded, dueAt>>

\* Mutant: drift_run_id is not written.
RecordCompletedOnly(w) ==
    /\ at[w] = "recording"
    /\ status' = [status EXCEPT ![job[w]] = "completed"]
    /\ Goto(w, "done")
    /\ UNCHANGED <<now, table, jobSchedule, jobRun, driftRuns, schedule, lastRunAt,
                   redis, requests, scheduler, run, stranded, dueAt>>

RecordCompleted(w) ==
    /\ at[w] = "recording"
    /\ status' = [status EXCEPT ![job[w]] = "completed"]
    /\ jobRun' = [jobRun EXCEPT ![job[w]] = run[w]]
    /\ Goto(w, "done")
    /\ UNCHANGED <<now, table, jobSchedule, driftRuns, schedule, lastRunAt,
                   redis, requests, scheduler, run, stranded, dueAt>>

\* The task returns and RQ marks the job finished; an attempt lost before that
\* is made again although the job is completed.
ReturnToRQ(w) ==
    /\ at[w] = "done"
    /\ Finish(w)
    /\ UNCHANGED <<now, database, requests, scheduler, stranded, dueAt>>

\* Mutant: the task tries again by itself.
RaiseErrorInPlace(w) ==
    /\ at[w] \in {"checking", "recording", "done"}
    /\ Goto(w, "marking")
    /\ UNCHANGED <<now, database, redis, requests, scheduler, run, stranded, dueAt>>

\* An exception inside the try: rollback. RQ's job timeout, or the loss of the
\* database's answer, may come behind the last commit of the try as well, when
\* there is nothing left to roll back.
RaiseError(w) ==
    /\ at[w] \in {"checking", "recording", "done"}
    /\ Goto(w, "failing")
    /\ UNCHANGED <<now, database, redis, requests, scheduler, run, stranded, dueAt>>

\* Mutant: the except branch does not raise again.
RecordFailedQuietly(w) ==
    /\ at[w] = "failing"
    /\ status' = [status EXCEPT ![job[w]] = "failed"]
    /\ Finish(w)
    /\ Strand(w)
    /\ UNCHANGED <<now, table, jobSchedule, jobRun, driftRuns, schedule, lastRunAt,
                   requests, scheduler, dueAt>>

\* Mutant: a status the column does not have.
RecordFailedAsError(w) ==
    /\ at[w] = "failing"
    /\ status' = [status EXCEPT ![job[w]] = "error"]
    /\ Leave(w)
    /\ Strand(w)
    /\ RetryOrGiveUp(job[w])
    /\ UNCHANGED <<now, table, jobSchedule, jobRun, driftRuns, schedule, lastRunAt,
                   requests, scheduler, dueAt>>

\* The except branch records the failure and raises it again.
RecordFailed(w) ==
    /\ at[w] = "failing"
    /\ status' = [status EXCEPT ![job[w]] = "failed"]
    /\ Leave(w)
    /\ Strand(w)
    /\ RetryOrGiveUp(job[w])
    /\ UNCHANGED <<now, table, jobSchedule, jobRun, driftRuns, schedule, lastRunAt,
                   requests, scheduler, dueAt>>

\* The worker's process dies, or an exception leaves the task from outside its
\* try: no transaction commits any more, and RQ sees a failed attempt.
LoseAttempt(w) ==
    /\ at[w] # "idle"
    /\ UNCHANGED <<now, database, requests, scheduler, dueAt>>
    /\ Leave(w)
    /\ Strand(w)
    /\ RetryOrGiveUp(job[w])

\* RQ gives up on a worker that still runs its attempt.
Redeliver(w) ==
    /\ Redelivers
    /\ at[w] # "idle"
    /\ w \notin orphan
    /\ orphan' = orphan \cup {w}
    /\ RetryOrGiveUp(job[w])
    /\ UNCHANGED <<now, database, requests, scheduler, at, job, run, stranded, dueAt>>

-----------------------------------------------------------------------------
ApiStep ==
    \/ \E j \in Jobs : RequestJob(j) \/ SendRequestedJob(j) \/ LoseRequest(j)
    \/ \E s \in Schedules : CreateSchedule(s) \/ DeactivateSchedule(s)

SchedulerStep ==
    \/ StartTick \/ CommitTick \/ FailTick
    \/ \E s \in Schedules : SkipSchedule(s) \/ EnqueueDueSchedule(s)

\* What a worker does by itself once it has a job.
WorkerStep(w) ==
    \/ DropJob(w) \/ TakeJob(w) \/ MarkRunning(w) \/ RestartRunning(w)
    \/ CheckDrift(w) \/ RecordCompleted(w) \/ ReturnToRQ(w) \/ RecordFailed(w)

Next ==
    \/ Tick
    \/ ApiStep
    \/ SchedulerStep
    \/ \E w \in Workers :
          \/ \E j \in Jobs : Deliver(w, j)
          \/ WorkerStep(w)
          \/ RaiseError(w) \/ LoseAttempt(w) \/ Redeliver(w)

Spec == Init /\ [][Next]_vars

\* The workers take messages and go on with what they have.
Fairness ==
    \A w \in Workers : /\ WF_vars(\E j \in Jobs : Deliver(w, j))
                       /\ WF_vars(WorkerStep(w))

\* The scheduler's loop ticks again whatever becomes of a tick, and ticks do not fail
\* for ever at the same step. Nothing else is promised to happen.
SchedulerFairness ==
    /\ WF_vars(StartTick)
    /\ \A s \in Schedules : SF_vars(SkipSchedule(s) \/ EnqueueDueSchedule(s))
    /\ SF_vars(CommitTick)

FairSpec == Spec /\ Fairness /\ SchedulerFairness

-----------------------------------------------------------------------------
(* Properties.                                                             *)

On(j) == {w \in Workers : at[w] # "idle" /\ job[w] = j}

\* A client that finds a job completed finds a drift run by its drift_run_id,
\* one this job's attempts committed; and a message whose row was rolled back
\* produces no run (the two commits of execute_monitoring_job, and its test for
\* a missing row against the scheduler's late commit).
RunsBelongToJobs ==
    \A j \in Jobs :
        /\ j \in table /\ status[j] = "completed" => jobRun[j] \in 1..driftRuns[j]
        /\ j \notin table => driftRuns[j] = 0

\* However often attempts overlap, a job commits at most one run for each time
\* its message was delivered (execute_monitoring_job under Retry(max=3)).
RunsWithinDeliveries ==
    \A j \in Jobs : driftRuns[j] + retriesLeft[j] <= MaxRetries + 1

\* A job that says it is running has an attempt that runs or waits in the queue,
\* unless RQ has given the job up: retries and lost attempts leave no such row
\* behind (execute_monitoring_job under RQ's retries, one attempt at a time).
RunningJobsHaveAnAttempt ==
    \A j \in table :
        status[j] = "running" => On(j) # {} \/ j \in queue \/ outcome[j] = "failed"

\* The jobs of one schedule come from ticks at least an interval apart, although
\* ticks fail after they have sent messages, and are made again
\* (find_and_enqueue_due_schedules).
ScheduledJobsAreSpaced ==
    \A i, j \in table :
        (i # j /\ jobSchedule[i] # None /\ jobSchedule[i] = jobSchedule[j]) =>
            dueAt[i] + Interval <= dueAt[j] \/ dueAt[j] + Interval <= dueAt[i]

\* A schedule a user deactivates during a tick stays so when the tick, which has
\* loaded it as active, commits (deactivate_schedule against CommitTick).
DeactivationIsFinal ==
    [][\A s \in Schedules : schedule[s] = "inactive" => schedule'[s] = "inactive"]_vars

\* A completed job has committed one drift run, the one it points to, and one more
\* for every attempt that failed or was lost after it had committed its run,
\* whether it had recorded it or not; any other job has these alone, and the run of
\* the attempt under way (the three commits of execute_monitoring_job, one attempt
\* at a time).
OneRunPerCompletedJob ==
    \A j \in Jobs :
        IF status[j] = "completed"
        THEN driftRuns[j] = stranded[j] + 1 /\ jobRun[j] = driftRuns[j]
        ELSE driftRuns[j] = stranded[j] + Cardinality({w \in On(j) : run[w] # 0})

\* A completed job keeps its run, and no retry or redelivery touches it: it stays
\* completed unless the attempt that made that run, and no other, raises an error
\* behind its last commit and marks it failed (the first test and the except branch
\* of execute_monitoring_job, one attempt at a time).
CompletedUnlessItsAttemptFails ==
    [][\A j \in Jobs : status[j] = "completed" =>
          /\ UNCHANGED <<jobRun[j], driftRuns[j]>>
          /\ \/ status'[j] = "completed"
             \/ /\ status'[j] = "failed"
                /\ \E w \in On(j) : at[w] = "failing" /\ run[w] = jobRun[j]]_vars

\* RQ never counts a message of an API request as done while the job is not: the
\* row is there before the message (enqueue_monitoring_job).
RequestedJobsAreNotDropped ==
    \A j \in table :
        jobSchedule[j] = None /\ outcome[j] = "finished" => status[j] = "completed"

\* A job with a row and a message gets an answer for good: completed, failed, or
\* the last attempt RQ allows it was lost (WorkerStep, RetryOrGiveUp).
QueuedJobsSettle ==
    \A j \in Jobs :
        (j \in table /\ j \in queue) ~>
            [](On(j) = {} /\ j \notin queue /\
               (status[j] \in {"completed", "failed"} \/ outcome[j] = "failed"))

Served(s) == \E j \in table : jobSchedule[j] = s /\ now < dueAt[j] + Interval

\* Whatever ticks fail after sending messages, an active schedule comes to have a job
\* of the last interval, unless it is deactivated, or the model's job ids are used up
\* (scheduler.py's tick against the rollback of what it had found due).
SchedulesAreServed ==
    \A s \in Schedules :
        schedule[s] = "active" ~>
            Served(s) \/ schedule[s] = "inactive" \/ \A j \in Jobs : ~Fresh(j)

\* A scheduled job whose message RQ has done with is completed: what the scheduler
\* promises, which sends the message before it commits the row.
ScheduledJobsAreNotDropped ==
    \A j \in table :
        jobSchedule[j] # None /\ outcome[j] = "finished" => status[j] = "completed"

\* A failed job has left no drift run: what tasks.py promises.
FailedJobsLeaveNoRun ==
    \A j \in table : status[j] = "failed" => driftRuns[j] = 0
=============================================================================
