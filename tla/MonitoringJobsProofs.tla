------------------------- MODULE MonitoringJobsProofs -------------------------
(***************************************************************************)
(* What holds of monitoring jobs for any number of jobs, schedules and     *)
(* workers, any number of retries and any interval.                        *)
(***************************************************************************)
EXTENDS MonitoringJobs, FiniteSetTheorems, TLAPS

\* A worker that is not idle has a job.
WorkersHaveJobs == \A w \in Workers : at[w] # "idle" => job[w] \in Jobs

\* Every variable keeps its type, and every busy worker has a job to work on.
THEOREM TypeCorrect == Spec => [](TypeOK /\ WorkersHaveJobs)
<1>1. Init => TypeOK /\ WorkersHaveJobs
  <2> SUFFICES ASSUME Init PROVE TypeOK /\ WorkersHaveJobs
    OBVIOUS
  <2>1. MaxRetries \in 0..MaxRetries
    BY BoundsAssumption
  <2>2. TypeOK
    BY <2>1 DEF Init, TypeOK
  <2>3. WorkersHaveJobs
    BY DEF Init, WorkersHaveJobs
  <2> QED BY <2>2, <2>3
<1>2. (TypeOK /\ WorkersHaveJobs) /\ [Next]_vars => (TypeOK /\ WorkersHaveJobs)'
  <2> SUFFICES ASSUME TypeOK, WorkersHaveJobs, [Next]_vars
               PROVE  TypeOK' /\ WorkersHaveJobs'
    OBVIOUS
  <2> USE BoundsAssumption DEF TypeOK, WorkersHaveJobs
  <2>1. CASE Tick
    BY <2>1 DEF Tick, database, redis, scheduler, workers
  <2>2. ASSUME NEW j \in Jobs, RequestJob(j) PROVE TypeOK' /\ WorkersHaveJobs'
    BY <2>2 DEF RequestJob, redis, scheduler, workers
  <2>3. ASSUME NEW j \in Jobs, SendRequestedJob(j) PROVE TypeOK' /\ WorkersHaveJobs'
    BY <2>3 DEF SendRequestedJob, Send, database, scheduler, workers
  <2>4. ASSUME NEW j \in Jobs, LoseRequest(j) PROVE TypeOK' /\ WorkersHaveJobs'
    BY <2>4 DEF LoseRequest, database, redis, scheduler, workers
  <2>5. ASSUME NEW s \in Schedules, CreateSchedule(s)
        PROVE  TypeOK' /\ WorkersHaveJobs'
    BY <2>5 DEF CreateSchedule, redis, scheduler, workers
  <2>6. ASSUME NEW s \in Schedules, DeactivateSchedule(s)
        PROVE  TypeOK' /\ WorkersHaveJobs'
    BY <2>6 DEF DeactivateSchedule, redis, scheduler, workers
  <2>7. CASE StartTick
    BY <2>7 DEF StartTick, database, redis, workers
  <2>8. ASSUME NEW s \in Schedules, SkipSchedule(s)
        PROVE  TypeOK' /\ WorkersHaveJobs'
    BY <2>8 DEF SkipSchedule, database, redis, workers
  <2>9. ASSUME NEW s \in Schedules, EnqueueDueSchedule(s)
        PROVE  TypeOK' /\ WorkersHaveJobs'
    BY <2>9 DEF EnqueueDueSchedule, Send, database, workers
  <2>10. CASE CommitTick
    <3>1. StagedJobs \subseteq Jobs
      BY DEF StagedJobs
    <3>2. \A j \in StagedJobs : (CHOOSE s \in Schedules : staged[s] = j) \in Schedules
      BY DEF StagedJobs
    <3>3. jobSchedule' \in [Jobs -> Schedules \cup {None}]
      BY <2>10, <3>2 DEF CommitTick
    <3>4. /\ lastRunAt' \in [Schedules -> Nat \cup {None}]
          /\ dueAt' \in [Jobs -> Nat \cup {None}]
          /\ staged' \in [Schedules -> Jobs \cup {None}]
      BY <2>10 DEF CommitTick
    <3>5. table' \subseteq Jobs /\ ticking' \in BOOLEAN
      BY <2>10, <3>1 DEF CommitTick
    <3>6. /\ UNCHANGED <<now, status, jobRun, driftRuns, schedule, requests, tickTime,
                         due, stranded>>
          /\ UNCHANGED <<redis, workers>>
      BY <2>10 DEF CommitTick
    <3> QED BY <3>3, <3>4, <3>5, <3>6 DEF redis, workers
  <2>11. CASE FailTick
    BY <2>11 DEF FailTick, database, redis, workers
  <2>12. ASSUME NEW w \in Workers, NEW j \in Jobs, Deliver(w, j)
         PROVE  TypeOK' /\ WorkersHaveJobs'
    BY <2>12 DEF Deliver, database, scheduler, AttemptSteps
  <2>13. ASSUME NEW w \in Workers, WorkerStep(w) PROVE TypeOK' /\ WorkersHaveJobs'
    <3> USE <2>13 DEF AttemptSteps
    <3>1. CASE DropJob(w)
      BY <3>1 DEF DropJob, Finish, Leave, database, scheduler
    <3>2. CASE TakeJob(w)
      BY <3>2 DEF TakeJob, Goto, database, redis, scheduler
    <3>3. CASE MarkRunning(w)
      BY <3>3 DEF MarkRunning, Goto, redis, scheduler
    <3>4. CASE RestartRunning(w)
      BY <3>4 DEF RestartRunning, Goto, database, redis, scheduler
    <3>5. CASE CheckDrift(w)
      BY <3>5 DEF CheckDrift, Goto, redis, scheduler
    <3>6. CASE RecordCompleted(w)
      BY <3>6 DEF RecordCompleted, Goto, redis, scheduler
    <3>7. CASE ReturnToRQ(w)
      BY <3>7 DEF ReturnToRQ, Finish, Leave, database, scheduler
    <3>8. CASE RecordFailed(w)
      BY <3>8 DEF RecordFailed, Leave, Strand, RetryOrGiveUp, scheduler
    <3> QED BY <3>1, <3>2, <3>3, <3>4, <3>5, <3>6, <3>7, <3>8 DEF WorkerStep
  <2>14. ASSUME NEW w \in Workers, RaiseError(w) PROVE TypeOK' /\ WorkersHaveJobs'
    BY <2>14 DEF RaiseError, Goto, AttemptSteps, database, redis, scheduler
  <2>15. ASSUME NEW w \in Workers, LoseAttempt(w) PROVE TypeOK' /\ WorkersHaveJobs'
    BY <2>15 DEF LoseAttempt, Leave, Strand, RetryOrGiveUp, database, scheduler
  <2>16. ASSUME NEW w \in Workers, Redeliver(w) PROVE TypeOK' /\ WorkersHaveJobs'
    BY <2>16 DEF Redeliver, RetryOrGiveUp, database, scheduler
  <2>17. CASE UNCHANGED vars
    BY <2>17 DEF vars, database, redis, scheduler, workers
  <2> QED BY <2>1, <2>2, <2>3, <2>4, <2>5, <2>6, <2>7, <2>8, <2>9, <2>10, <2>11,
             <2>12, <2>13, <2>14, <2>15, <2>16, <2>17
          DEF Next, ApiStep, SchedulerStep
<1> QED BY <1>1, <1>2, PTL DEF Spec

-----------------------------------------------------------------------------
(* The inductive invariant.                                                *)

\* An attempt past its first test works on a row; a job without a row has
\* nothing; a run about to be recorded is one of its job's.
AttemptsHaveRows ==
    /\ \A w \in Workers : at[w] \notin {"idle", "start"} => job[w] \in table
    /\ \A j \in Jobs \ table :
          status[j] = "pending" /\ driftRuns[j] = 0 /\ jobSchedule[j] = None
    /\ \A w \in Workers : at[w] = "recording" => run[w] \in 1..driftRuns[job[w]]

\* What a tick has staged is new, belongs to one schedule each, which is due
\* until the tick's commit; the rows of a schedule are no later than its
\* last_run_at.
StagedJobsAreDue ==
    /\ ~ticking => \A s \in Schedules : staged[s] = None
    /\ \A s \in Schedules : staged[s] # None => staged[s] \notin table /\ IsDue(s)
    /\ \A s, t \in Schedules : staged[s] # None /\ staged[s] = staged[t] => s = t
    /\ \A j \in table : jobSchedule[j] # None =>
          /\ dueAt[j] \in Nat
          /\ lastRunAt[jobSchedule[j]] \in Nat
          /\ dueAt[j] <= lastRunAt[jobSchedule[j]]

Busy(w) == at[w] # "idle"

\* A message is sent for a job once, however it fares then.
MessagesAreSentOnce ==
    /\ queue \subseteq sent
    /\ requests \subseteq table /\ requests \cap sent = {}
    /\ \A w \in Workers : Busy(w) => job[w] \in sent

\* The attempts at j that may still commit a drift run, and whether a message that
\* may be delivered waits or is still to be sent.
AboutToRun(j) ==
    {w \in Workers : /\ at[w] \in {"start", "marking", "restarting", "checking"}
                    /\ job[w] = j}
Deliverable(j) == IF j \in queue \/ j \notin sent THEN 1 ELSE 0

\* Every run of a job used up one of the deliveries it had: each is still to come,
\* waits in the queue, is with a worker before its check, or has made its run.
DeliveriesAreCounted(j) ==
    /\ IsFiniteSet(AboutToRun(j))
    /\ driftRuns[j] + Cardinality(AboutToRun(j)) + Deliverable(j) + retriesLeft[j]
          <= MaxRetries + 1

\* Without redelivery a job has one message, in the queue or with one worker,
\* and what RQ is done with stays so.
OneAttemptAtATime ==
    /\ \A w \in Workers : Busy(w) => job[w] \notin queue
    /\ \A w, v \in Workers : Busy(w) /\ Busy(v) /\ job[w] = job[v] => w = v
    /\ \A j \in Jobs : outcome[j] # "none" =>
          j \in sent /\ j \notin queue /\ \A w \in Workers : Busy(w) => job[w] # j

\* Without redelivery an attempt finds its job not completed until it completes
\* it, by recording the run it has committed.
AttemptsKnowTheStatus ==
    \A w \in Workers :
        /\ at[w] \in {"marking", "restarting", "checking", "recording"} =>
              status[job[w]] # "completed"
        /\ at[w] = "done" => status[job[w]] = "completed"
        /\ at[w] = "failing" /\ status[job[w]] = "completed" => run[w] # 0

IInv ==
    /\ TypeOK
    /\ WorkersHaveJobs
    /\ AttemptsHaveRows
    /\ RunsBelongToJobs
    /\ StagedJobsAreDue
    /\ ScheduledJobsAreSpaced
    /\ MessagesAreSentOnce
    /\ \A j \in Jobs : DeliveriesAreCounted(j)

\* Without redelivery a run is the one its completed job points to, stranded, or in
\* the hands of the one attempt that made it.
RunsAreAccountedFor ==
    /\ \A w \in Workers :
          /\ at[w] \notin {"recording", "done", "failing"} => run[w] = 0
          /\ at[w] \in {"recording", "done"} => run[w] # 0
          /\ run[w] # 0 => run[w] = driftRuns[job[w]]
    /\ \A j \in Jobs :
          IF status[j] = "completed" \/ \E w \in On(j) : run[w] # 0
          THEN driftRuns[j] = stranded[j] + 1
          ELSE driftRuns[j] = stranded[j]
    /\ \A j \in Jobs : status[j] = "completed" => jobRun[j] = driftRuns[j]

OneAttemptInv ==
    /\ OneAttemptAtATime
    /\ AttemptsKnowTheStatus
    /\ RunsAreAccountedFor
    /\ RunningJobsHaveAnAttempt
    /\ RequestedJobsAreNotDropped

-----------------------------------------------------------------------------
(* The steps keep it.                                                      *)

\* What a worker's or RQ's step leaves alone.
LEMMA WorkersLeave ==
    ASSUME NEW w \in Workers,
           \/ \E j \in Jobs : Deliver(w, j)
           \/ WorkerStep(w) \/ RaiseError(w) \/ LoseAttempt(w) \/ Redeliver(w)
    PROVE  UNCHANGED <<now, table, jobSchedule, schedule, lastRunAt, requests,
                       scheduler, dueAt>>
BY DEF Deliver, WorkerStep, DropJob, TakeJob, MarkRunning, RestartRunning,
       CheckDrift, RecordCompleted, ReturnToRQ, RecordFailed, RaiseError, LoseAttempt,
       Redeliver, database

\* What the API, the scheduler and the clock leave alone, and which steps are
\* the workers'.
LEMMA StepKinds ==
    ASSUME [Next]_vars
    PROVE  \/ /\ UNCHANGED <<status, jobRun, driftRuns, workers, outcome>>
              /\ table \subseteq table' /\ queue \subseteq queue'
              /\ jobSchedule' = jobSchedule \/ CommitTick
           \/ /\ \E w \in Workers :
                    \/ \E j \in Jobs : Deliver(w, j)
                    \/ WorkerStep(w) \/ RaiseError(w) \/ LoseAttempt(w) \/ Redeliver(w)
              /\ UNCHANGED <<now, table, jobSchedule, schedule, lastRunAt, requests,
                             scheduler, dueAt>>
<1>1. CASE Tick \/ UNCHANGED vars
  BY <1>1 DEF Tick, vars, database, redis
<1>2. CASE ApiStep
  BY <1>2 DEF ApiStep, RequestJob, SendRequestedJob, Send, LoseRequest, CreateSchedule,
              DeactivateSchedule, database, redis
<1>3. CASE SchedulerStep
  BY <1>3 DEF SchedulerStep, StartTick, CommitTick, FailTick, SkipSchedule,
              EnqueueDueSchedule, Send, database, redis
<1> QED BY <1>1, <1>2, <1>3, WorkersLeave DEF Next

LEMMA AttemptsHaveRowsStep ==
    ASSUME TypeOK, WorkersHaveJobs, AttemptsHaveRows, RunsBelongToJobs, [Next]_vars
    PROVE  AttemptsHaveRows' /\ RunsBelongToJobs'
<1> USE DEF AttemptsHaveRows, RunsBelongToJobs, TypeOK, AttemptSteps, WorkersHaveJobs
<1>1. ASSUME UNCHANGED <<status, jobRun, driftRuns, workers>>, table \subseteq table',
             jobSchedule' = jobSchedule \/ CommitTick
      PROVE  AttemptsHaveRows' /\ RunsBelongToJobs'
  <2>1. \A j \in Jobs \ table' : jobSchedule'[j] = jobSchedule[j]
    BY <1>1 DEF CommitTick
  <2> QED BY <1>1, <2>1 DEF workers
<1>2. ASSUME NEW w \in Workers, UNCHANGED <<table, jobSchedule>>,
             \/ \E j \in Jobs : Deliver(w, j)
             \/ WorkerStep(w) \/ RaiseError(w) \/ LoseAttempt(w) \/ Redeliver(w)
      PROVE  AttemptsHaveRows' /\ RunsBelongToJobs'
  <2> USE <1>2
  <2>1. ASSUME NEW j \in Jobs, Deliver(w, j)
        PROVE  AttemptsHaveRows' /\ RunsBelongToJobs'
    BY <2>1 DEF Deliver, database
  <2>2. CASE DropJob(w)
    BY <2>2 DEF DropJob, Finish, Leave, database
  <2>3. CASE TakeJob(w)
    BY <2>3 DEF TakeJob, Goto, Skippable, database
  <2>4. CASE MarkRunning(w)
    BY <2>4 DEF MarkRunning, Goto
  <2>5. CASE CheckDrift(w)
    BY <2>5 DEF CheckDrift, Goto
  <2>6. CASE RecordCompleted(w)
    BY <2>6 DEF RecordCompleted, Goto
  <2>7. CASE ReturnToRQ(w)
    BY <2>7 DEF ReturnToRQ, Finish, Leave, database
  <2>8. CASE RecordFailed(w)
    BY <2>8 DEF RecordFailed, Leave
  <2>9. CASE RaiseError(w)
    BY <2>9 DEF RaiseError, Goto, database
  <2>10. CASE LoseAttempt(w)
    BY <2>10 DEF LoseAttempt, Leave, database
  <2>11. CASE Redeliver(w)
    BY <2>11 DEF Redeliver, database
  <2>12. CASE RestartRunning(w)
    BY <2>12 DEF RestartRunning, Goto, database
  <2> QED BY <2>1, <2>2, <2>3, <2>4, <2>5, <2>6, <2>7, <2>8, <2>9, <2>10, <2>11, <2>12
          DEF WorkerStep
<1> QED BY <1>1, <1>2, StepKinds

LEMMA StagedJobsAreDueStep ==
    ASSUME TypeOK, AttemptsHaveRows, StagedJobsAreDue, ScheduledJobsAreSpaced,
           [Next]_vars
    PROVE  StagedJobsAreDue' /\ ScheduledJobsAreSpaced'
<1> USE BoundsAssumption
    DEF TypeOK, AttemptsHaveRows, StagedJobsAreDue, ScheduledJobsAreSpaced, IsDue
<1>1. ASSUME UNCHANGED <<table, jobSchedule, lastRunAt, scheduler, dueAt>>
      PROVE  StagedJobsAreDue' /\ ScheduledJobsAreSpaced'
  BY <1>1 DEF scheduler
<1>2. ASSUME NEW j \in Jobs, RequestJob(j)
      PROVE  StagedJobsAreDue' /\ ScheduledJobsAreSpaced'
  <2>1. /\ table' = table \cup {j}
        /\ j \notin table /\ \A s \in Schedules : staged[s] # j
        /\ UNCHANGED <<jobSchedule, lastRunAt, ticking, tickTime, staged, dueAt>>
    BY <1>2 DEF RequestJob, Fresh, StagedJobs, scheduler
  <2> QED BY <2>1
<1>3. CASE StartTick
  BY <1>3 DEF StartTick, database
<1>4. ASSUME NEW s \in Schedules, EnqueueDueSchedule(s)
      PROVE  StagedJobsAreDue' /\ ScheduledJobsAreSpaced'
  <2>1. PICK j \in Jobs : Fresh(j) /\ staged' = [staged EXCEPT ![s] = j]
    BY <1>4 DEF EnqueueDueSchedule
  <2>2. j \notin table /\ \A t \in Schedules : staged[t] # j
    BY <2>1 DEF Fresh, StagedJobs
  <2>3. /\ ticking /\ IsDue(s)
        /\ UNCHANGED <<table, jobSchedule, lastRunAt, ticking, tickTime, dueAt>>
    BY <1>4 DEF EnqueueDueSchedule, database
  <2> QED BY <2>1, <2>2, <2>3
<1>5. CASE CommitTick
  <2>1. /\ table' = table \cup StagedJobs
        /\ jobSchedule' = [j \in Jobs |->
                              IF j \in StagedJobs
                              THEN CHOOSE s \in Schedules : staged[s] = j
                              ELSE jobSchedule[j]]
        /\ lastRunAt' = [s \in Schedules |->
                            IF staged[s] # None THEN tickTime ELSE lastRunAt[s]]
        /\ dueAt' = [j \in Jobs |-> IF j \in StagedJobs THEN tickTime ELSE dueAt[j]]
        /\ staged' = [s \in Schedules |-> None]
    BY <1>5 DEF CommitTick
  <2>2. \A j \in StagedJobs :
           /\ j \in Jobs \ table
           /\ jobSchedule'[j] \in Schedules
           /\ staged[jobSchedule'[j]] = j
           /\ dueAt'[j] = tickTime
           /\ lastRunAt'[jobSchedule'[j]] = tickTime
    BY <2>1 DEF StagedJobs
  <2>3. \A j \in table :
           /\ j \in Jobs \ StagedJobs
           /\ jobSchedule'[j] = jobSchedule[j]
           /\ dueAt'[j] = dueAt[j]
    BY <2>1, <2>2
  <2>4. \A s \in Schedules : staged[s] # None /\ lastRunAt[s] # None =>
           lastRunAt[s] + Interval <= lastRunAt'[s]
    BY <2>1
  <2>5. StagedJobsAreDue'
    <3>1. ASSUME NEW j \in table, jobSchedule[j] # None
          PROVE  lastRunAt'[jobSchedule[j]] \in Nat /\ dueAt[j] <= lastRunAt'[jobSchedule[j]]
      BY <2>1, <2>4, <3>1
    <3>2. ASSUME NEW j \in table', jobSchedule'[j] # None
          PROVE  /\ dueAt'[j] \in Nat
                 /\ lastRunAt'[jobSchedule'[j]] \in Nat
                 /\ dueAt'[j] <= lastRunAt'[jobSchedule'[j]]
      <4>1. CASE j \in table
        <5>1. jobSchedule[j] # None /\ dueAt[j] \in Nat
          BY <2>3, <3>2, <4>1
        <5>2. jobSchedule'[j] = jobSchedule[j] /\ dueAt'[j] = dueAt[j]
          BY <2>3, <4>1
        <5> QED BY <3>1, <4>1, <5>1, <5>2
      <4>2. CASE j \in StagedJobs
        BY <2>2, <4>2
      <4> QED BY <2>1, <4>1, <4>2
    <3> QED BY <2>1, <3>2
  <2>6. ASSUME NEW i \in table, NEW j \in StagedJobs, jobSchedule'[i] = jobSchedule'[j]
        PROVE  dueAt'[i] + Interval <= dueAt'[j]
    <3>1. /\ staged[jobSchedule[i]] # None
          /\ dueAt[i] \in Nat /\ lastRunAt[jobSchedule[i]] \in Nat
          /\ dueAt[i] <= lastRunAt[jobSchedule[i]]
          /\ lastRunAt[jobSchedule[i]] + Interval <= tickTime
      BY <2>2, <2>3, <2>6
    <3> QED BY <2>2, <2>3, <3>1
  <2>7. ScheduledJobsAreSpaced'
    <3> SUFFICES ASSUME NEW i \in table', NEW j \in table', i # j,
                        jobSchedule'[i] # None, jobSchedule'[i] = jobSchedule'[j]
                 PROVE  dueAt'[i] + Interval <= dueAt'[j] \/ dueAt'[j] + Interval <= dueAt'[i]
      OBVIOUS
    <3>1. CASE i \in table /\ j \in table
      BY <2>3, <3>1
    <3>2. CASE i \in table /\ j \in StagedJobs
      BY <2>6, <3>2
    <3>3. CASE i \in StagedJobs /\ j \in table
      BY <2>6, <3>3
    <3>4. CASE i \in StagedJobs /\ j \in StagedJobs
      BY <2>2, <3>4
    <3> QED BY <2>1, <3>1, <3>2, <3>3, <3>4
  <2> QED BY <2>5, <2>7
<1>6. CASE FailTick
  BY <1>6 DEF FailTick, database
<1>7. ASSUME NEW s \in Schedules, SkipSchedule(s)
      PROVE  StagedJobsAreDue' /\ ScheduledJobsAreSpaced'
  BY <1>7 DEF SkipSchedule, database
<1>8. CASE Tick \/ UNCHANGED vars
  BY <1>1, <1>8 DEF Tick, vars, database
<1>9. CASE ApiStep /\ ~\E j \in Jobs : RequestJob(j)
  BY <1>1, <1>9 DEF ApiStep, SendRequestedJob, LoseRequest, CreateSchedule,
                   DeactivateSchedule, database
<1> QED BY <1>1, <1>2, <1>3, <1>4, <1>5, <1>6, <1>7, <1>8, <1>9, WorkersLeave
        DEF Next, ApiStep, SchedulerStep

LEMMA MessagesAreSentOnceStep ==
    ASSUME TypeOK, WorkersHaveJobs, MessagesAreSentOnce, [Next]_vars
    PROVE  MessagesAreSentOnce'
<1> USE DEF TypeOK, WorkersHaveJobs, MessagesAreSentOnce, Busy
<1>1. ASSUME NEW j \in Jobs, RequestJob(j) \/ SendRequestedJob(j) PROVE MessagesAreSentOnce'
  BY <1>1 DEF RequestJob, SendRequestedJob, Fresh, Send, redis, workers, database
<1>2. ASSUME NEW s \in Schedules, EnqueueDueSchedule(s) PROVE MessagesAreSentOnce'
  <2>1. PICK j \in Jobs : Fresh(j) /\ Send(j)
    BY <1>2 DEF EnqueueDueSchedule
  <2>2. UNCHANGED <<table, requests, at, job>>
    BY <1>2 DEF EnqueueDueSchedule, database, workers
  <2> QED BY <2>1, <2>2 DEF Send, Fresh
<1>3. CASE UNCHANGED <<redis, workers>> /\ table \subseteq table' /\ requests' \subseteq requests
  BY <1>3 DEF redis, workers
<1>4. ASSUME NEW w \in Workers, NEW j \in Jobs, Deliver(w, j) PROVE MessagesAreSentOnce'
  BY <1>4 DEF Deliver, database
<1>5. ASSUME NEW w \in Workers, DropJob(w) \/ ReturnToRQ(w) PROVE MessagesAreSentOnce'
  BY <1>5 DEF DropJob, ReturnToRQ, Finish, Leave, database
<1>6. ASSUME NEW w \in Workers,
             \/ TakeJob(w) \/ MarkRunning(w) \/ RestartRunning(w) \/ CheckDrift(w)
             \/ RecordCompleted(w) \/ RaiseError(w)
      PROVE  MessagesAreSentOnce'
  BY <1>6 DEF TakeJob, MarkRunning, RestartRunning, CheckDrift, RecordCompleted,
              RaiseError, Goto, database, redis
<1>7. ASSUME NEW w \in Workers, RecordFailed(w) \/ LoseAttempt(w) PROVE MessagesAreSentOnce'
  BY <1>7 DEF RecordFailed, LoseAttempt, Leave, RetryOrGiveUp, database
<1>8. ASSUME NEW w \in Workers, Redeliver(w) PROVE MessagesAreSentOnce'
  BY <1>8 DEF Redeliver, RetryOrGiveUp, database
<1>9. CASE \/ Tick \/ UNCHANGED vars \/ StartTick \/ CommitTick \/ FailTick
           \/ \E s \in Schedules : CreateSchedule(s) \/ DeactivateSchedule(s) \/ SkipSchedule(s)
           \/ \E j \in Jobs : LoseRequest(j)
  BY <1>3, <1>9 DEF Tick, vars, StartTick, CommitTick, FailTick, CreateSchedule,
                    DeactivateSchedule, SkipSchedule, LoseRequest, database
<1> QED BY <1>1, <1>2, <1>4, <1>5, <1>6, <1>7, <1>8, <1>9
        DEF Next, ApiStep, SchedulerStep, WorkerStep

\* A retry makes a delivery of one that was left.
LEMMA RetryUsesADelivery ==
    ASSUME TypeOK, NEW i \in Jobs, RetryOrGiveUp(i), NEW j \in Jobs
    PROVE  Deliverable(j)' + retriesLeft'[j] <= Deliverable(j) + retriesLeft[j]
<1> USE BoundsAssumption DEF TypeOK, RetryOrGiveUp, Deliverable
<1>1. CASE i = j
  BY <1>1
<1>2. CASE i # j
  BY <1>2
<1> QED BY <1>1, <1>2

LEMMA DeliveriesAreCountedStep ==
    ASSUME TypeOK, TypeOK', WorkersHaveJobs, MessagesAreSentOnce, [Next]_vars,
           NEW j \in Jobs, DeliveriesAreCounted(j)
    PROVE  DeliveriesAreCounted(j)'
<1>a. /\ Cardinality(AboutToRun(j)) \in Nat /\ Deliverable(j) \in Nat
      /\ driftRuns[j] \in Nat /\ retriesLeft[j] \in Nat /\ MaxRetries \in Nat
      /\ Deliverable(j)' \in Nat /\ driftRuns'[j] \in Nat /\ retriesLeft'[j] \in Nat
  <2>1. Deliverable(j) \in Nat /\ Deliverable(j)' \in Nat
    BY DEF Deliverable
  <2> QED BY <2>1, BoundsAssumption, FS_CardinalityType DEF DeliveriesAreCounted, TypeOK
\* A step that lets no attempt begin and makes no run.
<1>b. ASSUME AboutToRun(j)' \subseteq AboutToRun(j), driftRuns'[j] = driftRuns[j],
             Deliverable(j)' + retriesLeft'[j] <= Deliverable(j) + retriesLeft[j]
      PROVE  DeliveriesAreCounted(j)'
  <2>1. /\ IsFiniteSet(AboutToRun(j)') /\ Cardinality(AboutToRun(j)') \in Nat
        /\ Cardinality(AboutToRun(j)') <= Cardinality(AboutToRun(j))
    BY <1>b, FS_Subset, FS_CardinalityType DEF DeliveriesAreCounted
  <2> QED BY <1>a, <1>b, <2>1 DEF DeliveriesAreCounted
<1> USE DEF TypeOK, WorkersHaveJobs, MessagesAreSentOnce, Busy
<1>1. CASE UNCHANGED <<driftRuns, redis, workers>>
  BY <1>a, <1>b, <1>1 DEF redis, workers, AboutToRun, Deliverable
<1>2. ASSUME NEW i \in Jobs, i \notin sent, Send(i), UNCHANGED <<driftRuns, workers>>
      PROVE  DeliveriesAreCounted(j)'
  BY <1>a, <1>b, <1>2 DEF Send, workers, AboutToRun, Deliverable
<1>3. ASSUME NEW w \in Workers, NEW i \in Jobs, Deliver(w, i)
      PROVE  DeliveriesAreCounted(j)'
  <2>1. UNCHANGED <<driftRuns, retriesLeft, sent>> /\ queue' = queue \ {i} /\ i \in sent
    BY <1>3 DEF Deliver, database
  <2>2. CASE i = j
    <3>1. AboutToRun(j)' = AboutToRun(j) \cup {w} /\ w \notin AboutToRun(j)
      BY <1>3, <2>2 DEF Deliver, AboutToRun
    <3>2. Deliverable(j) = 1 /\ Deliverable(j)' = 0
      BY <1>3, <2>1, <2>2 DEF Deliver, Deliverable
    <3>3. /\ IsFiniteSet(AboutToRun(j)')
          /\ Cardinality(AboutToRun(j)') = Cardinality(AboutToRun(j)) + 1
      BY <3>1, FS_AddElement DEF DeliveriesAreCounted
    <3> QED BY <1>a, <2>1, <3>2, <3>3 DEF DeliveriesAreCounted
  <2>3. CASE i # j
    <3>1. AboutToRun(j)' \subseteq AboutToRun(j)
      BY <1>3, <2>3 DEF Deliver, AboutToRun
    <3>2. Deliverable(j)' = Deliverable(j)
      BY <2>1, <2>3 DEF Deliverable
    <3> QED BY <1>a, <1>b, <2>1, <3>1, <3>2
  <2> QED BY <2>2, <2>3
<1>4. ASSUME NEW w \in Workers, CheckDrift(w) PROVE DeliveriesAreCounted(j)'
  <2>1. /\ driftRuns' = [driftRuns EXCEPT ![job[w]] = @ + 1] /\ at[w] = "checking"
        /\ at' = [at EXCEPT ![w] = "recording"] /\ UNCHANGED <<job, redis>>
    BY <1>4 DEF CheckDrift, Goto
  <2>2. Deliverable(j)' = Deliverable(j) /\ retriesLeft' = retriesLeft
    BY <2>1 DEF redis, Deliverable
  <2>3. CASE job[w] = j
    <3>1. AboutToRun(j)' = AboutToRun(j) \ {w} /\ w \in AboutToRun(j)
      BY <2>1, <2>3 DEF AboutToRun
    <3>2. /\ IsFiniteSet(AboutToRun(j)')
          /\ Cardinality(AboutToRun(j)') = Cardinality(AboutToRun(j)) - 1
      BY <3>1, FS_RemoveElement DEF DeliveriesAreCounted
    <3>3. driftRuns'[j] = driftRuns[j] + 1
      BY <2>1, <2>3
    <3> QED BY <1>a, <2>2, <3>2, <3>3 DEF DeliveriesAreCounted
  <2>4. CASE job[w] # j
    <3>1. AboutToRun(j)' \subseteq AboutToRun(j) /\ driftRuns'[j] = driftRuns[j]
      BY <2>1, <2>4 DEF AboutToRun
    <3> QED BY <1>a, <1>b, <2>2, <3>1
  <2> QED BY <2>3, <2>4
<1>5. ASSUME NEW w \in Workers,
             \/ TakeJob(w) \/ MarkRunning(w) \/ RestartRunning(w) \/ RecordCompleted(w)
             \/ RaiseError(w)
      PROVE  DeliveriesAreCounted(j)'
  <2>1. AboutToRun(j)' \subseteq AboutToRun(j) /\ UNCHANGED <<driftRuns, redis>>
    BY <1>5 DEF TakeJob, MarkRunning, RestartRunning, RecordCompleted, RaiseError, Goto,
                AboutToRun, database
  <2> QED BY <1>a, <1>b, <2>1 DEF redis, Deliverable
<1>6. ASSUME NEW w \in Workers, DropJob(w) \/ ReturnToRQ(w) PROVE DeliveriesAreCounted(j)'
  <2>1. AboutToRun(j)' \subseteq AboutToRun(j)
    BY <1>6 DEF DropJob, ReturnToRQ, Finish, Leave, AboutToRun
  <2>2. UNCHANGED <<driftRuns, queue, sent, retriesLeft>>
    BY <1>6 DEF DropJob, ReturnToRQ, Finish, database
  <2> QED BY <1>a, <1>b, <2>1, <2>2 DEF Deliverable
<1>7. ASSUME NEW w \in Workers, RecordFailed(w) \/ LoseAttempt(w) \/ Redeliver(w)
      PROVE  DeliveriesAreCounted(j)'
  <2>1. AboutToRun(j)' \subseteq AboutToRun(j) /\ driftRuns' = driftRuns
    BY <1>7 DEF RecordFailed, LoseAttempt, Redeliver, Leave, AboutToRun, database
  <2>2. RetryOrGiveUp(job[w]) /\ job[w] \in Jobs
    BY <1>7 DEF RecordFailed, LoseAttempt, Redeliver
  <2> QED BY <1>b, <2>1, <2>2, RetryUsesADelivery
<1>8. ASSUME NEW i \in Jobs, SendRequestedJob(i) PROVE DeliveriesAreCounted(j)'
  BY <1>2, <1>8 DEF SendRequestedJob, database
<1>9. ASSUME NEW s \in Schedules, EnqueueDueSchedule(s) PROVE DeliveriesAreCounted(j)'
  BY <1>2, <1>9 DEF EnqueueDueSchedule, Fresh, database
<1>10. CASE \/ Tick \/ UNCHANGED vars \/ StartTick \/ CommitTick \/ FailTick
            \/ \E s \in Schedules : CreateSchedule(s) \/ DeactivateSchedule(s) \/ SkipSchedule(s)
            \/ \E i \in Jobs : RequestJob(i) \/ LoseRequest(i)
  BY <1>1, <1>10 DEF Tick, vars, StartTick, CommitTick, FailTick, CreateSchedule,
                     DeactivateSchedule, SkipSchedule, RequestJob, LoseRequest, database
<1> QED BY <1>3, <1>4, <1>5, <1>6, <1>7, <1>8, <1>9, <1>10
        DEF Next, ApiStep, SchedulerStep, WorkerStep

LEMMA OneAttemptAtATimeStep ==
    ASSUME ~Redelivers, TypeOK, WorkersHaveJobs, MessagesAreSentOnce, OneAttemptAtATime,
           [Next]_vars
    PROVE  OneAttemptAtATime'
<1> USE DEF TypeOK, WorkersHaveJobs, MessagesAreSentOnce, OneAttemptAtATime, Busy
<1>1. ASSUME NEW j \in Jobs, RequestJob(j) PROVE OneAttemptAtATime'
  BY <1>1 DEF RequestJob, Fresh, redis, workers
<1>2. ASSUME NEW j \in Jobs, SendRequestedJob(j) PROVE OneAttemptAtATime'
  BY <1>2 DEF SendRequestedJob, Send, database, workers
<1>3. ASSUME NEW s \in Schedules, EnqueueDueSchedule(s) PROVE OneAttemptAtATime'
  <2>1. PICK j \in Jobs : Fresh(j) /\ Send(j)
    BY <1>3 DEF EnqueueDueSchedule
  <2>2. j \notin table /\ j \notin sent
    BY <2>1 DEF Fresh
  <2>3. UNCHANGED <<table, requests, at, job>>
    BY <1>3 DEF EnqueueDueSchedule, database, workers
  <2> QED BY <2>1, <2>2, <2>3 DEF Send
<1>4. CASE UNCHANGED <<redis, workers>> /\ table \subseteq table' /\ requests' \subseteq requests
  BY <1>4 DEF redis, workers
<1>5. ASSUME NEW w \in Workers, NEW j \in Jobs, Deliver(w, j) PROVE OneAttemptAtATime'
  BY <1>5, BoundsAssumption DEF Deliver, database
<1>6. ASSUME NEW w \in Workers, DropJob(w) \/ ReturnToRQ(w) PROVE OneAttemptAtATime'
  BY <1>6 DEF DropJob, ReturnToRQ, Finish, Leave, database
<1>7. ASSUME NEW w \in Workers,
             \/ TakeJob(w) \/ MarkRunning(w) \/ RestartRunning(w) \/ CheckDrift(w)
             \/ RecordCompleted(w) \/ RaiseError(w)
      PROVE  OneAttemptAtATime'
  BY <1>7 DEF TakeJob, MarkRunning, RestartRunning, CheckDrift, RecordCompleted,
              RaiseError, Goto, database, redis
<1>8. ASSUME NEW w \in Workers, RecordFailed(w) \/ LoseAttempt(w) PROVE OneAttemptAtATime'
  BY <1>8 DEF RecordFailed, LoseAttempt, Leave, RetryOrGiveUp, database
<1>9. CASE \/ Tick \/ UNCHANGED vars \/ StartTick \/ CommitTick \/ FailTick
           \/ \E s \in Schedules : CreateSchedule(s) \/ DeactivateSchedule(s) \/ SkipSchedule(s)
           \/ \E j \in Jobs : LoseRequest(j)
  BY <1>4, <1>9 DEF Tick, vars, StartTick, CommitTick, FailTick, CreateSchedule,
                    DeactivateSchedule, SkipSchedule, LoseRequest, database
<1>10. \A w \in Workers : ~Redeliver(w)
  BY DEF Redeliver
<1> QED BY <1>1, <1>2, <1>3, <1>5, <1>6, <1>7, <1>8, <1>9, <1>10
        DEF Next, ApiStep, SchedulerStep, WorkerStep

\* Without redelivery a completed job keeps its run, and only the attempt that has
\* just completed it changes its status, to failed.
LEMMA CompletedStays ==
    ASSUME TypeOK, WorkersHaveJobs, AttemptsKnowTheStatus, [Next]_vars,
           NEW j \in Jobs, status[j] = "completed"
    PROVE  /\ UNCHANGED <<jobRun[j], driftRuns[j]>>
           /\ \/ status'[j] = "completed"
              \/ /\ status'[j] = "failed"
                 /\ \E w \in On(j) : at[w] = "failing" /\ run[w] # 0
<1> USE DEF TypeOK, WorkersHaveJobs, AttemptsKnowTheStatus
<1>1. CASE UNCHANGED <<status, jobRun, driftRuns>>
  BY <1>1
<1>2. ASSUME NEW w \in Workers, MarkRunning(w) \/ CheckDrift(w) \/ RecordCompleted(w)
      PROVE  j # job[w] /\ UNCHANGED <<status[j], jobRun[j], driftRuns[j]>>
  BY <1>2 DEF MarkRunning, CheckDrift, RecordCompleted
<1>3. ASSUME NEW w \in Workers,
             \/ \E i \in Jobs : Deliver(w, i)
             \/ DropJob(w) \/ TakeJob(w) \/ RestartRunning(w) \/ ReturnToRQ(w)
             \/ RaiseError(w) \/ LoseAttempt(w) \/ Redeliver(w)
      PROVE  UNCHANGED <<status, jobRun, driftRuns>>
  BY <1>3 DEF Deliver, DropJob, TakeJob, RestartRunning, ReturnToRQ, RaiseError,
              LoseAttempt, Redeliver, database
<1>4. ASSUME NEW w \in Workers, RecordFailed(w)
      PROVE  /\ UNCHANGED <<jobRun, driftRuns>>
             /\ \/ status'[j] = "completed"
                \/ status'[j] = "failed" /\ w \in On(j) /\ at[w] = "failing" /\ run[w] # 0
  BY <1>4 DEF RecordFailed, On
<1> QED BY <1>1, <1>2, <1>3, <1>4, StepKinds DEF WorkerStep

LEMMA AttemptsKnowTheStatusStep ==
    ASSUME ~Redelivers, TypeOK, WorkersHaveJobs, OneAttemptAtATime,
           AttemptsKnowTheStatus, RunsAreAccountedFor, [Next]_vars
    PROVE  AttemptsKnowTheStatus'
<1> USE DEF TypeOK, WorkersHaveJobs, OneAttemptAtATime, Busy, AttemptsKnowTheStatus
<1>1. CASE UNCHANGED <<status, workers>>
  BY <1>1 DEF workers
<1>2. ASSUME NEW w \in Workers, NEW j \in Jobs, Deliver(w, j)
      PROVE  AttemptsKnowTheStatus'
  BY <1>2 DEF Deliver, database
<1>3. ASSUME NEW w \in Workers, DropJob(w) \/ ReturnToRQ(w) \/ LoseAttempt(w)
      PROVE  AttemptsKnowTheStatus'
  BY <1>3 DEF DropJob, ReturnToRQ, LoseAttempt, Finish, Leave, database
<1>4. ASSUME NEW w \in Workers, TakeJob(w) PROVE AttemptsKnowTheStatus'
  BY <1>4 DEF TakeJob, Skippable, Goto, database
<1>5. ASSUME NEW w \in Workers, MarkRunning(w) PROVE AttemptsKnowTheStatus'
  BY <1>5 DEF MarkRunning, Goto
<1>6. ASSUME NEW w \in Workers, RestartRunning(w) \/ CheckDrift(w)
      PROVE  AttemptsKnowTheStatus'
  BY <1>6 DEF RestartRunning, CheckDrift, Goto, database
<1>7. ASSUME NEW w \in Workers, RecordCompleted(w) PROVE AttemptsKnowTheStatus'
  BY <1>7 DEF RecordCompleted, Goto
<1>8. ASSUME NEW w \in Workers, RaiseError(w) PROVE AttemptsKnowTheStatus'
  <2>1. at[w] = "done" => run[w] # 0
    BY DEF RunsAreAccountedFor
  <2> QED BY <1>8, <2>1 DEF RaiseError, Goto, database
<1>9. ASSUME NEW w \in Workers, RecordFailed(w) PROVE AttemptsKnowTheStatus'
  BY <1>9 DEF RecordFailed, Leave
<1>10. \A w \in Workers : ~Redeliver(w)
  BY DEF Redeliver
<1> QED BY <1>1, <1>2, <1>3, <1>4, <1>5, <1>6, <1>7, <1>8, <1>9, <1>10, StepKinds
        DEF WorkerStep

LEMMA RunsAreAccountedForStep ==
    ASSUME ~Redelivers, TypeOK, TypeOK', WorkersHaveJobs, AttemptsHaveRows,
           MessagesAreSentOnce, OneAttemptAtATime, AttemptsKnowTheStatus,
           RunsAreAccountedFor, [Next]_vars
    PROVE  RunsAreAccountedFor'
<1> DEFINE Fine(j) == /\ IF status[j] = "completed" \/ \E w \in On(j) : run[w] # 0
                         THEN driftRuns[j] = stranded[j] + 1
                         ELSE driftRuns[j] = stranded[j]
                      /\ status[j] = "completed" => jobRun[j] = driftRuns[j]
           Held(w) == /\ at[w] \notin {"recording", "done", "failing"} => run[w] = 0
                      /\ at[w] \in {"recording", "done"} => run[w] # 0
                      /\ run[w] # 0 => run[w] = driftRuns[job[w]]
           OthersStay(w, i) ==
              /\ On(i) \subseteq {w} /\ On(i)' \subseteq {w} /\ w \in On(i) \cup On(i)'
              /\ \A v \in Workers \ {w} : UNCHANGED <<at[v], job[v], run[v]>>
              /\ \A k \in Jobs \ {i} :
                    UNCHANGED <<driftRuns[k], stranded[k], status[k], jobRun[k], On(k)>>
<1> SUFFICES (\A j \in Jobs : Fine(j)') /\ (\A v \in Workers : Held(v)')
  BY DEF RunsAreAccountedFor
<1>a. (\A j \in Jobs : Fine(j)) /\ (\A v \in Workers : Held(v))
  BY DEF RunsAreAccountedFor
<1> USE DEF TypeOK, WorkersHaveJobs, Busy, AttemptSteps
<1>1. CASE UNCHANGED <<status, jobRun, driftRuns, workers, stranded>>
  BY <1>a, <1>1 DEF workers, On
\* A step of a worker concerns the job it has and nobody else is at, before and after.
<1>b. ASSUME NEW w \in Workers, NEW i \in Jobs,
             OthersStay(w, i), Fine(i)', Held(w)'
      PROVE  (\A j \in Jobs : Fine(j)') /\ (\A v \in Workers : Held(v)')
  <2>1. ASSUME NEW k \in Jobs \ {i} PROVE Fine(k)'
    <3>1. \A v \in On(k) : run'[v] = run[v]
      BY <1>b, <2>1 DEF On
    <3> QED BY <1>a, <1>b, <2>1, <3>1
  <2>2. ASSUME NEW v \in Workers \ {w} PROVE Held(v)'
    BY <1>a, <1>b, <2>2 DEF On
  <2> QED BY <1>b, <2>1, <2>2
<1>c. ASSUME NEW w \in Workers, at[w] # "idle" PROVE On(job[w]) = {w} /\ job[w] \in Jobs
  BY <1>c DEF On, OneAttemptAtATime
<1>2. ASSUME NEW w \in Workers, NEW i \in Jobs, Deliver(w, i)
      PROVE  (\A j \in Jobs : Fine(j)') /\ (\A v \in Workers : Held(v)')
  <2>1. /\ at[w] = "idle" /\ at' = [at EXCEPT ![w] = "start"]
        /\ job' = [job EXCEPT ![w] = i] /\ i \in queue
        /\ UNCHANGED <<status, jobRun, driftRuns, run, stranded>>
    BY <1>2 DEF Deliver, database
  <2>2. On(i) = {} /\ On(i)' = {w} /\ \A k \in Jobs \ {i} : On(k)' = On(k)
    BY <2>1 DEF On, OneAttemptAtATime
  <2>3. run[w] = 0 /\ run'[w] = 0
    BY <1>a, <2>1
  <2>4. Fine(i)' /\ Held(w)' /\ OthersStay(w, i)
    BY <1>a, <2>1, <2>2, <2>3
  <2> HIDE DEF Fine, Held, OthersStay
  <2> QED BY <1>b, <2>4
\* An attempt that goes on.
<1>3. ASSUME NEW w \in Workers,
             TakeJob(w) \/ MarkRunning(w) \/ RestartRunning(w) \/ RaiseError(w)
      PROVE  (\A j \in Jobs : Fine(j)') /\ (\A v \in Workers : Held(v)')
  <2>1. /\ at[w] # "idle"
        /\ \/ /\ at[w] \in {"start", "marking", "restarting"}
              /\ at'[w] \in {"marking", "restarting", "checking"}
           \/ at'[w] = "failing"
        /\ \A v \in Workers \ {w} : at'[v] = at[v]
        /\ UNCHANGED <<job, run, jobRun, driftRuns, stranded>>
        /\ \/ UNCHANGED status
           \/ /\ status' = [status EXCEPT ![job[w]] = "running"]
              /\ status[job[w]] # "completed"
    BY <1>3 DEF TakeJob, MarkRunning, RestartRunning, RaiseError, Goto, database,
                AttemptsKnowTheStatus
  <2>2. \A k \in Jobs : On(k)' = On(k)
    BY <2>1 DEF On
  <2>3. Held(w)'
    BY <1>a, <2>1
  <2>4. Fine(job[w])'
    BY <1>a, <1>c, <2>1, <2>2
  <2>5. OthersStay(w, job[w])
    BY <1>c, <2>1, <2>2
  <2> HIDE DEF Fine, Held, OthersStay
  <2> QED BY <1>b, <1>c, <2>1, <2>3, <2>4, <2>5
<1>4. ASSUME NEW w \in Workers, CheckDrift(w)
      PROVE  (\A j \in Jobs : Fine(j)') /\ (\A v \in Workers : Held(v)')
  <2>1. /\ at[w] = "checking" /\ at' = [at EXCEPT ![w] = "recording"]
        /\ driftRuns' = [driftRuns EXCEPT ![job[w]] = @ + 1]
        /\ run' = [run EXCEPT ![w] = driftRuns[job[w]] + 1]
        /\ UNCHANGED <<job, jobRun, stranded, status>> /\ status[job[w]] # "completed"
    BY <1>4 DEF CheckDrift, Goto, AttemptsKnowTheStatus
  <2>2. \A k \in Jobs : On(k)' = On(k)
    BY <2>1 DEF On
  <2>3. /\ driftRuns'[job[w]] = driftRuns[job[w]] + 1 /\ run'[w] = driftRuns[job[w]] + 1
        /\ driftRuns[job[w]] \in Nat
    BY <1>c, <2>1
  <2>4. Held(w)'
    BY <2>1, <2>3
  <2>5. Fine(job[w])'
    <3>1. driftRuns[job[w]] = stranded[job[w]]
      BY <1>a, <1>c, <2>1
    <3> QED BY <1>c, <2>1, <2>2, <2>3, <3>1
  <2>6. OthersStay(w, job[w])
    BY <1>c, <2>1, <2>2
  <2> HIDE DEF Fine, Held, OthersStay
  <2> QED BY <1>b, <1>c, <2>1, <2>4, <2>5, <2>6
<1>5. ASSUME NEW w \in Workers, RecordCompleted(w)
      PROVE  (\A j \in Jobs : Fine(j)') /\ (\A v \in Workers : Held(v)')
  <2>1. /\ at[w] = "recording" /\ at' = [at EXCEPT ![w] = "done"]
        /\ status' = [status EXCEPT ![job[w]] = "completed"]
        /\ jobRun' = [jobRun EXCEPT ![job[w]] = run[w]]
        /\ UNCHANGED <<job, run, driftRuns, stranded>>
    BY <1>5 DEF RecordCompleted, Goto
  <2>2. \A k \in Jobs : On(k)' = On(k)
    BY <2>1 DEF On
  <2>3. Held(w)'
    BY <1>a, <2>1
  <2>4. Fine(job[w])'
    <3>1. driftRuns[job[w]] = stranded[job[w]] + 1 /\ run[w] = driftRuns[job[w]]
      BY <1>a, <1>c, <2>1
    <3> QED BY <1>c, <2>1, <2>2, <3>1
  <2>5. OthersStay(w, job[w])
    BY <1>c, <2>1, <2>2
  <2> HIDE DEF Fine, Held, OthersStay
  <2> QED BY <1>b, <1>c, <2>1, <2>3, <2>4, <2>5
\* An attempt that ends with nothing to strand: it made no run, or completed its job.
<1>6. ASSUME NEW w \in Workers, NEW i \in Jobs, i = job[w], DropJob(w) \/ ReturnToRQ(w)
      PROVE  (\A j \in Jobs : Fine(j)') /\ (\A v \in Workers : Held(v)')
  <2>1. /\ at[w] \in {"start", "done"} /\ at' = [at EXCEPT ![w] = "idle"]
        /\ job' = [job EXCEPT ![w] = None] /\ run' = [run EXCEPT ![w] = 0]
        /\ at[w] = "done" => status[i] = "completed"
        /\ UNCHANGED <<status, jobRun, driftRuns, stranded>>
    BY <1>6 DEF DropJob, ReturnToRQ, Finish, Leave, database, AttemptsKnowTheStatus
  <2>2. On(i)' = {} /\ \A k \in Jobs \ {i} : On(k)' = On(k)
    BY <1>c, <1>6, <2>1 DEF On
  <2>3. Held(w)'
    BY <2>1
  <2>4. Fine(i)'
    BY <1>a, <1>c, <1>6, <2>1, <2>2
  <2>5. OthersStay(w, i)
    BY <1>c, <1>6, <2>1, <2>2
  <2> HIDE DEF Fine, Held, OthersStay
  <2> QED BY <1>b, <2>3, <2>4, <2>5
\* One that fails or is lost: it strands its run, if it has one, unless it has completed
\* its job and leaves it so.
<1>7. ASSUME NEW w \in Workers, NEW i \in Jobs, i = job[w], RecordFailed(w) \/ LoseAttempt(w)
      PROVE  (\A j \in Jobs : Fine(j)') /\ (\A v \in Workers : Held(v)')
  <2>1. /\ at[w] # "idle" /\ at' = [at EXCEPT ![w] = "idle"]
        /\ job' = [job EXCEPT ![w] = None] /\ run' = [run EXCEPT ![w] = 0]
        /\ stranded'[i] = stranded[i] + IF run[w] # 0 /\ status'[i] # "completed"
                                        THEN 1 ELSE 0
        /\ \A k \in Jobs \ {i} : stranded'[k] = stranded[k] /\ status'[k] = status[k]
        /\ UNCHANGED <<jobRun, driftRuns>>
        /\ status'[i] = status[i] \/ status'[i] = "failed"
    BY <1>7 DEF RecordFailed, LoseAttempt, Leave, Strand, database
  <2>2. On(i)' = {} /\ \A k \in Jobs \ {i} : On(k)' = On(k)
    BY <1>c, <1>7, <2>1 DEF On
  <2>3. Held(w)'
    BY <2>1
  <2>4. Fine(i)'
    <3>1. status[i] = "completed" /\ status'[i] # "completed" => run[w] # 0
      BY <1>7, <2>1 DEF RecordFailed, LoseAttempt, AttemptsKnowTheStatus, database
    <3>2. /\ status[i] = "completed" \/ run[w] # 0 => driftRuns[i] = stranded[i] + 1
          /\ status[i] # "completed" /\ run[w] = 0 => driftRuns[i] = stranded[i]
      BY <1>a, <1>c, <1>7, <2>1
    <3>3. IF status'[i] = "completed"
          THEN driftRuns[i] = stranded'[i] + 1 ELSE driftRuns[i] = stranded'[i]
      BY <2>1, <3>1, <3>2
    <3>4. status'[i] = "completed" => status[i] = "completed"
      BY <2>1
    <3> QED BY <1>a, <2>1, <2>2, <3>3, <3>4
  <2>5. OthersStay(w, i)
    BY <1>c, <1>7, <2>1, <2>2
  <2> HIDE DEF Fine, Held, OthersStay
  <2> QED BY <1>b, <2>3, <2>4, <2>5
<1>8. CASE Tick \/ UNCHANGED vars \/ ApiStep \/ SchedulerStep
  BY <1>1, <1>8 DEF Tick, vars, ApiStep, SchedulerStep, StartTick, CommitTick, FailTick,
     CreateSchedule, DeactivateSchedule, SkipSchedule, EnqueueDueSchedule, RequestJob,
     SendRequestedJob, LoseRequest, database
<1>9. ASSUME NEW w \in Workers,
             DropJob(w) \/ ReturnToRQ(w) \/ RecordFailed(w) \/ LoseAttempt(w)
      PROVE  (\A j \in Jobs : Fine(j)') /\ (\A v \in Workers : Held(v)')
  <2>1. at[w] # "idle"
    BY <1>9 DEF DropJob, ReturnToRQ, RecordFailed, LoseAttempt
  <2> QED BY <1>c, <1>6, <1>7, <1>9, <2>1
<1>10. \A w \in Workers : ~Redeliver(w)
  BY DEF Redeliver
<1> QED BY <1>2, <1>3, <1>4, <1>5, <1>8, <1>9, <1>10 DEF Next, WorkerStep

LEMMA RunningJobsHaveAnAttemptStep ==
    ASSUME ~Redelivers, TypeOK, TypeOK', WorkersHaveJobs, AttemptsHaveRows,
           MessagesAreSentOnce, OneAttemptAtATime, AttemptsKnowTheStatus,
           RunningJobsHaveAnAttempt,
           [Next]_vars
    PROVE  RunningJobsHaveAnAttempt'
<1> SUFFICES ASSUME NEW j \in table', status'[j] = "running"
             PROVE  On(j)' # {} \/ j \in queue' \/ outcome'[j] = "failed"
  BY DEF RunningJobsHaveAnAttempt
<1>1. j \in Jobs
  BY DEF TypeOK
<1> USE <1>1 DEF TypeOK, WorkersHaveJobs, MessagesAreSentOnce, OneAttemptAtATime, Busy,
                 AttemptsKnowTheStatus, On
<1>2. j \in table /\ status[j] = "running" =>
         On(j) # {} \/ j \in queue \/ outcome[j] = "failed"
  BY DEF RunningJobsHaveAnAttempt
<1>3. CASE /\ UNCHANGED <<status, workers, outcome>>
           /\ queue \subseteq queue'
  <2>1. j \in table
    BY <1>3 DEF AttemptsHaveRows
  <2> QED BY <1>2, <1>3, <2>1 DEF workers
<1>4. ASSUME NEW w \in Workers, NEW i \in Jobs, table' = table, Deliver(w, i)
      PROVE  On(j)' # {} \/ j \in queue' \/ outcome'[j] = "failed"
  <2>1. CASE i = j
    BY <1>4, <2>1 DEF Deliver
  <2>2. CASE i # j
    BY <1>2, <1>4, <2>2 DEF Deliver, database
  <2> QED BY <2>1, <2>2
<1>5. ASSUME NEW w \in Workers, table' = table, DropJob(w) \/ ReturnToRQ(w)
      PROVE  On(j)' # {} \/ j \in queue' \/ outcome'[j] = "failed"
  <2>1. job[w] # j /\ status[j] = "running"
    BY <1>5 DEF DropJob, ReturnToRQ, Skippable, database
  <2> QED BY <1>2, <1>5, <2>1 DEF DropJob, ReturnToRQ, Finish, Leave
<1>6. ASSUME NEW w \in Workers, table' = table,
             \/ TakeJob(w) \/ MarkRunning(w) \/ RestartRunning(w) \/ CheckDrift(w)
             \/ RecordCompleted(w) \/ RaiseError(w)
      PROVE  On(j)' # {} \/ j \in queue' \/ outcome'[j] = "failed"
  <2>1. /\ UNCHANGED <<job, queue, outcome>>
        /\ \A v \in Workers : at[v] # "idle" => at'[v] # "idle"
        /\ at[w] # "idle"
        /\ status[j] = "running" \/ job[w] = j
    BY <1>6 DEF TakeJob, MarkRunning, RestartRunning, CheckDrift, RecordCompleted,
                RaiseError, Goto, redis, database
  <2> QED BY <1>2, <1>6, <2>1
<1>7. ASSUME NEW w \in Workers, table' = table, RecordFailed(w) \/ LoseAttempt(w)
      PROVE  On(j)' # {} \/ j \in queue' \/ outcome'[j] = "failed"
  <2>1. CASE job[w] = j
    BY <1>7, <2>1 DEF RecordFailed, LoseAttempt, RetryOrGiveUp
  <2>2. CASE job[w] # j
    <3>1. /\ status[j] = "running" /\ outcome'[j] = outcome[j] /\ queue \subseteq queue'
          /\ \A v \in Workers \ {w} : at'[v] = at[v] /\ job'[v] = job[v]
      BY <1>7, <2>2 DEF RecordFailed, LoseAttempt, Leave, RetryOrGiveUp, database
    <3> QED BY <1>2, <1>7, <2>2, <3>1
  <2> QED BY <2>1, <2>2
<1>8. \A w \in Workers : ~Redeliver(w)
  BY DEF Redeliver
<1> QED BY <1>3, <1>4, <1>5, <1>6, <1>7, <1>8, StepKinds DEF WorkerStep

LEMMA RequestedJobsAreNotDroppedStep ==
    ASSUME ~Redelivers, TypeOK, TypeOK', WorkersHaveJobs, StagedJobsAreDue,
           MessagesAreSentOnce, OneAttemptAtATime, AttemptsKnowTheStatus,
           RequestedJobsAreNotDropped,
           [Next]_vars
    PROVE  RequestedJobsAreNotDropped'
<1> SUFFICES ASSUME NEW j \in table', jobSchedule'[j] = None, outcome'[j] = "finished"
             PROVE  status'[j] = "completed"
  BY DEF RequestedJobsAreNotDropped
<1>1. j \in Jobs
  BY DEF TypeOK
<1> USE <1>1 DEF TypeOK, WorkersHaveJobs, MessagesAreSentOnce, OneAttemptAtATime, Busy
<1>2. j \in table /\ jobSchedule[j] = None /\ outcome[j] = "finished" =>
         status[j] = "completed"
  BY DEF RequestedJobsAreNotDropped
<1>3. ASSUME status[j] = "completed", outcome[j] = "finished"
      PROVE  status'[j] = "completed"
  BY <1>3, CompletedStays DEF On
<1>4. CASE table' = table /\ jobSchedule' = jobSchedule /\ outcome'[j] = outcome[j]
  BY <1>2, <1>3, <1>4
<1>5. ASSUME NEW i \in Jobs, RequestJob(i) PROVE status'[j] = "completed"
  <2>1. i \notin sent /\ table' = table \cup {i} /\ UNCHANGED <<jobSchedule, outcome>>
    BY <1>5 DEF RequestJob, Fresh, redis
  <2>2. j # i
    BY <2>1
  <2> QED BY <1>2, <1>3, <2>1, <2>2
<1>6. CASE CommitTick
  <2>1. /\ table' = table \cup StagedJobs
        /\ outcome' = outcome
        /\ jobSchedule'[j] = IF j \in StagedJobs
                             THEN CHOOSE s \in Schedules : staged[s] = j
                             ELSE jobSchedule[j]
    BY <1>6 DEF CommitTick, redis
  <2>2. j \notin StagedJobs
    <3>1. j \in StagedJobs => (CHOOSE s \in Schedules : staged[s] = j) \in Schedules
      BY DEF StagedJobs
    <3> QED BY <2>1, <3>1, BoundsAssumption
  <2> QED BY <1>2, <1>3, <2>1, <2>2
<1>7. ASSUME NEW w \in Workers, table' = table, jobSchedule' = jobSchedule,
             DropJob(w) \/ ReturnToRQ(w)
      PROVE  status'[j] = "completed"
  <2>1. CASE job[w] = j
    BY <1>7, <2>1 DEF DropJob, ReturnToRQ, Skippable, AttemptsKnowTheStatus, database
  <2>2. CASE job[w] # j
    BY <1>4, <1>7, <2>2 DEF DropJob, ReturnToRQ, Finish
  <2> QED BY <2>1, <2>2
<1>8. ASSUME NEW w \in Workers, table' = table, jobSchedule' = jobSchedule,
             RecordFailed(w) \/ LoseAttempt(w)
      PROVE  status'[j] = "completed"
  BY <1>4, <1>8 DEF RecordFailed, LoseAttempt, RetryOrGiveUp
<1>9. ASSUME NEW w \in Workers, table' = table, jobSchedule' = jobSchedule,
             \/ \E i \in Jobs : Deliver(w, i)
             \/ TakeJob(w) \/ MarkRunning(w) \/ RestartRunning(w) \/ CheckDrift(w)
             \/ RecordCompleted(w) \/ RaiseError(w)
      PROVE  status'[j] = "completed"
  BY <1>4, <1>9 DEF Deliver, TakeJob, MarkRunning, RestartRunning, CheckDrift,
                    RecordCompleted, RaiseError, redis
<1>10. CASE \/ Tick \/ UNCHANGED vars \/ StartTick \/ FailTick
            \/ \E s \in Schedules : \/ CreateSchedule(s) \/ DeactivateSchedule(s)
                                   \/ SkipSchedule(s) \/ EnqueueDueSchedule(s)
            \/ \E i \in Jobs : SendRequestedJob(i) \/ LoseRequest(i)
  BY <1>4, <1>10 DEF Tick, vars, StartTick, FailTick, CreateSchedule,
                     DeactivateSchedule, SkipSchedule, EnqueueDueSchedule, Send,
                     SendRequestedJob, LoseRequest, database, redis
<1>11. \A w \in Workers : ~Redeliver(w)
  BY DEF Redeliver
<1> QED BY <1>5, <1>6, <1>7, <1>8, <1>9, <1>10, <1>11, WorkersLeave
        DEF Next, ApiStep, SchedulerStep, WorkerStep

-----------------------------------------------------------------------------
(* The theorems.                                                           *)

\* The parts above that hold under redelivery too hold of every reachable state.
THEOREM Invariance == Spec => []IInv
<1>1. Init /\ TypeOK /\ WorkersHaveJobs => IInv
  <2> SUFFICES ASSUME Init, TypeOK, WorkersHaveJobs PROVE IInv
    OBVIOUS
  <2>1. AttemptsHaveRows /\ RunsBelongToJobs /\ StagedJobsAreDue /\ ScheduledJobsAreSpaced
    BY BoundsAssumption DEF Init, AttemptsHaveRows, RunsBelongToJobs, StagedJobsAreDue,
                            ScheduledJobsAreSpaced
  <2>2. MessagesAreSentOnce
    BY DEF Init, MessagesAreSentOnce, Busy
  <2>3. ASSUME NEW j \in Jobs PROVE DeliveriesAreCounted(j)
    <3>1. AboutToRun(j) = {} /\ Deliverable(j) = 1 /\ driftRuns[j] = 0
          /\ retriesLeft[j] = MaxRetries
      BY DEF Init, AboutToRun, Deliverable
    <3>2. IsFiniteSet(AboutToRun(j)) /\ Cardinality(AboutToRun(j)) = 0
      BY <3>1, FS_EmptySet
    <3> QED BY <3>1, <3>2, BoundsAssumption DEF DeliveriesAreCounted
  <2> QED BY <2>1, <2>2, <2>3 DEF IInv
<1>2. IInv /\ [Next]_vars /\ (TypeOK /\ WorkersHaveJobs)' => IInv'
  BY AttemptsHaveRowsStep, StagedJobsAreDueStep, MessagesAreSentOnceStep,
     DeliveriesAreCountedStep DEF IInv
<1> QED BY <1>1, <1>2, TypeCorrect, PTL DEF Spec

\* While RQ makes one attempt at a job at a time, the other parts hold as well.
THEOREM OneAttemptInvariance == ~Redelivers => (Spec => []OneAttemptInv)
<1>1. Init => OneAttemptInv
  BY DEF Init, OneAttemptInv, OneAttemptAtATime, AttemptsKnowTheStatus, Busy,
         RunsAreAccountedFor, On, RunningJobsHaveAnAttempt, RequestedJobsAreNotDropped
<1>2. ~Redelivers /\ OneAttemptInv /\ IInv /\ IInv' /\ [Next]_vars => OneAttemptInv'
  BY OneAttemptAtATimeStep, AttemptsKnowTheStatusStep, RunsAreAccountedForStep,
     RunningJobsHaveAnAttemptStep, RequestedJobsAreNotDroppedStep DEF OneAttemptInv, IInv
<1>3. ~Redelivers => (Spec => []~Redelivers)
  <2>1. ~Redelivers /\ [Next]_vars => (~Redelivers)'
    OBVIOUS
  <2> QED BY <2>1, PTL DEF Spec
<1> QED BY <1>1, <1>2, <1>3, Invariance, PTL DEF Spec

\* However often RQ hands out a job that is still worked on, and whatever is lost or
\* fails, a job commits no more drift runs than Retry(max=3) allows deliveries
\* (execute_monitoring_job, which commits a run before it records it).
THEOREM RunsAreBounded == Spec => []RunsWithinDeliveries
<1>1. IInv => RunsWithinDeliveries
  <2> SUFFICES ASSUME IInv, NEW j \in Jobs
               PROVE  driftRuns[j] + retriesLeft[j] <= MaxRetries + 1
    BY DEF RunsWithinDeliveries
  <2>1. /\ driftRuns[j] + Cardinality(AboutToRun(j)) + Deliverable(j) + retriesLeft[j]
              <= MaxRetries + 1
        /\ IsFiniteSet(AboutToRun(j))
    BY DEF IInv, DeliveriesAreCounted
  <2>2. driftRuns[j] \in Nat /\ retriesLeft[j] \in Nat /\ MaxRetries \in Nat
    BY BoundsAssumption DEF IInv, TypeOK
  <2>3. Cardinality(AboutToRun(j)) \in Nat /\ Deliverable(j) \in Nat
    BY <2>1, FS_CardinalityType DEF Deliverable
  <2> QED BY <2>1, <2>2, <2>3
<1> QED BY <1>1, Invariance, PTL

\* A completed job points to a drift run of its own, and a message whose row was
\* rolled back makes none (execute_monitoring_job), whatever RQ delivers twice.
THEOREM CompletedJobsHaveTheirRun == Spec => []RunsBelongToJobs
<1>1. IInv => RunsBelongToJobs
  BY DEF IInv
<1> QED BY <1>1, Invariance, PTL

\* The jobs of a schedule are an interval apart, although ticks fail half-way
\* (find_and_enqueue_due_schedules).
THEOREM JobsAreSpaced == Spec => []ScheduledJobsAreSpaced
<1>1. IInv => ScheduledJobsAreSpaced
  BY DEF IInv
<1> QED BY <1>1, Invariance, PTL

\* A tick that has loaded a schedule as active does not bring it back after the
\* user deactivated it (deactivate_schedule).
THEOREM DeactivatedForGood == Spec => DeactivationIsFinal
<1>1. TypeOK /\ [Next]_vars =>
        [\A s \in Schedules : schedule[s] = "inactive" => schedule'[s] = "inactive"]_vars
  <2> SUFFICES ASSUME TypeOK, [Next]_vars, NEW s \in Schedules, schedule[s] = "inactive"
               PROVE  schedule'[s] = "inactive"
    OBVIOUS
  <2>1. CASE schedule' = schedule
    BY <2>1
  <2>2. ASSUME NEW t \in Schedules, CreateSchedule(t) \/ DeactivateSchedule(t)
        PROVE  schedule'[s] = "inactive"
    BY <2>2 DEF CreateSchedule, DeactivateSchedule, TypeOK
  <2>3. CASE \/ Tick \/ UNCHANGED vars \/ SchedulerStep
             \/ \E j \in Jobs : RequestJob(j) \/ SendRequestedJob(j) \/ LoseRequest(j)
    BY <2>1, <2>3 DEF Tick, vars, SchedulerStep, StartTick, CommitTick, FailTick,
                      SkipSchedule, EnqueueDueSchedule, RequestJob, SendRequestedJob,
                      LoseRequest, database
  <2> QED BY <2>1, <2>2, <2>3, WorkersLeave DEF Next, ApiStep
<1> QED BY <1>1, TypeCorrect, PTL DEF Spec, DeactivationIsFinal

\* A completed job keeps its run and stays completed, unless the attempt that made
\* the run raises an error behind its last commit (execute_monitoring_job), as long
\* as RQ makes one attempt at a job at a time.
THEOREM CompletedForGood == ~Redelivers => (Spec => CompletedUnlessItsAttemptFails)
<1>1. IInv /\ OneAttemptInv /\ [Next]_vars =>
        [\A j \in Jobs : status[j] = "completed" =>
            /\ UNCHANGED <<jobRun[j], driftRuns[j]>>
            /\ \/ status'[j] = "completed"
               \/ /\ status'[j] = "failed"
                  /\ \E w \in On(j) : at[w] = "failing" /\ run[w] = jobRun[j]]_vars
  <2> SUFFICES ASSUME IInv, OneAttemptInv, [Next]_vars, NEW j \in Jobs,
                      status[j] = "completed"
               PROVE  /\ UNCHANGED <<jobRun[j], driftRuns[j]>>
                      /\ \/ status'[j] = "completed"
                         \/ /\ status'[j] = "failed"
                            /\ \E w \in On(j) : at[w] = "failing" /\ run[w] = jobRun[j]
    OBVIOUS
  <2>1. \A w \in On(j) : run[w] # 0 => run[w] = jobRun[j]
    BY DEF OneAttemptInv, RunsAreAccountedFor, On
  <2> QED BY <2>1, CompletedStays DEF IInv, OneAttemptInv
<1> QED BY <1>1, Invariance, OneAttemptInvariance, PTL
        DEF Spec, CompletedUnlessItsAttemptFails

\* A job whose row says running has an attempt under way or to come, or RQ has
\* given it up, as long as RQ makes one attempt at a job at a time.
THEOREM RunningJobsAreAttended == ~Redelivers => (Spec => []RunningJobsHaveAnAttempt)
<1>1. OneAttemptInv => RunningJobsHaveAnAttempt
  BY DEF OneAttemptInv
<1> QED BY <1>1, OneAttemptInvariance, PTL

\* A job of the API that RQ has done with is completed (enqueue_monitoring_job
\* commits the row before it sends the message), as long as RQ makes one attempt
\* at a job at a time.
THEOREM RequestedJobsAreWorkedOn == ~Redelivers => (Spec => []RequestedJobsAreNotDropped)
<1>1. OneAttemptInv => RequestedJobsAreNotDropped
  BY DEF OneAttemptInv
<1> QED BY <1>1, OneAttemptInvariance, PTL

\* A completed job has one drift run, the one it points to, and one more for every
\* attempt that failed or was lost after it had committed its run; any other job has
\* these and the run of the attempt under way (execute_monitoring_job), as long as RQ
\* makes one attempt at a job at a time.
THEOREM RunsAreRecordedOnce == ~Redelivers => (Spec => []OneRunPerCompletedJob)
<1>1. IInv /\ OneAttemptInv => OneRunPerCompletedJob
  <2> SUFFICES ASSUME IInv, OneAttemptInv, NEW j \in Jobs
               PROVE  IF status[j] = "completed"
                      THEN driftRuns[j] = stranded[j] + 1 /\ jobRun[j] = driftRuns[j]
                      ELSE driftRuns[j] =
                              stranded[j] + Cardinality({w \in On(j) : run[w] # 0})
    BY DEF OneRunPerCompletedJob
  <2> DEFINE inHand == {w \in On(j) : run[w] # 0}
  <2> USE DEF IInv, OneAttemptInv, RunsAreAccountedFor
  <2>1. CASE status[j] = "completed"
    BY <2>1
  <2>2. CASE status[j] # "completed" /\ \A w \in On(j) : run[w] = 0
    <3>1. inHand = {}
      BY <2>2
    <3>2. Cardinality(inHand) = 0
      BY <3>1, FS_EmptySet
    <3>3. driftRuns[j] = stranded[j] /\ stranded[j] \in Nat
      BY <2>2 DEF TypeOK
    <3> HIDE DEF inHand
    <3>4. driftRuns[j] = stranded[j] + Cardinality(inHand)
      BY <3>2, <3>3
    <3> QED BY <2>2, <3>4 DEF inHand
  <2>3. CASE status[j] # "completed" /\ \E w \in On(j) : run[w] # 0
    <3>1. PICK w \in On(j) : run[w] # 0
      BY <2>3
    <3>2. inHand = {w}
      BY <3>1 DEF On, OneAttemptAtATime, Busy
    <3>3. Cardinality(inHand) = 1
      BY <3>2, FS_Singleton
    <3>4. driftRuns[j] = stranded[j] + 1
      BY <2>3
    <3> HIDE DEF inHand
    <3>5. driftRuns[j] = stranded[j] + Cardinality(inHand)
      BY <3>3, <3>4
    <3> QED BY <2>3, <3>5 DEF inHand
  <2> QED BY <2>1, <2>2, <2>3
<1> QED BY <1>1, Invariance, OneAttemptInvariance, PTL
=============================================================================
