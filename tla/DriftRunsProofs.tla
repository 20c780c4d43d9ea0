---------------------------- MODULE DriftRunsProofs ----------------------------
(***************************************************************************)
(* What holds of drift runs for any number of runs, rows, features and     *)
(* requests, with any window ends.                                         *)
(***************************************************************************)
EXTENDS DriftRuns, FiniteSetTheorems, TLAPS

\* Every variable keeps to the values its column or variable in the code has.
THEOREM TypeCorrect == Spec => []TypeOK
<1>1. Init => TypeOK
  BY TimesAssumption DEF Init, TypeOK, Steps, Statuses
<1>2. TypeOK /\ [Next]_vars => TypeOK'
  <2> SUFFICES ASSUME TypeOK, [Next]_vars PROVE TypeOK'
    OBVIOUS
  <2> USE RowsAssumption, TimesAssumption DEF TypeOK
  <2>1. CASE Tick
    BY <2>1 DEF Tick, run
  <2>2. ASSUME NEW o \in Rows, Flush(o) PROVE TypeOK'
    BY <2>2 DEF Flush, run
  <2>3. ASSUME NEW b \in Batches, CommitBatch(b) PROVE TypeOK'
    BY <2>3 DEF CommitBatch, run
  <2>4. ASSUME NEW b \in Batches, AbortBatch(b) PROVE TypeOK'
    BY <2>4 DEF AbortBatch, run
  <2>5. ASSUME NEW s \in Snapshots, CreateSnapshot(s) PROVE TypeOK'
    BY <2>5 DEF CreateSnapshot, run
  <2>6. ASSUME NEW r \in Runs, Resolve(r) PROVE TypeOK'
    <3>1. CASE pc' = [pc EXCEPT ![r] = "aborted"] /\ UNCHANGED snapshot
      BY <2>6, <3>1 DEF Resolve, data, Steps
    <3>2. ASSUME NEW s \in snapshots, snapshot' = [snapshot EXCEPT ![r] = s],
                 pc' = [pc EXCEPT ![r] = "resolved"]
          PROVE  TypeOK'
      <4>1. s \in Nat
        OBVIOUS
      <4> QED BY <2>6, <3>2, <4>1 DEF Resolve, data, Steps
    <3> QED BY <2>6, <3>1, <3>2 DEF Resolve, LatestSnapshots
  <2>7. ASSUME NEW r \in Runs, TakeWindowEnd(r) PROVE TypeOK'
    BY <2>7 DEF TakeWindowEnd, data, Steps
  <2>8. ASSUME NEW r \in Runs, ReadWindowStart(r) PROVE TypeOK'
    <3>1. WindowStarts \subseteq Nat
      BY DEF WindowStarts, LatestRuns, Committed
    <3>2. Committed \subseteq Runs /\ CommittedRows \subseteq Rows
      BY DEF Committed, CommittedRows
    <3> QED BY <2>8, <3>1, <3>2 DEF ReadWindowStart, data, Steps
  <2>9. ASSUME NEW r \in Runs, NEW f \in Features, EvaluateFeature(r, f)
        PROVE  TypeOK'
    <3>1. Observations(r, f) \subseteq Rows
      BY DEF Observations, CommittedRows
    <3>2. Evaluations(Observations(r, f)) \subseteq Statuses \cup {"skipped"}
      BY DEF Evaluations, Statuses
    <3>3. PICK v \in Statuses \cup {"skipped"} :
             /\ featureStatus' = [featureStatus EXCEPT ![r][f] = v]
             /\ alerts' = [alerts EXCEPT ![r] =
                              IF v = "drifted" THEN @ \cup {f} ELSE @]
      BY <2>9, <3>2 DEF EvaluateFeature
    <3> QED BY <2>9, <3>1, <3>3 DEF EvaluateFeature, data
  <2>10. ASSUME NEW r \in Runs, Commit(r) PROVE TypeOK'
    BY <2>10 DEF Commit, data, Steps
  <2>11. ASSUME NEW r \in Runs, Abort(r) PROVE TypeOK'
    BY <2>11 DEF Abort, data, Steps
  <2>12. CASE UNCHANGED vars
    BY <2>12 DEF vars, data, run
  <2> QED BY <2>1, <2>2, <2>3, <2>4, <2>5, <2>6, <2>7, <2>8, <2>9, <2>10, <2>11,
             <2>12 DEF Next, RunStep
<1> QED BY <1>1, <1>2, PTL DEF Spec

-----------------------------------------------------------------------------
(* The inductive invariant.                                                *)

Working(r) == pc[r] \in {"querying", "committed"}

\* Requests whose rows are visible have flushed all of them, one by one, after
\* created_at.
RowsAreStamped ==
    /\ now > CreatedAt
    /\ IsFiniteSet(flushed)
    /\ \A o \in Rows : batch[BatchOf[o]] = "committed" => o \in flushed
    /\ \A o \in flushed : ingestedAt[o] > CreatedAt

\* A run counts visible rows of its own window, and only while it has one.
CountsInWindow ==
    \A r \in Runs : \A o \in counted[r] :
        Working(r) /\ o \in CommittedRows /\ InWindow(o, r)

\* The runs a run has seen are committed and end before it starts.
SeenRunsAreBehind ==
    \A r \in Runs : \A q \in seen[r] :
        Working(r) /\ q \in Committed /\ windowEnd[q] <= windowStart[r]

\* A run starts at created_at or where a committed run ends.
StartsAtAnEnd ==
    \A r \in Runs : Working(r) =>
        windowStart[r] = CreatedAt \/ \E q \in Committed : windowStart[r] = windowEnd[q]

\* What a run's loop has passed, it has counted, as far as it was settled.
SettledRowsAreCounted ==
    \A r \in Runs :
        /\ pc[r] = "committed" => todo[r] = {}
        /\ Working(r) => settled[r] \subseteq CommittedRows
        /\ Working(r) => \A o \in settled[r] :
              InWindow(o, r) /\ FeatureOf[o] \notin todo[r] => o \in counted[r]

\* The rows of one feature that a run counts.
CountedOf(r, f) == {o \in counted[r] : FeatureOf[o] = f}

\* A feature the loop has not come to has no result and no rows; one it has passed has
\* a result exactly if it has rows, an alert exactly if it drifted, and then enough
\* usable rows.
ResultMatches(r, f) ==
    /\ f \in todo[r] => Working(r)
    /\ f \in todo[r] \/ ~Working(r) => featureStatus[r][f] = "skipped"
    /\ featureStatus[r][f] = "skipped" <=> CountedOf(r, f) = {}
    /\ featureStatus[r][f] = "drifted" <=> f \in alerts[r]
    /\ featureStatus[r][f] = "drifted" =>
          Cardinality(CountedOf(r, f) \cap UsableRows) >= MinUsable

StatusMatches(r) ==
    pc[r] = "committed" => status[r] = IF counted[r] = {} THEN "empty" ELSE "completed"

ResultsMatchRows ==
    \A r \in Runs : StatusMatches(r) /\ \A f \in Features : ResultMatches(r, f)

\* Runs made one at a time see all that are committed before them.
SerialRunsSeeAll ==
    Serial =>
        /\ \A q, r \in Active : q = r
        /\ \A r \in Runs : pc[r] = "querying" => seen[r] = Committed
        /\ \A q, r \in Committed : q # r => q \in seen[r] \/ r \in seen[q]

IInv ==
    /\ TypeOK
    /\ RowsAreStamped
    /\ CountsInWindow
    /\ SeenRunsAreBehind
    /\ StartsAtAnEnd
    /\ SettledRowsAreCounted
    /\ ResultsMatchRows
    /\ WindowsLeaveNoGap
    /\ SerialRunsSeeAll

-----------------------------------------------------------------------------
(* What no step changes.                                                   *)

\* A committed run keeps its window, its counts and what it had seen.
LEMMA CommittedRunsStay ==
    ASSUME TypeOK, [Next]_vars, NEW q \in Committed
    PROVE  /\ q \in Committed'
           /\ windowStart'[q] = windowStart[q] /\ windowEnd'[q] = windowEnd[q]
           /\ counted'[q] = counted[q] /\ todo'[q] = todo[q]
           /\ seen'[q] = seen[q] /\ settled'[q] = settled[q]
<1> USE DEF TypeOK, Committed, data, run
<1>1. CASE \E r \in Runs : Resolve(r) \/ TakeWindowEnd(r) \/ ReadWindowStart(r)
  BY <1>1 DEF Resolve, TakeWindowEnd, ReadWindowStart
<1>2. ASSUME NEW r \in Runs, NEW f \in Features, EvaluateFeature(r, f)
      PROVE  q \in Committed' /\ counted'[q] = counted[q] /\ todo'[q] = todo[q]
             /\ UNCHANGED <<windowStart, windowEnd, seen, settled>>
  BY <1>2 DEF EvaluateFeature
<1>3. CASE \E r \in Runs : Commit(r) \/ Abort(r)
  BY <1>3 DEF Commit, Abort, ActiveSteps
<1>4. CASE \/ Tick \/ UNCHANGED vars \/ \E o \in Rows : Flush(o)
           \/ \E b \in Batches : CommitBatch(b) \/ AbortBatch(b)
           \/ \E s \in Snapshots : CreateSnapshot(s)
  BY <1>4 DEF Tick, Flush, CommitBatch, AbortBatch, CreateSnapshot, vars
<1> QED BY <1>1, <1>2, <1>3, <1>4 DEF Next, RunStep

\* A visible row stays visible and keeps its time.
LEMMA CommittedRowsStay ==
    ASSUME TypeOK, [Next]_vars, NEW o \in CommittedRows
    PROVE  o \in CommittedRows' /\ ingestedAt'[o] = ingestedAt[o]
<1> USE RowsAssumption DEF TypeOK, CommittedRows
<1>1. CASE Tick \/ UNCHANGED vars \/ \E s \in Snapshots : CreateSnapshot(s)
  BY <1>1 DEF Tick, CreateSnapshot, vars, data
<1>2. CASE \E p \in Rows : Flush(p)
  BY <1>2 DEF Flush
<1>3. CASE \E b \in Batches : CommitBatch(b) \/ AbortBatch(b)
  BY <1>3 DEF CommitBatch, AbortBatch
<1>4. CASE \E r \in Runs : RunStep(r)
  BY <1>4 DEF RunStep, Resolve, TakeWindowEnd, ReadWindowStart, EvaluateFeature,
              Commit, Abort, data
<1> QED BY <1>1, <1>2, <1>3, <1>4 DEF Next

\* Every step is a step of the data, which leaves the runs alone, or of one run.
LEMMA StepKinds ==
    ASSUME [Next]_vars
    PROVE  UNCHANGED run \/ (UNCHANGED data /\ \E r \in Runs : RunStep(r))
<1>1. CASE \/ Tick \/ UNCHANGED vars \/ \E o \in Rows : Flush(o)
           \/ \E b \in Batches : CommitBatch(b) \/ AbortBatch(b)
           \/ \E s \in Snapshots : CreateSnapshot(s)
  BY <1>1 DEF Tick, Flush, CommitBatch, AbortBatch, CreateSnapshot, vars
<1>2. CASE \E r \in Runs : RunStep(r)
  BY <1>2 DEF RunStep, Resolve, TakeWindowEnd, ReadWindowStart, EvaluateFeature,
              Commit, Abort
<1> QED BY <1>1, <1>2 DEF Next

-----------------------------------------------------------------------------
(* One lemma per part of the inductive invariant.                          *)

LEMMA RowsAreStampedStep ==
    ASSUME TypeOK, RowsAreStamped, [Next]_vars PROVE RowsAreStamped'
<1> USE RowsAssumption, TimesAssumption DEF TypeOK, RowsAreStamped
<1>1. CASE Tick
  BY <1>1 DEF Tick
<1>2. ASSUME NEW o \in Rows, Flush(o) PROVE RowsAreStamped'
  BY <1>2, FS_AddElement DEF Flush
<1>3. ASSUME NEW b \in Batches, CommitBatch(b) PROVE RowsAreStamped'
  BY <1>3 DEF CommitBatch
<1>4. ASSUME NEW b \in Batches, AbortBatch(b) PROVE RowsAreStamped'
  <2>1. flushed' \subseteq flushed
    BY <1>4 DEF AbortBatch
  <2>2. IsFiniteSet(flushed')
    BY <2>1, FS_Subset
  <2> QED BY <1>4, <2>2 DEF AbortBatch
<1>5. CASE UNCHANGED data
  BY <1>5 DEF data
<1>6. ASSUME NEW s \in Snapshots, CreateSnapshot(s) PROVE RowsAreStamped'
  BY <1>6 DEF CreateSnapshot
<1>7. CASE \E r \in Runs : RunStep(r)
  BY <1>5, <1>7 DEF RunStep, Resolve, TakeWindowEnd, ReadWindowStart, EvaluateFeature,
                   Commit, Abort
<1> QED BY <1>1, <1>2, <1>3, <1>4, <1>5, <1>6, <1>7 DEF Next, vars

LEMMA CountsInWindowStep ==
    ASSUME TypeOK, CountsInWindow, [Next]_vars PROVE CountsInWindow'
<1> USE DEF CountsInWindow, Working, InWindow
<1>1. \A o \in CommittedRows : o \in CommittedRows' /\ ingestedAt'[o] = ingestedAt[o]
  BY CommittedRowsStay
<1>2. CASE UNCHANGED run
  BY <1>1, <1>2 DEF run
<1>3. ASSUME UNCHANGED data, NEW r \in Runs, RunStep(r) PROVE CountsInWindow'
  <2> USE <1>1, <1>3 DEF TypeOK
  <2>1. CASE Resolve(r)
    BY <2>1 DEF Resolve
  <2>2. CASE TakeWindowEnd(r)
    BY <2>2 DEF TakeWindowEnd
  <2>3. CASE ReadWindowStart(r)
    BY <2>3 DEF ReadWindowStart
  <2>4. ASSUME NEW f \in Features, EvaluateFeature(r, f) PROVE CountsInWindow'
    <3>1. \A o \in Observations(r, f) :
             o \in CommittedRows /\ windowStart[r] < ingestedAt[o]
             /\ ingestedAt[o] <= windowEnd[r]
      BY DEF Observations
    <3> QED BY <2>4, <3>1 DEF EvaluateFeature, data
  <2>5. CASE Commit(r)
    BY <2>5 DEF Commit
  <2>6. CASE Abort(r)
    BY <2>6 DEF Abort, ActiveSteps
  <2> QED BY <2>1, <2>2, <2>3, <2>4, <2>5, <2>6 DEF RunStep
<1> QED BY <1>2, <1>3, StepKinds

LEMMA SeenRunsAreBehindStep ==
    ASSUME TypeOK, SeenRunsAreBehind, [Next]_vars PROVE SeenRunsAreBehind'
<1> USE DEF SeenRunsAreBehind, Working
<1>1. \A q \in Committed : q \in Committed' /\ windowEnd'[q] = windowEnd[q]
  BY CommittedRunsStay
<1>2. CASE UNCHANGED run
  BY <1>1, <1>2 DEF run
<1>3. ASSUME NEW r \in Runs, RunStep(r) PROVE SeenRunsAreBehind'
  <2> USE <1>1, <1>3 DEF TypeOK
  <2>1. CASE Resolve(r)
    BY <2>1 DEF Resolve
  <2>2. CASE TakeWindowEnd(r)
    BY <2>2 DEF TakeWindowEnd
  <2>3. CASE ReadWindowStart(r)
    <3>1. \A s \in WindowStarts : \A q \in Committed : windowEnd[q] <= s
      BY DEF WindowStarts, LatestRuns
    <3> QED BY <2>3, <3>1 DEF ReadWindowStart
  <2>4. CASE \E f \in Features : EvaluateFeature(r, f)
    BY <2>4 DEF EvaluateFeature
  <2>5. CASE Commit(r)
    BY <2>5 DEF Commit
  <2>6. CASE Abort(r)
    BY <2>6 DEF Abort, ActiveSteps
  <2> QED BY <2>1, <2>2, <2>3, <2>4, <2>5, <2>6 DEF RunStep
<1> QED BY <1>2, <1>3, StepKinds

LEMMA StartsAtAnEndStep ==
    ASSUME TypeOK, StartsAtAnEnd, [Next]_vars PROVE StartsAtAnEnd'
<1> USE DEF StartsAtAnEnd, Working
<1>1. \A q \in Committed : q \in Committed' /\ windowEnd'[q] = windowEnd[q]
  BY CommittedRunsStay
<1>2. CASE UNCHANGED run
  BY <1>1, <1>2 DEF run
<1>3. ASSUME NEW r \in Runs, RunStep(r) PROVE StartsAtAnEnd'
  <2> USE <1>1, <1>3 DEF TypeOK
  <2>1. CASE Resolve(r)
    BY <2>1 DEF Resolve
  <2>2. CASE TakeWindowEnd(r)
    BY <2>2 DEF TakeWindowEnd
  <2>3. CASE ReadWindowStart(r)
    <3>1. PICK s \in WindowStarts : windowStart' = [windowStart EXCEPT ![r] = s]
      BY <2>3 DEF ReadWindowStart
    <3>2. s = CreatedAt \/ \E q \in Committed : s = windowEnd[q]
      BY DEF WindowStarts, LatestRuns
    <3>3. \A p \in Runs \ {r} : windowStart'[p] = windowStart[p] /\ pc'[p] = pc[p]
      BY <2>3, <3>1 DEF ReadWindowStart
    <3>4. windowStart'[r] = s
      BY <3>1
    <3> QED BY <3>2, <3>3, <3>4
  <2>4. CASE \E f \in Features : EvaluateFeature(r, f)
    BY <2>4 DEF EvaluateFeature
  <2>5. CASE Commit(r)
    BY <2>5 DEF Commit
  <2>6. CASE Abort(r)
    BY <2>6 DEF Abort
  <2> QED BY <2>1, <2>2, <2>3, <2>4, <2>5, <2>6 DEF RunStep
<1> QED BY <1>2, <1>3, StepKinds

LEMMA SettledRowsAreCountedStep ==
    ASSUME TypeOK, SettledRowsAreCounted, [Next]_vars PROVE SettledRowsAreCounted'
<1> USE DEF SettledRowsAreCounted, Working, InWindow
<1>1. \A o \in CommittedRows : o \in CommittedRows' /\ ingestedAt'[o] = ingestedAt[o]
  BY CommittedRowsStay
<1>2. CASE UNCHANGED run
  BY <1>1, <1>2 DEF run
<1>3. ASSUME UNCHANGED data, NEW r \in Runs, RunStep(r)
      PROVE  SettledRowsAreCounted'
  <2> USE <1>1, <1>3, RowsAssumption DEF TypeOK
  <2>1. CASE Resolve(r)
    BY <2>1 DEF Resolve
  <2>2. CASE TakeWindowEnd(r)
    BY <2>2 DEF TakeWindowEnd
  <2>3. CASE ReadWindowStart(r)
    <3>1. CommittedRows \subseteq Rows
      BY DEF CommittedRows
    <3> QED BY <2>3, <3>1 DEF ReadWindowStart
  <2>4. ASSUME NEW f \in Features, EvaluateFeature(r, f)
        PROVE  SettledRowsAreCounted'
    <3>1. \A o \in CommittedRows :
             InWindow(o, r) /\ FeatureOf[o] = f => o \in Observations(r, f)
      BY DEF Observations
    <3>2. /\ todo' = [todo EXCEPT ![r] = @ \ {f}]
          /\ counted' = [counted EXCEPT ![r] = @ \cup Observations(r, f)]
          /\ pc[r] = "querying"
          /\ UNCHANGED <<data, pc, windowStart, windowEnd, settled>>
      BY <2>4 DEF EvaluateFeature
    <3> QED BY <3>1, <3>2 DEF data
  <2>5. CASE Commit(r)
    BY <2>5 DEF Commit
  <2>6. CASE Abort(r)
    BY <2>6 DEF Abort
  <2> QED BY <2>1, <2>2, <2>3, <2>4, <2>5, <2>6 DEF RunStep
<1> QED BY <1>2, <1>3, StepKinds

\* A query that finds rows to be compared finds so many usable ones.
LEMMA EvaluationNeedsRows ==
    ASSUME TypeOK, RowsAreStamped, NEW r \in Runs, NEW f \in Features,
           NEW v \in Evaluations(Observations(r, f))
    PROVE  /\ v = "skipped" <=> Observations(r, f) = {}
           /\ v = "drifted" => Cardinality(Observations(r, f) \cap UsableRows) >= MinUsable
<1> DEFINE rows == Observations(r, f)
<1>1. rows \cap UsableRows \subseteq flushed
  BY DEF Observations, CommittedRows, RowsAreStamped
<1>2. Cardinality(rows \cap UsableRows) \in Nat
  BY <1>1, FS_Subset, FS_CardinalityType DEF RowsAreStamped
<1> HIDE DEF rows
<1>3. /\ v = "skipped" <=> rows = {}
      /\ v = "drifted" => Cardinality(rows \cap UsableRows) >= MinUsable
  <2>1. v \in Evaluations(rows)
    BY DEF rows
  <2> QED BY <1>2, <2>1, TimesAssumption DEF Evaluations, Statuses
<1> QED BY <1>3 DEF rows

LEMMA ResultsMatchRowsStep ==
    ASSUME TypeOK, RowsAreStamped, ResultsMatchRows, [Next]_vars
    PROVE  ResultsMatchRows'
<1> DEFINE Fine(q) == StatusMatches(q) /\ \A g \in Features : ResultMatches(q, g)
<1> SUFFICES ASSUME NEW q \in Runs PROVE Fine(q)'
  BY DEF ResultsMatchRows
<1>a. Fine(q)
  BY DEF ResultsMatchRows
<1>b. ASSUME UNCHANGED <<todo[q], counted[q], featureStatus[q], alerts[q]>>,
             Working(q)' = Working(q),
             pc'[q] = "committed" => StatusMatches(q)'
      PROVE  Fine(q)'
  <2>1. StatusMatches(q)'
    BY <1>b DEF StatusMatches
  <2>2. ASSUME NEW g \in Features PROVE CountedOf(q, g)' = CountedOf(q, g)
    BY <1>b DEF CountedOf
  <2> QED BY <1>a, <1>b, <2>1, <2>2 DEF ResultMatches
\* A run that does nothing.
<1>c. ASSUME UNCHANGED <<pc[q], status[q], todo[q], counted[q], featureStatus[q], alerts[q]>>
      PROVE  Fine(q)'
  BY <1>a, <1>b, <1>c DEF StatusMatches, Working
<1>1. CASE UNCHANGED run
  BY <1>c, <1>1 DEF run
<1>2. ASSUME NEW r \in Runs, RunStep(r), r # q PROVE Fine(q)'
  BY <1>c, <1>2 DEF RunStep, Resolve, TakeWindowEnd, ReadWindowStart, EvaluateFeature,
                   Commit, Abort, TypeOK
<1>3. CASE Resolve(q) \/ TakeWindowEnd(q)
  BY <1>b, <1>3 DEF Resolve, TakeWindowEnd, Working, TypeOK
<1>4. CASE ReadWindowStart(q)
  <2>1. /\ pc[q] = "ended" /\ pc'[q] = "querying"
        /\ UNCHANGED <<counted, featureStatus, alerts>>
    BY <1>4 DEF ReadWindowStart, TypeOK
  <2>2. \A g \in Features : CountedOf(q, g)' = CountedOf(q, g)
    BY <2>1 DEF CountedOf
  <2> QED BY <1>a, <2>1, <2>2 DEF ResultMatches, StatusMatches, Working
<1>5. ASSUME NEW f \in Features, EvaluateFeature(q, f) PROVE Fine(q)'
  <2> USE DEF TypeOK
  <2>1. PICK v \in Evaluations(Observations(q, f)) :
           /\ featureStatus' = [featureStatus EXCEPT ![q][f] = v]
           /\ alerts' = [alerts EXCEPT ![q] = IF v = "drifted" THEN @ \cup {f} ELSE @]
    BY <1>5 DEF EvaluateFeature
  <2>2. /\ pc[q] = "querying" /\ f \in todo[q] /\ pc' = pc
        /\ todo'[q] = todo[q] \ {f}
        /\ counted'[q] = counted[q] \cup Observations(q, f)
    BY <1>5 DEF EvaluateFeature
  <2>3. /\ v = "skipped" <=> Observations(q, f) = {}
        /\ v = "drifted" => Cardinality(Observations(q, f) \cap UsableRows) >= MinUsable
    BY EvaluationNeedsRows
  <2>4. CountedOf(q, f) = {} /\ featureStatus[q][f] = "skipped" /\ f \notin alerts[q]
    BY <1>a, <2>2 DEF ResultMatches
  <2>5. CountedOf(q, f)' = Observations(q, f)
    BY <2>2, <2>4 DEF CountedOf, Observations
  <2>6. featureStatus'[q][f] = v /\ (v = "drifted" <=> f \in alerts'[q])
    BY <2>1, <2>4
  <2>7. ResultMatches(q, f)'
    BY <2>2, <2>3, <2>5, <2>6 DEF ResultMatches, Working
  <2>8. ASSUME NEW g \in Features \ {f} PROVE ResultMatches(q, g)'
    <3>1. CountedOf(q, g)' = CountedOf(q, g)
      BY <2>2 DEF CountedOf, Observations
    <3>2. /\ featureStatus'[q][g] = featureStatus[q][g]
          /\ g \in alerts'[q] <=> g \in alerts[q]
          /\ g \in todo'[q] <=> g \in todo[q]
      BY <2>1, <2>2
    <3>3. Working(q)' = Working(q)
      BY <2>2 DEF Working
    <3> HIDE DEF TypeOK
    <3> QED BY <1>a, <3>1, <3>2, <3>3 DEF ResultMatches
  <2> QED BY <2>2, <2>7, <2>8 DEF StatusMatches
<1>6. CASE Commit(q)
  BY <1>b, <1>6 DEF Commit, Working, StatusMatches, TypeOK
<1>7. CASE Abort(q)
  <2>1. /\ pc'[q] = "aborted" /\ todo'[q] = {} /\ counted'[q] = {} /\ alerts'[q] = {}
        /\ \A g \in Features : featureStatus'[q][g] = "skipped"
    BY <1>7 DEF Abort, TypeOK
  <2>2. \A g \in Features : CountedOf(q, g)' = {}
    BY <2>1 DEF CountedOf
  <2> QED BY <2>1, <2>2 DEF ResultMatches, StatusMatches, Working
<1> QED BY <1>1, <1>2, <1>3, <1>4, <1>5, <1>6, <1>7, StepKinds DEF RunStep

LEMMA WindowsLeaveNoGapStep ==
    ASSUME TypeOK, StartsAtAnEnd, WindowsLeaveNoGap, [Next]_vars
    PROVE  WindowsLeaveNoGap'
<1> USE TimesAssumption DEF WindowsLeaveNoGap
<1>1. \A q \in Committed : /\ q \in Committed'
                          /\ windowStart'[q] = windowStart[q]
                          /\ windowEnd'[q] = windowEnd[q]
  BY CommittedRunsStay
<1>2. CASE Committed' = Committed
  BY <1>1, <1>2
<1>3. ASSUME NEW r \in Runs, Commit(r) PROVE WindowsLeaveNoGap'
  <2>1. /\ Committed' = Committed \cup {r}
        /\ UNCHANGED <<windowStart, windowEnd>>
        /\ r \in Committed'
    BY <1>3 DEF Commit, Committed, TypeOK
  <2>2. windowStart[r] = CreatedAt \/ \E q \in Committed : windowStart[r] = windowEnd[q]
    BY <1>3 DEF Commit, StartsAtAnEnd, Working
  <2>3. ASSUME NEW t \in (CreatedAt + 1)..windowEnd[r]
        PROVE  \E q \in Committed' : windowStart[q] < t /\ t <= windowEnd[q]
    <3>1. CASE windowStart[r] < t
      BY <2>1, <3>1 DEF TypeOK
    <3>2. CASE ~(windowStart[r] < t)
      <4>1. PICK q \in Committed : windowStart[r] = windowEnd[q]
        BY <2>2, <3>2 DEF TypeOK
      <4>2. q \in Runs /\ windowEnd[q] \in Nat /\ t \in Nat
        BY DEF TypeOK, Committed
      <4>3. t \in (CreatedAt + 1)..windowEnd[q]
        BY <3>2, <4>1, <4>2 DEF TypeOK
      <4> QED BY <2>1, <4>3
    <3> QED BY <3>1, <3>2
  <2>4. ASSUME NEW p \in Committed, NEW t \in (CreatedAt + 1)..windowEnd[p]
        PROVE  \E q \in Committed' : windowStart[q] < t /\ t <= windowEnd[q]
    BY <2>1
  <2> QED BY <2>1, <2>3, <2>4
<1>4. Committed' = Committed \/ \E r \in Runs : Commit(r)
  <2>1. ASSUME NEW r \in Runs, RunStep(r), ~Commit(r) PROVE Committed' = Committed
    BY <2>1 DEF RunStep, Resolve, TakeWindowEnd, ReadWindowStart, EvaluateFeature,
                Abort, ActiveSteps, Committed, TypeOK
  <2>2. CASE UNCHANGED run
    BY <2>2 DEF run, Committed
  <2> QED BY <2>1, <2>2, StepKinds
<1> QED BY <1>2, <1>3, <1>4

LEMMA SerialRunsSeeAllStep ==
    ASSUME TypeOK, SeenRunsAreBehind, SerialRunsSeeAll, [Next]_vars
    PROVE  SerialRunsSeeAll'
<1> SUFFICES ASSUME Serial PROVE SerialRunsSeeAll'
  BY DEF SerialRunsSeeAll
<1> USE DEF SerialRunsSeeAll, Active, Committed, ActiveSteps
<1>1. CASE UNCHANGED run
  BY <1>1 DEF run
<1>2. ASSUME NEW r \in Runs, RunStep(r) PROVE SerialRunsSeeAll'
  <2> USE <1>2 DEF TypeOK
  <2>1. CASE Resolve(r)
    <3>1. /\ pc[r] = "idle"
          /\ \A p \in Runs : pc[p] \notin {"resolved", "ended", "querying"}
          /\ \/ pc' = [pc EXCEPT ![r] = "resolved"]
             \/ pc' = [pc EXCEPT ![r] = "aborted"]
          /\ seen' = seen
      BY <2>1 DEF Resolve
    <3>2. \A p \in Runs : p # r => pc'[p] = pc[p]
      BY <3>1
    <3>3. pc'[r] \in {"resolved", "aborted"}
      BY <3>1
    <3> QED BY <3>1, <3>2, <3>3
  <2>2. CASE TakeWindowEnd(r)
    BY <2>2 DEF TakeWindowEnd
  <2>3. CASE ReadWindowStart(r)
    BY <2>3 DEF ReadWindowStart
  <2>4. CASE \E f \in Features : EvaluateFeature(r, f)
    BY <2>4 DEF EvaluateFeature
  <2>5. CASE Commit(r)
    BY <2>5 DEF Commit
  <2>6. CASE Abort(r)
    BY <2>6 DEF Abort
  <2> QED BY <2>1, <2>2, <2>3, <2>4, <2>5, <2>6 DEF RunStep
<1> QED BY <1>1, <1>2, StepKinds

-----------------------------------------------------------------------------
(* The theorems.                                                           *)

\* The parts above hold together of every reachable state.
THEOREM Invariance == Spec => []IInv
<1>1. Init => RowsAreStamped /\ CountsInWindow /\ SeenRunsAreBehind
              /\ StartsAtAnEnd /\ SettledRowsAreCounted /\ ResultsMatchRows
              /\ WindowsLeaveNoGap /\ SerialRunsSeeAll
  <2> SUFFICES ASSUME Init
               PROVE  /\ RowsAreStamped /\ CountsInWindow /\ SeenRunsAreBehind
                      /\ StartsAtAnEnd /\ SettledRowsAreCounted /\ ResultsMatchRows
                      /\ WindowsLeaveNoGap /\ SerialRunsSeeAll
    OBVIOUS
  <2> USE RowsAssumption, TimesAssumption DEF Init, Working, Committed
  <2>1. RowsAreStamped
    BY FS_EmptySet DEF RowsAreStamped
  <2>2. CountsInWindow /\ SeenRunsAreBehind /\ StartsAtAnEnd /\ SettledRowsAreCounted
    BY DEF CountsInWindow, SeenRunsAreBehind, StartsAtAnEnd, SettledRowsAreCounted
  <2>3. ResultsMatchRows
    BY DEF ResultsMatchRows, ResultMatches, StatusMatches, CountedOf
  <2>4. WindowsLeaveNoGap /\ SerialRunsSeeAll
    BY DEF WindowsLeaveNoGap, SerialRunsSeeAll, Active, ActiveSteps
  <2> QED BY <2>1, <2>2, <2>3, <2>4
<1>2. IInv /\ [Next]_vars /\ TypeOK' => IInv'
  BY RowsAreStampedStep, CountsInWindowStep, SeenRunsAreBehindStep,
     StartsAtAnEndStep, SettledRowsAreCountedStep, ResultsMatchRowsStep,
     WindowsLeaveNoGapStep, SerialRunsSeeAllStep DEF IInv
<1>3. Init /\ TypeOK => IInv
  BY <1>1 DEF IInv
<1> QED BY <1>2, <1>3, TypeCorrect, PTL DEF Spec

\* A run never counts a row again that a run committed before it read its window
\* start has counted (run_drift_check), however many sessions run checks.
THEOREM CountsAnew == Spec => []LaterRunsCountAnew
<1>1. IInv => LaterRunsCountAnew
  <2> SUFFICES ASSUME IInv, NEW r \in Committed, NEW q \in seen[r],
                      NEW o \in counted[q] \cap counted[r]
               PROVE  FALSE
    BY DEF LaterRunsCountAnew
  <2>1. q \in Runs /\ r \in Runs /\ o \in Rows
    BY DEF IInv, TypeOK, Committed
  <2>2. ingestedAt[o] <= windowEnd[q] /\ windowStart[r] < ingestedAt[o]
    BY <2>1 DEF IInv, CountsInWindow, InWindow
  <2>3. windowEnd[q] <= windowStart[r]
    BY <2>1 DEF IInv, SeenRunsAreBehind
  <2> QED BY <2>1, <2>2, <2>3 DEF IInv, TypeOK
<1> QED BY <1>1, Invariance, PTL

\* The windows of the committed runs leave no gap up to the last end
\* (_resolve_window_start), with aborted, concurrent and overtaken runs.
THEOREM NoGap == Spec => []WindowsLeaveNoGap
<1>1. IInv => WindowsLeaveNoGap
  BY DEF IInv
<1> QED BY <1>1, Invariance, PTL

\* A visible row behind the end of a committed run was counted, or came too late
\* for the run whose window holds it: nothing else loses a row (run_drift_check).
THEOREM OnlyLateRowsAreLost == Spec => []UncountedRowsWereLate
<1>1. IInv => UncountedRowsWereLate
  <2> SUFFICES ASSUME IInv, NEW r \in Committed, NEW o \in CommittedRows,
                      ingestedAt[o] <= windowEnd[r]
               PROVE  \E q \in Committed : /\ InWindow(o, q)
                                           /\ o \in counted[q] \/ o \notin settled[q]
    BY DEF UncountedRowsWereLate
  <2>1. o \in Rows /\ r \in Runs /\ FeatureOf[o] \in Features
    BY RowsAssumption DEF CommittedRows, Committed
  <2>2. ingestedAt[o] > CreatedAt
    BY <2>1 DEF IInv, RowsAreStamped, CommittedRows
  <2>3. ingestedAt[o] \in (CreatedAt + 1)..windowEnd[r]
    BY <2>1, <2>2, TimesAssumption DEF IInv, TypeOK
  <2>4. PICK q \in Committed : InWindow(o, q)
    BY <2>3 DEF IInv, WindowsLeaveNoGap, InWindow
  <2>5. o \in settled[q] => o \in counted[q]
    BY <2>4 DEF IInv, SettledRowsAreCounted, Working, Committed
  <2> QED BY <2>4, <2>5
<1> QED BY <1>1, Invariance, PTL

\* Runs made one at a time count every row at most once, whatever window ends they
\* are given (the promise of drift_service.py).
THEOREM SerialRunsCountOnce == Serial => (Spec => []NoDoubleCount)
<1>1. Serial /\ IInv /\ LaterRunsCountAnew => NoDoubleCount
  BY DEF IInv, SerialRunsSeeAll, LaterRunsCountAnew, NoDoubleCount
<1>2. Serial => (Spec => []Serial)
  <2>1. Serial /\ [Next]_vars => Serial'
    OBVIOUS
  <2> QED BY <2>1, PTL DEF Spec
<1> QED BY <1>1, <1>2, Invariance, CountsAnew, PTL

\* The report of a committed run agrees with the rows it counted: empty without rows,
\* alerts exactly if it is drifted, and only for features with enough usable rows
\* (run_drift_check and the API's answer, which is made of the results alone).
THEOREM ReportsMatch == Spec => []ReportMatchesRows
<1>1. IInv => ReportMatchesRows
  <2> SUFFICES ASSUME IInv, NEW r \in Committed
               PROVE  /\ status[r] = "empty" <=>
                            \A f \in Features : featureStatus[r][f] = "skipped"
                      /\ alerts[r] # {} <=> OverallStatus(r) = "drifted"
                      /\ \A f \in alerts[r] :
                            /\ CountedOf(r, f) # {}
                            /\ Cardinality(CountedOf(r, f) \cap UsableRows) >= MinUsable
    BY DEF ReportMatchesRows, CountedOf
  <2>1. r \in Runs /\ alerts[r] \subseteq Features
    BY DEF IInv, TypeOK, Committed
  <2>2. counted[r] = {} <=> \A f \in Features : CountedOf(r, f) = {}
    BY <2>1, RowsAssumption DEF IInv, TypeOK, CountedOf
  <2>3. status[r] = "empty" <=> counted[r] = {}
    BY DEF IInv, ResultsMatchRows, StatusMatches, Committed
  <2>4. alerts[r] # {} <=> \E f \in Features : featureStatus[r][f] = "drifted"
    BY <2>1 DEF IInv, ResultsMatchRows, ResultMatches
  <2>5. OverallStatus(r) = "drifted" <=> \E f \in Features : featureStatus[r][f] = "drifted"
    BY DEF OverallStatus
  <2>6. \A f \in Features : ResultMatches(r, f)
    BY <2>1 DEF IInv, ResultsMatchRows
  <2> QED BY <2>1, <2>2, <2>3, <2>4, <2>5, <2>6 DEF ResultMatches
<1> QED BY <1>1, Invariance, PTL
=============================================================================
