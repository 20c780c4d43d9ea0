------------------------- MODULE DriftRunsLedgerProofs -------------------------
(***************************************************************************)
(* Drift runs made one at a time implement the ledger of observations, for *)
(* any number of runs, rows, features and requests, with any window ends.  *)
(***************************************************************************)
EXTENDS DriftRunsLedger, DriftRunsProofs

-----------------------------------------------------------------------------
(* The edge.                                                               *)

Ends == {CreatedAt} \cup {windowEnd[r] : r \in Committed}

Largest(S) == CHOOSE e \in S : \A d \in S : d <= e

LEMMA EdgeIsLargest == Edge = Largest(Ends) /\ Edge' = Largest(Ends')
BY DEF Edge, Largest, Ends

\* Runs are committed one by one, so there is a latest end, and they can be counted.
EdgeExists ==
    /\ IsFiniteSet(Committed)
    /\ \E e \in Ends : \A d \in Ends : d <= e

EdgeBounded == Edge \in Ends /\ Edge \in Nat /\ \A d \in Ends : d <= Edge

LEMMA EdgeBounds == TypeOK /\ EdgeExists => EdgeBounded
<1> SUFFICES ASSUME TypeOK, EdgeExists PROVE EdgeBounded
  OBVIOUS
<1>1. Ends \subseteq Nat
  BY TimesAssumption DEF Ends, TypeOK, Committed
<1>2. Largest(Ends) \in Ends /\ \A d \in Ends : d <= Largest(Ends)
  BY DEF EdgeExists, Largest
<1> QED BY <1>1, <1>2, EdgeIsLargest DEF EdgeBounded

\* A step that commits no run changes none of the committed ones.
LEMMA OnlyCommitsCommit ==
    ASSUME TypeOK, [Next]_vars, \A r \in Runs : ~Commit(r)
    PROVE  Committed' = Committed
<1>1. ASSUME NEW r \in Runs, RunStep(r) PROVE Committed' = Committed
  BY <1>1 DEF RunStep, Resolve, TakeWindowEnd, ReadWindowStart, EvaluateFeature,
              Abort, ActiveSteps, Committed, TypeOK
<1>2. CASE UNCHANGED run
  BY <1>2 DEF run, Committed
<1> QED BY <1>1, <1>2, StepKinds

LEMMA CommitEnds ==
    ASSUME TypeOK, NEW r \in Runs, Commit(r)
    PROVE  /\ r \notin Committed /\ Committed' = Committed \cup {r}
           /\ Ends' = Ends \cup {windowEnd[r]}
           /\ UNCHANGED <<windowEnd, counted, data>>
<1>1. /\ r \notin Committed /\ Committed' = Committed \cup {r}
      /\ UNCHANGED <<windowEnd, counted, data>>
  BY DEF Commit, Committed, TypeOK
<1> QED BY <1>1 DEF Ends

LEMMA EdgeExistsStep == TypeOK /\ EdgeExists /\ [Next]_vars => EdgeExists'
<1> SUFFICES ASSUME TypeOK, EdgeExists, [Next]_vars PROVE EdgeExists'
  OBVIOUS
<1>1. ASSUME NEW r \in Runs, Commit(r) PROVE EdgeExists'
  <2>1. Ends \subseteq Nat /\ windowEnd[r] \in Nat
    BY TimesAssumption DEF Ends, TypeOK, Committed
  <2>2. PICK e \in Ends : \A d \in Ends : d <= e
    BY DEF EdgeExists
  <2>3. \E m \in Ends \cup {windowEnd[r]} : \A d \in Ends \cup {windowEnd[r]} : d <= m
    <3>1. CASE windowEnd[r] <= e
      BY <2>1, <2>2, <3>1
    <3>2. CASE ~(windowEnd[r] <= e)
      BY <2>1, <2>2, <3>2
    <3> QED BY <3>1, <3>2
  <2>4. IsFiniteSet(Committed \cup {r})
    BY FS_AddElement DEF EdgeExists
  <2> QED BY <1>1, <2>3, <2>4, CommitEnds DEF EdgeExists
<1>2. CASE \A r \in Runs : ~Commit(r)
  <2>1. Committed' = Committed
    BY <1>2, OnlyCommitsCommit
  <2>2. Ends' = Ends
    BY <2>1, CommittedRunsStay DEF Ends
  <2> QED BY <2>1, <2>2 DEF EdgeExists
<1> QED BY <1>1, <1>2

THEOREM EdgeInvariance == Spec => []EdgeExists
<1>1. Init => EdgeExists
  <2> SUFFICES ASSUME Init PROVE EdgeExists
    OBVIOUS
  <2>1. Committed = {}
    BY DEF Init, Committed
  <2>2. Ends = {CreatedAt}
    BY <2>1 DEF Ends
  <2> QED BY <2>1, <2>2, FS_EmptySet, TimesAssumption DEF EdgeExists
<1> QED BY <1>1, EdgeExistsStep, TypeCorrect, PTL DEF Spec

-----------------------------------------------------------------------------
(* The other variables of the ledger, and its steps.                       *)

Stamp == [o \in Rows |-> IF o \in CommittedRows THEN ingestedAt[o] ELSE 0]
CountedBy(o) == {r \in Committed : o \in counted[r]}
Times == [o \in Rows |-> Cardinality(CountedBy(o))]

LEMMA LedgerVars ==
    UNCHANGED Ledger!vars <=> UNCHANGED <<Edge, CommittedRows, Stamp, Times>>
BY DEF Ledger!vars, Stamp, Times, CountedBy

\* Requests stay invisible up to their commit: what they flush or lose is no step of
\* the ledger.
LEMMA RowsStay ==
    ASSUME TypeOK, RowsAreStamped, [Next]_vars, \A b \in Batches : ~CommitBatch(b)
    PROVE  CommittedRows' = CommittedRows /\ Stamp' = Stamp
<1> USE RowsAssumption DEF TypeOK, CommittedRows, Stamp
<1>1. ASSUME NEW o \in Rows, Flush(o) PROVE CommittedRows' = CommittedRows /\ Stamp' = Stamp
  <2>1. batch' = batch /\ \A p \in Rows : p # o => ingestedAt'[p] = ingestedAt[p]
    BY <1>1 DEF Flush
  <2>2. o \notin CommittedRows
    BY <1>1 DEF Flush
  <2> QED BY <2>1, <2>2
<1>2. ASSUME NEW b \in Batches, AbortBatch(b)
      PROVE  CommittedRows' = CommittedRows /\ Stamp' = Stamp
  <2>1. CommittedRows' = CommittedRows
    BY <1>2 DEF AbortBatch
  <2>2. \A o \in CommittedRows : ingestedAt'[o] = ingestedAt[o]
    BY <1>2 DEF AbortBatch
  <2> HIDE DEF CommittedRows
  <2> QED BY <2>1, <2>2
<1>3. CASE UNCHANGED <<ingestedAt, batch>>
  BY <1>3
<1>4. ASSUME NEW r \in Runs, RunStep(r) PROVE UNCHANGED data
  BY <1>4 DEF RunStep, Resolve, TakeWindowEnd, ReadWindowStart, EvaluateFeature,
              Commit, Abort
<1> QED BY <1>1, <1>2, <1>3, <1>4 DEF Next, Tick, CreateSnapshot, vars, data

\* Nothing a run does before its commit is a step of the ledger.
LEMMA RunsStay ==
    ASSUME TypeOK, [Next]_vars, \A r \in Runs : ~Commit(r)
    PROVE  Edge' = Edge /\ Times' = Times
<1>1. Committed' = Committed
  BY OnlyCommitsCommit
<1>2. Ends' = Ends
  BY <1>1, CommittedRunsStay DEF Ends
<1>3. \A o \in Rows : CountedBy(o)' = CountedBy(o)
  BY <1>1, CommittedRunsStay DEF CountedBy
<1> QED BY <1>2, <1>3, EdgeIsLargest DEF Times

\* The commit of a request lets its rows arrive.
LEMMA CommitBatchArrives ==
    ASSUME TypeOK, TypeOK', RowsAreStamped, NEW b \in Batches, CommitBatch(b), [Next]_vars
    PROVE  Ledger!Next
<1> DEFINE rows == {o \in Rows : BatchOf[o] = b}
<1>1. /\ batch[b] = "open" /\ batch' = [batch EXCEPT ![b] = "committed"]
      /\ UNCHANGED <<ingestedAt, run>>
  BY DEF CommitBatch
<1>2. rows \cap CommittedRows = {} /\ CommittedRows' = CommittedRows \cup rows
  BY <1>1, RowsAssumption DEF CommittedRows, TypeOK
<1>3. Stamp' \in [Rows -> Nat]
  BY DEF Stamp, TypeOK
<1>4. \A o \in Rows \ rows : Stamp'[o] = Stamp[o]
  BY <1>1, <1>2 DEF Stamp
<1>5. Edge' = Edge /\ Times' = Times
  <2>1. \A r \in Runs : ~Commit(r)
    BY <1>1 DEF Commit, data, TypeOK
  <2> QED BY <2>1, RunsStay
<1>6. Ledger!Arrive(rows)
  BY <1>2, <1>3, <1>4, <1>5 DEF Ledger!Arrive, Stamp, Times, CountedBy
<1> QED BY <1>6 DEF Ledger!Next

\* The commit of a run checks the rows it counted: they lie behind every end there was
\* when it read its window start, and since then nothing was committed.
LEMMA CommitChecks ==
    ASSUME Serial, IInv, EdgeBounded, EdgeBounded', EdgeExists, NEW r \in Runs, Commit(r)
    PROVE  Ledger!Next
<1> DEFINE rows == counted[r]
<1>1. /\ r \notin Committed /\ Committed' = Committed \cup {r}
      /\ Ends' = Ends \cup {windowEnd[r]} /\ UNCHANGED <<windowEnd, counted, data>>
  BY CommitEnds DEF IInv
<1>2. /\ Edge \in Ends /\ Edge \in Nat /\ Edge' \in Nat
      /\ \A d \in Ends \cup {windowEnd[r]} : d <= Edge'
  BY <1>1 DEF EdgeBounded
<1>3. seen[r] = Committed /\ pc[r] = "querying"
  BY DEF Commit, IInv, SerialRunsSeeAll
<1>4. ASSUME NEW o \in rows
      PROVE  /\ o \in CommittedRows /\ o \in Rows
             /\ Edge < ingestedAt[o] /\ ingestedAt[o] <= Edge'
  <2>1. /\ o \in Rows /\ o \in CommittedRows
        /\ windowStart[r] < ingestedAt[o] /\ ingestedAt[o] <= windowEnd[r]
        /\ ingestedAt[o] \in Nat /\ windowStart[r] \in Nat /\ windowEnd[r] \in Nat
    BY <1>4 DEF IInv, CountsInWindow, InWindow, TypeOK
  <2>2. CreatedAt < ingestedAt[o]
    BY <2>1, TimesAssumption DEF IInv, RowsAreStamped, CommittedRows
  <2>3. \A q \in Committed : windowEnd[q] <= windowStart[r] /\ windowEnd[q] \in Nat
    BY <1>3 DEF IInv, SeenRunsAreBehind, TypeOK, Committed
  <2>4. \A d \in Ends : d < ingestedAt[o]
    BY <2>1, <2>2, <2>3 DEF Ends
  <2> QED BY <1>2, <2>1, <2>4
<1>5. Times' = [o \in Rows |-> IF o \in rows THEN Times[o] + 1 ELSE Times[o]]
  <2>1. ASSUME NEW o \in Rows
        PROVE  Cardinality(CountedBy(o)') =
                  IF o \in rows THEN Cardinality(CountedBy(o)) + 1 ELSE Cardinality(CountedBy(o))
    <3>1. CountedBy(o)' = IF o \in rows THEN CountedBy(o) \cup {r} ELSE CountedBy(o)
      BY <1>1 DEF CountedBy
    <3>2. CountedBy(o) \subseteq Committed /\ r \notin CountedBy(o)
      BY <1>1 DEF CountedBy
    <3>3. IsFiniteSet(CountedBy(o))
      BY <3>2, FS_Subset DEF EdgeExists
    <3> QED BY <3>1, <3>2, <3>3, FS_AddElement
  <2> QED BY <2>1 DEF Times
<1>6. CommittedRows' = CommittedRows /\ Stamp' = Stamp
  BY <1>1 DEF data, CommittedRows, Stamp
<1>7. rows \subseteq {o \in CommittedRows : Edge < Stamp[o] /\ Stamp[o] <= Edge'}
  BY <1>4 DEF Stamp
<1>8. Edge <= Edge' /\ rows \in SUBSET Rows
  BY <1>2, <1>4
<1>9. Ledger!Check(rows)
  BY <1>2, <1>5, <1>6, <1>7, <1>8 DEF Ledger!Check, Stamp, Times, CountedBy
<1> QED BY <1>8, <1>9 DEF Ledger!Next

-----------------------------------------------------------------------------
(* The theorem.                                                            *)

\* As long as drift checks are made one at a time, all they do between two commits is
\* invisible, and their commits are checks of the ledger: the windowing policy at the
\* top of drift_service.py, with aborted runs, window ends of the past and the future
\* and rows that become visible after their time.
THEOREM SerialRunsKeepTheLedger == Serial => (Spec => RunsKeepTheLedger)
<1>1. Init => Ledger!Init
  <2> SUFFICES ASSUME Init PROVE Ledger!Init
    OBVIOUS
  <2>1. Committed = {} /\ CommittedRows = {}
    BY RowsAssumption DEF Init, Committed, CommittedRows
  <2>2. Edge = CreatedAt
    <3>1. Ends = {CreatedAt}
      BY <2>1 DEF Ends
    <3>2. Largest({CreatedAt}) = CreatedAt
      BY TimesAssumption DEF Largest
    <3> QED BY <3>1, <3>2, EdgeIsLargest
  <2>3. Stamp = [o \in Rows |-> 0]
    BY <2>1 DEF Stamp
  <2>4. Times = [o \in Rows |-> 0]
    <3>1. \A o \in Rows : CountedBy(o) = {}
      BY <2>1 DEF CountedBy
    <3> QED BY <3>1, FS_EmptySet DEF Times
  <2> QED BY <2>1, <2>2, <2>3, <2>4 DEF Ledger!Init, Stamp, Times, CountedBy
<1>2. IInv /\ EdgeExists => EdgeBounded
  BY EdgeBounds DEF IInv
<1>3. /\ Serial /\ IInv /\ IInv' /\ EdgeExists /\ EdgeBounded /\ EdgeBounded' /\ [Next]_vars
      => [Ledger!Next]_(Ledger!vars)
  <2> SUFFICES ASSUME Serial, IInv, IInv', EdgeExists, EdgeBounded, EdgeBounded', [Next]_vars
               PROVE  [Ledger!Next]_(Ledger!vars)
    OBVIOUS
  <2>1. CASE \E b \in Batches : CommitBatch(b)
    BY <2>1, CommitBatchArrives DEF IInv
  <2>2. CASE \E r \in Runs : Commit(r)
    BY <2>2, CommitChecks DEF IInv
  <2>3. CASE (\A b \in Batches : ~CommitBatch(b)) /\ (\A r \in Runs : ~Commit(r))
    <3>1. UNCHANGED <<Edge, CommittedRows, Stamp, Times>>
      BY <2>3, RowsStay, RunsStay DEF IInv
    <3> QED BY <3>1, LedgerVars
  <2> QED BY <2>1, <2>2, <2>3
<1>4. Serial => (Spec => []Serial)
  <2>1. Serial /\ [Next]_vars => Serial'
    OBVIOUS
  <2> QED BY <2>1, PTL DEF Spec
<1> QED BY <1>1, <1>2, <1>3, <1>4, Invariance, EdgeInvariance, PTL
        DEF RunsKeepTheLedger, Spec, Ledger!Spec
-----------------------------------------------------------------------------
(* What the ledger is for.                                                 *)

LedgerInv ==
    /\ Edge \in Nat /\ Stamp \in [Rows -> Nat] /\ Times \in [Rows -> Nat]
    /\ Ledger!CountedOnce

LEMMA LedgerInvStep == LedgerInv /\ [Ledger!Next]_(Ledger!vars) => LedgerInv'
<1> SUFFICES ASSUME LedgerInv, [Ledger!Next]_(Ledger!vars) PROVE LedgerInv'
  OBVIOUS
<1> DEFINE Once(times, arrived, stamp, edge) ==
        \A o \in Rows :
            /\ times[o] <= 1
            /\ times[o] = 1 => o \in arrived /\ stamp[o] <= edge
<1>1. Ledger!CountedOnce = Once(Times, CommittedRows, Stamp, Edge)
  BY DEF Ledger!CountedOnce, Times, Stamp, CountedBy
<1>2. Ledger!CountedOnce' = Once(Times', CommittedRows', Stamp', Edge')
  BY DEF Ledger!CountedOnce, Times, Stamp, CountedBy
<1>3. ASSUME NEW rows \in SUBSET Rows, Ledger!Arrive(rows) PROVE LedgerInv'
  <2>1. /\ rows \cap CommittedRows = {} /\ CommittedRows' = CommittedRows \cup rows
        /\ Stamp' \in [Rows -> Nat] /\ Edge' = Edge /\ Times' = Times
        /\ \A o \in Rows \ rows : Stamp'[o] = Stamp[o]
    BY <1>3 DEF Ledger!Arrive, Stamp, Times, CountedBy
  <2> QED BY <1>1, <1>2, <2>1 DEF LedgerInv
<1>4. ASSUME NEW rows \in SUBSET Rows, Ledger!Check(rows) PROVE LedgerInv'
  <2>1. /\ Edge' \in Nat /\ Edge <= Edge'
        /\ rows \subseteq {o \in CommittedRows : Edge < Stamp[o] /\ Stamp[o] <= Edge'}
        /\ Times' = [o \in Rows |-> IF o \in rows THEN Times[o] + 1 ELSE Times[o]]
        /\ CommittedRows' = CommittedRows /\ Stamp' = Stamp
    BY <1>4 DEF Ledger!Check, Stamp, Times, CountedBy
  <2>2. /\ Edge \in Nat /\ Stamp \in [Rows -> Nat] /\ Times \in [Rows -> Nat]
        /\ Once(Times, CommittedRows, Stamp, Edge)
    BY <1>1 DEF LedgerInv
  <2> HIDE DEF Once
  <2>3. Times' \in [Rows -> Nat] /\ Stamp' \in [Rows -> Nat]
    BY <2>1, <2>2
  <2>4. Once(Times', CommittedRows', Stamp', Edge')
    <3> SUFFICES ASSUME NEW o \in Rows
                 PROVE  /\ Times'[o] <= 1
                        /\ Times'[o] = 1 => o \in CommittedRows' /\ Stamp'[o] <= Edge'
      BY DEF Once
    <3>1. /\ Times[o] \in Nat /\ Stamp[o] \in Nat /\ Times[o] <= 1
          /\ Times[o] = 1 => o \in CommittedRows /\ Stamp[o] <= Edge
      BY <2>2 DEF Once
    <3>2. Times'[o] = IF o \in rows THEN Times[o] + 1 ELSE Times[o]
      BY <2>1
    <3> QED BY <2>1, <2>2, <3>1, <3>2
  <2> QED BY <1>2, <2>1, <2>3, <2>4 DEF LedgerInv
<1>5. CASE UNCHANGED Ledger!vars
  <2>1. UNCHANGED <<Edge, CommittedRows, Stamp, Times>>
    BY <1>5 DEF Ledger!vars, Stamp, Times, CountedBy
  <2> QED BY <1>1, <1>2, <2>1 DEF LedgerInv
<1> QED BY <1>3, <1>4, <1>5 DEF Ledger!Next

\* The promise at the top of drift_service.py (lines 12-13), as the ledger makes it and
\* runs in turn keep it: however late rows become visible and wherever windows end, no
\* row is counted twice, and each counted row lies behind the edge.
THEOREM SerialRunsCountBehindTheEdge == Serial => (Spec => []Ledger!CountedOnce)
<1>1. Ledger!Init => LedgerInv
  BY TimesAssumption DEF Ledger!Init, LedgerInv, Ledger!CountedOnce, Stamp, Times, CountedBy
<1>2. LedgerInv => Ledger!CountedOnce
  BY DEF LedgerInv
<1> QED BY <1>1, <1>2, LedgerInvStep, SerialRunsKeepTheLedger, PTL
        DEF RunsKeepTheLedger, Ledger!Spec
================================================================================
