--------------------------- MODULE DriftRunsLedger ---------------------------
(***************************************************************************)
(* Runs made one at a time implement the ledger of observations, with all  *)
(* they do between two commits: aborts, window ends of the past and the    *)
(* future, rows that are stamped before a run and committed during it.     *)
(***************************************************************************)
EXTENDS DriftRuns

\* The end of the latest window, or created_at while every end is before it.
Edge ==
    LET ends == {CreatedAt} \cup {windowEnd[r] : r \in Committed}
    IN  CHOOSE e \in ends : \A d \in ends : d <= e

Ledger == INSTANCE ObservationLedger WITH
    edge <- Edge,
    arrived <- CommittedRows,
    stamp <- [o \in Rows |-> IF o \in CommittedRows THEN ingestedAt[o] ELSE 0],
    times <- [o \in Rows |-> Cardinality({r \in Committed : o \in counted[r]})]

\* Each commit of a run moves the edge and counts rows between the old edge and
\* the new one, each commit of a request lets rows arrive, and no other step is
\* visible (run_drift_check as drift_service.py describes it, runs in turn).
RunsKeepTheLedger == Ledger!Spec
=============================================================================
