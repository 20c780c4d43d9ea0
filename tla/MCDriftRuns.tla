----------------------------- MODULE MCDriftRuns -----------------------------
(***************************************************************************)
(* Instances of DriftRuns for TLC: two features, a request that inserts a  *)
(* row of each and a request with one row, runs whose callers may pass any *)
(* window end, before or after the clock.                                  *)
(***************************************************************************)
EXTENDS DriftRunsLedger, TLC

CONSTANTS f1, f2, b1, b2, o1, o2, o3

MCFeatures == {f1, f2}

\* b1 inserts o1 and o2, one of each feature, b2 inserts o3.
MCFeatureOf == [o \in Rows |-> IF o = o2 THEN f2 ELSE f1]
MCBatchOf == [o \in Rows |-> IF o = o3 THEN b2 ELSE b1]

RunSymmetry == Permutations(ManualRuns)
=============================================================================
