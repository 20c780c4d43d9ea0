--------------------------- MODULE MCMonitoringJobs ---------------------------
(***************************************************************************)
(* Instances of MonitoringJobs for TLC.                                    *)
(***************************************************************************)
EXTENDS MonitoringJobs, TLC

\* Jobs and workers are interchangeable: Init and Next single none out.
JobSymmetry == Permutations(Jobs) \cup Permutations(Workers)
=============================================================================
