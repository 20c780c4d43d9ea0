----------------------------- MODULE MCBaselineUse -----------------------------
(***************************************************************************)
(* Instances of BaselineUse for TLC: uploads, features and readers do not  *)
(* differ but by what they do.                                             *)
(***************************************************************************)
EXTENDS BaselineUse, TLC

UploadSymmetry ==
    Permutations(Uploads) \cup Permutations(Features) \cup Permutations(Readers)
=============================================================================
