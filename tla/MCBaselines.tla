------------------------------ MODULE MCBaselines ------------------------------
(***************************************************************************)
(* Instances of Baselines for TLC: neither uploads nor features differ but *)
(* by what they do.                                                        *)
(***************************************************************************)
EXTENDS Baselines, TLC

UploadSymmetry == Permutations(Uploads) \cup Permutations(Features)
=============================================================================
