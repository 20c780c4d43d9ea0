------------------------------ MODULE MCDashboard ------------------------------
(***************************************************************************)
(* Instances of Dashboard for TLC: one user has a model with two versions  *)
(* at first; the other is not there yet, or has a model without a version. *)
(***************************************************************************)
EXTENDS Dashboard, TLC

CONSTANTS u1, u2, k1, k2

MCUsers == {u1, u2}
MCKeys == {k1, k2}

FirstVersions == [m \in Models |-> IF m = <<u1, 1>> THEN 2 ELSE 0]

MCAtFirst ==
    {[keyOf |-> (k1 :> u1) @@ (k2 :> None), models |-> (u1 :> 1) @@ (u2 :> 0),
      versions |-> FirstVersions],
     [keyOf |-> (k1 :> u1) @@ (k2 :> u2), models |-> (u1 :> 1) @@ (u2 :> 1),
      versions |-> FirstVersions]}
=============================================================================
