----------------------------- MODULE MCDriftEngine -----------------------------
(***************************************************************************)
(* Instances of DriftEngine for TLC.                                       *)
(***************************************************************************)
EXTENDS DriftEngine

CONSTANTS us, usBlank, de  \* categories: us with a blank after it is usBlank

MCNumbers == {-1, 0, 1, 3}
MCCategories == {us, usBlank, de}
MCStrip == [c \in MCCategories |-> IF c = usBlank THEN us ELSE c]
=============================================================================
