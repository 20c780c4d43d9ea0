--------------------------- MODULE ObservationLedger ---------------------------
(***************************************************************************)
(* What the drift checks of one model version promise about its            *)
(* observations, without sessions, transactions or queries (the windowing  *)
(* policy at the top of app/services/drift_service.py): there is an edge   *)
(* in time, a check moves it forward and counts rows between the old edge  *)
(* and the new one, so that no row is ever counted again.                  *)
(***************************************************************************)
EXTENDS Naturals

CONSTANTS Rows, CreatedAt

VARIABLES
    edge,      \* the end of the latest window
    arrived,   \* the visible rows
    stamp,     \* their times
    times      \* row -> how many checks have counted it

vars == <<edge, arrived, stamp, times>>

Init ==
    /\ edge = CreatedAt
    /\ arrived = {}
    /\ stamp = [o \in Rows |-> 0]
    /\ times = [o \in Rows |-> 0]

\* Rows arrive, perhaps some of them behind the edge.
Arrive(rows) ==
    /\ rows \cap arrived = {}
    /\ arrived' = arrived \cup rows
    /\ stamp' \in [Rows -> Nat]
    /\ \A o \in Rows \ rows : stamp'[o] = stamp[o]
    /\ UNCHANGED <<edge, times>>

\* A check whose window ends behind the edge counts nothing.
Check(rows) ==
    /\ edge' \in Nat
    /\ edge <= edge'
    /\ rows \subseteq {o \in arrived : edge < stamp[o] /\ stamp[o] <= edge'}
    /\ times' = [o \in Rows |-> IF o \in rows THEN times[o] + 1 ELSE times[o]]
    /\ UNCHANGED <<arrived, stamp>>

Next == \E rows \in SUBSET Rows : Arrive(rows) \/ Check(rows)

Spec == Init /\ [][Next]_vars

\* No row is counted twice, because a counted row is behind the edge.
CountedOnce ==
    \A o \in Rows :
        /\ times[o] <= 1
        /\ times[o] = 1 => o \in arrived /\ stamp[o] <= edge
=============================================================================
