------------------------------- MODULE Baselines -------------------------------
(***************************************************************************)
(* Reference snapshots of one model version                                *)
(* (app/services/reference_service.py).                                    *)
(*                                                                         *)
(* An upload brings values for some features; create_reference_snapshot    *)
(* makes a new snapshot of them and copies the other features forward from *)
(* the latest snapshot it finds. Uploads run in processes of their own, in *)
(* one transaction each, without a lock, at READ COMMITTED. A snapshot's   *)
(* created_at is the time of its flush, not of its commit.                 *)
(*                                                                         *)
(* What an upload brings for a feature is named after the upload, and the  *)
(* snapshot it makes is too. No two flushes happen in one microsecond.     *)
(***************************************************************************)
EXTENDS Naturals

CONSTANTS
    Uploads,   \* the calls of create_reference_snapshot
    Features,  \* the features the version may get
    None       \* no upload: no snapshot to copy from, no data for a feature

ASSUME NoneAssumption == None \notin Uploads

VARIABLES
    clock,       \* counts the flushes of snapshots
    registered,  \* the features with a committed row
    pc,          \* upload -> the step it is at
    provides,    \* upload -> the features it brings values for
    listed,      \* upload -> the features its query found
    previous,    \* upload -> the snapshot it copies from, or None
    createdAt,   \* upload -> created_at of its snapshot
    baseline,    \* upload -> feature -> whose values its snapshot holds
    seen         \* history: upload -> uploads committed when it began

vars == <<clock, registered, pc, provides, listed, previous, createdAt, baseline, seen>>

Steps == {"idle", "listed", "chosen", "flushed", "written", "committed", "aborted"}
Active(u) == pc[u] \in {"listed", "chosen", "flushed", "written"}
Committed == {u \in Uploads : pc[u] = "committed"}
Sources == Uploads \cup {None}
NoData == [f \in Features |-> None]

TypeOK ==
    /\ clock \in Nat
    /\ registered \subseteq Features
    /\ pc \in [Uploads -> Steps]
    /\ provides \in [Uploads -> SUBSET Features]
    /\ listed \in [Uploads -> SUBSET Features]
    /\ previous \in [Uploads -> Sources]
    /\ createdAt \in [Uploads -> Nat]
    /\ baseline \in [Uploads -> [Features -> Sources]]
    /\ seen \in [Uploads -> SUBSET Uploads]

Init ==
    /\ clock = 0
    /\ registered = {}
    /\ pc = [u \in Uploads |-> "idle"]
    /\ provides = [u \in Uploads |-> {}]
    /\ listed = [u \in Uploads |-> {}]
    /\ previous = [u \in Uploads |-> None]
    /\ createdAt = [u \in Uploads |-> 0]
    /\ baseline = [u \in Uploads |-> NoData]
    /\ seen = [u \in Uploads |-> {}]

Goto(u, step) == pc' = [pc EXCEPT ![u] = step]

\* create_feature and its commit.
CreateFeature(f) ==
    /\ f \notin registered
    /\ registered' = registered \cup {f}
    /\ UNCHANGED <<clock, pc, provides, listed, previous, createdAt, baseline, seen>>

\* Lists the version's features and checks the upload against them: one that
\* names an unknown feature or brings values of the wrong type is refused.
ListFeatures(u) ==
    /\ pc[u] = "idle"
    /\ \E fs \in SUBSET Features :
          \/ /\ fs \subseteq registered
             /\ provides' = [provides EXCEPT ![u] = fs]
             /\ listed' = [listed EXCEPT ![u] = registered]
             /\ seen' = [seen EXCEPT ![u] = Committed]
             /\ Goto(u, "listed")
          \/ /\ fs # {}
             /\ Goto(u, "aborted")
             /\ UNCHANGED <<provides, listed, seen>>
    /\ UNCHANGED <<clock, registered, previous, createdAt, baseline>>

\* Mutant: the query finds snapshots that are not committed.
LatestSnapshotsOfAll ==
    LET made == {u \in Uploads : pc[u] \in {"written", "committed"}}
    IN  {u \in made : \A v \in made : createdAt[v] <= createdAt[u]}

\* Mutant: the query asks for the first snapshot.
LatestSnapshotsAscending ==
    {u \in Committed : \A v \in Committed : createdAt[u] <= createdAt[v]}

\* ORDER BY created_at DESC, the first.
LatestSnapshots ==
    {u \in Committed : \A v \in Committed : createdAt[v] <= createdAt[u]}

ChoosePrevious(u) ==
    /\ pc[u] = "listed"
    /\ \/ \E p \in LatestSnapshots : previous' = [previous EXCEPT ![u] = p]
       \/ /\ Committed = {}
          /\ UNCHANGED previous
    /\ Goto(u, "chosen")
    /\ UNCHANGED <<clock, registered, provides, listed, createdAt, baseline, seen>>

FlushSnapshot(u) ==
    /\ pc[u] = "chosen"
    /\ createdAt' = [createdAt EXCEPT ![u] = clock + 1]
    /\ clock' = clock + 1
    /\ Goto(u, "flushed")
    /\ UNCHANGED <<registered, provides, listed, previous, baseline, seen>>

\* Mutant: the rows are not filtered by the feature.
CopiedOfAllFeatures(u, f) ==
    IF previous[u] = None THEN None ELSE baseline[previous[u]]

\* What _copy_forward_feature_data finds for a feature.
Copied(u, f) == IF previous[u] = None THEN None ELSE baseline[previous[u]][f]

\* The loop over the features. Nobody sees its rows before the commit, and what
\* it copies is committed and never changes: it is one step.
WriteFeatures(u) ==
    /\ pc[u] = "flushed"
    /\ baseline' = [baseline EXCEPT ![u] =
          [f \in Features |-> IF f \in provides[u] THEN u
                              ELSE IF f \in listed[u] THEN Copied(u, f)
                              ELSE None]]
    /\ Goto(u, "written")
    /\ UNCHANGED <<clock, registered, provides, listed, previous, createdAt, seen>>

Commit(u) ==
    /\ pc[u] = "written"
    /\ Goto(u, "committed")
    /\ UNCHANGED <<clock, registered, provides, listed, previous, createdAt, baseline,
                   seen>>

\* An empty list of values for a feature, another error or a crash: rollback.
Abort(u) ==
    /\ Active(u)
    /\ Goto(u, "aborted")
    /\ provides' = [provides EXCEPT ![u] = {}]
    /\ listed' = [listed EXCEPT ![u] = {}]
    /\ previous' = [previous EXCEPT ![u] = None]
    /\ createdAt' = [createdAt EXCEPT ![u] = 0]
    /\ baseline' = [baseline EXCEPT ![u] = NoData]
    /\ seen' = [seen EXCEPT ![u] = {}]
    /\ UNCHANGED <<clock, registered>>

UploadStep(u) ==
    \/ ListFeatures(u) \/ ChoosePrevious(u) \/ FlushSnapshot(u)
    \/ WriteFeatures(u) \/ Commit(u) \/ Abort(u)

Next ==
    \/ \E f \in Features : CreateFeature(f)
    \/ \E u \in Uploads : UploadStep(u)

Spec == Init /\ [][Next]_vars
-----------------------------------------------------------------------------
(* Properties.                                                             *)

\* What a snapshot holds for a feature was brought for it by an upload that is
\* committed and no later than the snapshot, however long the chain of copies
\* and whatever was rolled back on the way (create_reference_snapshot).
BaselinesComeFromUploads ==
    \A s \in Committed : \A f \in Features :
        LET w == baseline[s][f]
        IN  w # None => /\ w \in Committed
                        /\ f \in provides[w]
                        /\ createdAt[w] <= createdAt[s]

\* s holds what u brought for f, or what a later upload brought.
Holds(s, u, f) ==
    baseline[s][f] # None /\ createdAt[u] <= createdAt[baseline[s][f]]

\* A snapshot without the values an earlier one was uploaded with, or later ones,
\* owes this to an upload in between that began before the earlier one was
\* committed: only uploads that overlap lose a baseline (copy-forward against the
\* order of the flushes and that of the commits).
OnlyOverlapsLoseBaselines ==
    \A s, u \in Committed : \A f \in provides[u] :
        createdAt[u] <= createdAt[s] =>
            \/ Holds(s, u, f)
            \/ \E v \in Committed : /\ createdAt[u] < createdAt[v]
                                    /\ createdAt[v] <= createdAt[s]
                                    /\ u \notin seen[v]

\* The latest snapshot holds, for every feature, what its last upload brought:
\* the complete baseline reference_service.py promises.
LatestBaselineIsComplete ==
    \A s \in LatestSnapshots : \A u \in Committed : \A f \in provides[u] : Holds(s, u, f)
=============================================================================
