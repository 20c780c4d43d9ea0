------------------------------ MODULE BaselineUse ------------------------------
(***************************************************************************)
(* Reference snapshots together with who compares with them: drift checks  *)
(* (app/services/drift_service.py), which read a feature's reference when  *)
(* they come to it, and requests that bring observations                   *)
(* (app/services/ingestion_service.py), which read the categories of all   *)
(* features at once. Both read at READ COMMITTED while uploads go on.      *)
(*                                                                         *)
(* What is compared with the references is left out: a reader ends up with *)
(* whose values it was given for each feature.                             *)
(***************************************************************************)
EXTENDS Baselines

CONSTANTS
    Readers,   \* the calls of run_drift_check and ingest_observations
    Unread     \* the reader has not looked for a reference

ASSUME UnreadAssumption == Unread \notin Uploads \cup {None}

VARIABLES
    at,        \* reader -> the step it is at
    basis,     \* reader -> the snapshot it compares with, or None
    features,  \* reader -> the features its query found
    found,     \* reader -> feature -> whose values it compares with
    knew       \* history: reader -> uploads committed when it looked for the latest
               \* snapshot, none if it was told which snapshot to take

readers == <<at, basis, features, found, knew>>

ReaderSteps == {"idle", "resolved", "reading", "checked", "listed", "ingested", "refused"}

UseTypeOK ==
    /\ at \in [Readers -> ReaderSteps]
    /\ basis \in [Readers -> Sources]
    /\ features \in [Readers -> SUBSET Features]
    /\ found \in [Readers -> [Features -> Sources \cup {Unread}]]
    /\ knew \in [Readers -> SUBSET Uploads]

UseInit ==
    /\ Init
    /\ at = [r \in Readers |-> "idle"]
    /\ basis = [r \in Readers |-> None]
    /\ features = [r \in Readers |-> {}]
    /\ found = [r \in Readers |-> [f \in Features |-> Unread]]
    /\ knew = [r \in Readers |-> {}]

Proceed(r, step) == at' = [at EXCEPT ![r] = step] /\ UNCHANGED vars

\* Mutant: the query has no ORDER BY.
TakeAny(r) ==
    /\ \E s \in Committed : basis' = [basis EXCEPT ![r] = s]
    /\ knew' = [knew EXCEPT ![r] = Committed]

TakeLatest(r) ==
    /\ \E s \in LatestSnapshots : basis' = [basis EXCEPT ![r] = s]
    /\ knew' = [knew EXCEPT ![r] = Committed]

ListsFeatures(r) == features' = [features EXCEPT ![r] = registered]

\* Mutant: the query is not filtered by the feature.
ReferenceValuesOfAll(s, f) == IF s = None THEN None ELSE baseline[s]

\* Whose values a snapshot has for a feature: the rows of the two tables.
ReferenceValues(s, f) == IF s = None THEN None ELSE baseline[s][f]
-----------------------------------------------------------------------------
(* A drift check: the snapshot, the features, one reference after another. *)

\* The latest snapshot, or the one the caller names.
ResolveSnapshot(r) ==
    /\ at[r] = "idle"
    /\ \/ TakeLatest(r) /\ Proceed(r, "resolved")
       \/ /\ \E s \in Committed : basis' = [basis EXCEPT ![r] = s]
          /\ UNCHANGED knew /\ Proceed(r, "resolved")
       \/ Committed = {} /\ Proceed(r, "refused") /\ UNCHANGED <<basis, knew>>
    /\ UNCHANGED <<features, found>>

ListForCheck(r) ==
    /\ at[r] = "resolved"
    /\ ListsFeatures(r)
    /\ Proceed(r, "reading")
    /\ UNCHANGED <<basis, found, knew>>

\* Mutant: each feature is compared with the latest snapshot there is by then.
ReadLatestReference(r, f) ==
    /\ at[r] = "reading" /\ f \in features[r] /\ found[r][f] = Unread
    /\ \E s \in LatestSnapshots :
          found' = [found EXCEPT ![r][f] = ReferenceValues(s, f)]
    /\ Proceed(r, "reading")
    /\ UNCHANGED <<basis, features, knew>>

\* A feature with observations in the window. None: insufficient data.
ReadReference(r, f) ==
    /\ at[r] = "reading" /\ f \in features[r] /\ found[r][f] = Unread
    /\ found' = [found EXCEPT ![r][f] = ReferenceValues(basis[r], f)]
    /\ Proceed(r, "reading")
    /\ UNCHANGED <<basis, features, knew>>

FinishCheck(r) ==
    at[r] = "reading" /\ Proceed(r, "checked") /\ UNCHANGED <<basis, features, found, knew>>
-----------------------------------------------------------------------------
(* A request with observations.                                            *)

ListForIngestion(r) ==
    /\ at[r] = "idle"
    /\ ListsFeatures(r)
    /\ Proceed(r, "listed")
    /\ UNCHANGED <<basis, found, knew>>

\* Its categories are valid or unseen by the categories found; None: all valid.
ReadKnownCategories(r) ==
    /\ at[r] = "listed"
    /\ \/ TakeLatest(r)
       \/ Committed = {} /\ UNCHANGED <<basis, knew>>
    /\ found' = [found EXCEPT ![r] =
          [f \in Features |-> IF f \in features[r] THEN ReferenceValues(basis'[r], f)
                              ELSE Unread]]
    /\ Proceed(r, "ingested")
    /\ UNCHANGED features
-----------------------------------------------------------------------------
ReaderStep(r) ==
    \/ ResolveSnapshot(r) \/ ListForCheck(r) \/ FinishCheck(r)
    \/ \E f \in Features : ReadReference(r, f)
    \/ ListForIngestion(r) \/ ReadKnownCategories(r)

UseNext ==
    \/ Next /\ UNCHANGED readers
    \/ \E r \in Readers : ReaderStep(r)

UseSpec == UseInit /\ [][UseNext]_<<vars, readers>>
-----------------------------------------------------------------------------
\* All references of a check are those of the snapshot its run points to, and stay so
\* whatever is uploaded while it reads and later: its report can be made again
\* (DriftRun.reference_snapshot_id against the query per feature).
ReportsAreReproducible ==
    \A r \in Readers : \A f \in Features :
        found[r][f] # Unread /\ basis[r] # None => found[r][f] = baseline[basis[r]][f]

\* Whoever looks for the latest snapshot finds, for every feature, values no older than
\* those any upload brought that was committed by then, unless uploads overlapped: a
\* feature is left without a verdict only where no values were brought for it
\* (_reference_values_for_feature, _known_categories_by_feature against uploads).
ReadersFindWhatWasBrought ==
    \A r \in Readers : \A f \in Features : \A u \in knew[r] :
        found[r][f] # Unread /\ f \in provides[u] =>
            \/ found[r][f] # None /\ createdAt[u] <= createdAt[found[r][f]]
            \/ \E v \in Committed : /\ createdAt[u] < createdAt[v]
                                    /\ createdAt[v] <= createdAt[basis[r]]
                                    /\ u \notin seen[v]
=============================================================================
