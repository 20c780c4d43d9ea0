--------------------------- MODULE BaselineUseProofs ---------------------------
(***************************************************************************)
(* What drift checks and requests with observations find in the reference  *)
(* snapshots, for any number of them and of concurrent uploads. The        *)
(* readers leave the uploads alone, so what BaselinesProofs says of the    *)
(* snapshots carries over.                                                 *)
(***************************************************************************)
EXTENDS BaselineUse, BaselinesProofs

\* A step of a reader changes no snapshot.
LEMMA UseStepIsStep == [UseNext]_<<vars, readers>> => [Next]_vars
<1>1. ASSUME NEW r \in Readers, ReaderStep(r) PROVE UNCHANGED vars
  BY <1>1 DEF ReaderStep, ResolveSnapshot, ListForCheck, FinishCheck, ReadReference,
              ListForIngestion, ReadKnownCategories, Proceed
<1> QED BY <1>1 DEF UseNext

\* With readers around, the snapshots behave as specified without them: run_drift_check
\* and ingest_observations only read what create_reference_snapshot writes.
THEOREM ReadersLeaveSnapshotsAlone == UseSpec => Spec
<1>1. UseInit => Init
  BY DEF UseInit
<1> QED BY <1>1, UseStepIsStep, PTL DEF UseSpec, Spec

-----------------------------------------------------------------------------
(* Types.                                                                  *)

LEMMA UseTypeStep == TypeOK /\ UseTypeOK /\ [UseNext]_<<vars, readers>> => UseTypeOK'
<1> SUFFICES ASSUME TypeOK, UseTypeOK, [UseNext]_<<vars, readers>> PROVE UseTypeOK'
  OBVIOUS
<1> USE DEF UseTypeOK, ReaderSteps, Proceed
<1>a. Committed \subseteq Uploads /\ LatestSnapshots \subseteq Sources
      /\ Committed \subseteq Sources
  BY DEF Committed, LatestSnapshots, Sources
<1>b. \A s \in Sources : \A f \in Features : ReferenceValues(s, f) \in Sources
  BY DEF ReferenceValues, TypeOK, Sources
<1>c. registered \in SUBSET Features
  BY DEF TypeOK
<1>1. ASSUME NEW r \in Readers, ResolveSnapshot(r) PROVE UseTypeOK'
  BY <1>1, <1>a DEF ResolveSnapshot, TakeLatest
<1>2. ASSUME NEW r \in Readers, ListForCheck(r) PROVE UseTypeOK'
  BY <1>2, <1>c DEF ListForCheck, ListsFeatures
<1>3. ASSUME NEW r \in Readers, FinishCheck(r) PROVE UseTypeOK'
  BY <1>3 DEF FinishCheck
<1>4. ASSUME NEW r \in Readers, NEW f \in Features, ReadReference(r, f) PROVE UseTypeOK'
  <2>1. ReferenceValues(basis[r], f) \in Sources
    BY <1>b
  <2> QED BY <1>4, <2>1 DEF ReadReference
<1>5. ASSUME NEW r \in Readers, ListForIngestion(r) PROVE UseTypeOK'
  BY <1>5, <1>c DEF ListForIngestion, ListsFeatures
<1>6. ASSUME NEW r \in Readers, ReadKnownCategories(r) PROVE UseTypeOK'
  <2>1. basis' \in [Readers -> Sources] /\ knew' \in [Readers -> SUBSET Uploads]
    BY <1>6, <1>a DEF ReadKnownCategories, TakeLatest
  <2>2. [f \in Features |-> IF f \in features[r] THEN ReferenceValues(basis'[r], f)
                            ELSE Unread] \in [Features -> Sources \cup {Unread}]
    <3>1. basis'[r] \in Sources
      BY <2>1
    <3> HIDE DEF UseTypeOK
    <3>2. \A f \in Features : ReferenceValues(basis'[r], f) \in Sources
      BY <3>1, <1>b
    <3> QED BY <3>2
  <2>3. found' \in [Readers -> [Features -> Sources \cup {Unread}]]
    BY <1>6, <2>2 DEF ReadKnownCategories
  <2> QED BY <1>6, <2>1, <2>3 DEF ReadKnownCategories
<1>7. CASE UNCHANGED readers
  BY <1>7 DEF readers
<1> QED BY <1>1, <1>2, <1>3, <1>4, <1>5, <1>6, <1>7 DEF UseNext, ReaderStep

\* A reader compares with nothing but values of uploads, or with none.
THEOREM UseTypeCorrect == UseSpec => []UseTypeOK
<1>1. UseInit => UseTypeOK
  BY DEF UseInit, UseTypeOK, ReaderSteps, Sources
<1>2. UseSpec => []TypeOK
  BY ReadersLeaveSnapshotsAlone, TypeCorrect, PTL
<1> QED BY <1>1, <1>2, UseTypeStep, PTL DEF UseSpec

-----------------------------------------------------------------------------
(* The inductive invariant.                                                *)

\* A reader compares with a committed snapshot. It has none before it looks, or when
\* there is none; then it does not count as one that looked for the latest.
BasisIsCommitted(r) ==
    \/ basis[r] \in Committed /\ at[r] \notin {"idle", "listed", "refused"}
    \/ basis[r] = None /\ knew[r] = {} /\ at[r] \notin {"resolved", "reading", "checked"}

\* What was committed when a reader looked is committed, and no later than what it took.
LatestWasTaken(r) ==
    \A u \in knew[r] : u \in Committed /\ createdAt[u] <= createdAt[basis[r]]

\* A reader reads nothing before it has a snapshot, and then what is in that snapshot.
FoundInBasis(r) ==
    \A f \in Features : found[r][f] # Unread =>
        /\ at[r] \in {"reading", "checked", "ingested"}
        /\ found[r][f] = ReferenceValues(basis[r], f)

ReaderInv(r) == BasisIsCommitted(r) /\ LatestWasTaken(r) /\ FoundInBasis(r)

UseInv == IInv /\ UseTypeOK /\ \A r \in Readers : ReaderInv(r)

LEMMA UseInitEstablishes == UseInit => UseInv
<1> SUFFICES ASSUME UseInit PROVE UseInv
  OBVIOUS
<1>1. IInv
  BY InitEstablishes DEF UseInit
<1>2. UseTypeOK
  BY DEF UseInit, UseTypeOK, ReaderSteps, Sources
<1>3. ASSUME NEW r \in Readers PROVE ReaderInv(r)
  BY DEF UseInit, ReaderInv, BasisIsCommitted, LatestWasTaken, FoundInBasis
<1> QED BY <1>1, <1>2, <1>3 DEF UseInv

\* Committed snapshots stay as they are, whoever takes a step.
LEMMA SnapshotsStay ==
    ASSUME IInv, [Next]_vars
    PROVE  \A s \in Committed : s \in Committed' /\ UNCHANGED <<createdAt[s], baseline[s]>>
<1>1. ASSUME NEW u \in Uploads, UploadStep(u)
      PROVE  /\ Committed \subseteq Committed' /\ u \notin Committed
             /\ \A v \in Uploads \ {u} : UNCHANGED <<createdAt[v], baseline[v]>>
  BY <1>1, OwnFrame DEF IInv
<1>2. CASE UNCHANGED <<pc, createdAt, baseline>>
  BY <1>2 DEF Committed
<1>3. Committed \subseteq Uploads
  BY DEF Committed
<1> QED BY <1>1, <1>2, <1>3 DEF Next, CreateFeature, vars

\* What is true of a reader that does nothing stays true while uploads go on.
LEMMA WaitingReader ==
    ASSUME UseInv, [Next]_vars, NEW r \in Readers,
           UNCHANGED <<at[r], basis[r], found[r], knew[r]>>
    PROVE  ReaderInv(r)'
<1>1. ReaderInv(r) /\ None \notin Committed
  BY NoneAssumption DEF UseInv, Committed
<1>2. \A s \in Committed : s \in Committed' /\ UNCHANGED <<createdAt[s], baseline[s]>>
  BY SnapshotsStay DEF UseInv
<1>3. BasisIsCommitted(r)'
  BY <1>1, <1>2 DEF ReaderInv, BasisIsCommitted
<1>4. LatestWasTaken(r)'
  BY <1>1, <1>2 DEF ReaderInv, BasisIsCommitted, LatestWasTaken
<1>5. FoundInBasis(r)'
  <2>1. \A f : ReferenceValues(basis[r], f)' = ReferenceValues(basis[r], f)
    BY <1>1, <1>2 DEF ReaderInv, BasisIsCommitted, ReferenceValues
  <2> QED BY <1>1, <2>1 DEF ReaderInv, FoundInBasis
<1> QED BY <1>3, <1>4, <1>5 DEF ReaderInv

\* The snapshot a reader takes as the latest is no older than any it could see.
LEMMA LatestIsTaken ==
    ASSUME UseInv, NEW r \in Readers, TakeLatest(r), UNCHANGED vars
    PROVE  basis'[r] \in Committed /\ LatestWasTaken(r)'
<1>1. PICK s \in LatestSnapshots : basis'[r] = s
  BY DEF UseInv, UseTypeOK, TakeLatest
<1>2. knew'[r] = Committed
  BY DEF UseInv, UseTypeOK, TakeLatest
<1>3. s \in Committed /\ \A u \in Committed : createdAt[u] <= createdAt[s]
  BY DEF LatestSnapshots
<1> QED BY <1>1, <1>2, <1>3 DEF LatestWasTaken, vars, Committed

LEMMA ReaderStepKeeps ==
    ASSUME UseInv, NEW r \in Readers, ReaderStep(r)
    PROVE  ReaderInv(r)'
<1>a. /\ UNCHANGED vars /\ Committed' = Committed
      /\ BasisIsCommitted(r) /\ LatestWasTaken(r) /\ FoundInBasis(r)
      /\ None \notin Committed
  BY NoneAssumption DEF ReaderStep, ResolveSnapshot, ListForCheck, FinishCheck,
     ReadReference, ListForIngestion, ReadKnownCategories, Proceed, vars, Committed,
     UseInv, ReaderInv
<1>b. \A s, f : ReferenceValues(s, f)' = ReferenceValues(s, f)
  BY <1>a DEF ReferenceValues, vars
<1> USE DEF UseInv, UseTypeOK, ReaderSteps, Proceed
<1>1. CASE ResolveSnapshot(r)
  <2>1. /\ at[r] = "idle" /\ at'[r] \in {"resolved", "refused"} /\ UNCHANGED found
        /\ basis[r] = None /\ knew[r] = {}
    BY <1>1, <1>a DEF ResolveSnapshot, BasisIsCommitted
  <2>2. FoundInBasis(r)'
    BY <1>a, <2>1 DEF FoundInBasis
  <2>3. CASE TakeLatest(r) /\ Proceed(r, "resolved")
    BY <1>a, <2>2, <2>3, LatestIsTaken DEF ReaderInv, BasisIsCommitted
  <2>4. CASE /\ \E s \in Committed : basis' = [basis EXCEPT ![r] = s]
             /\ UNCHANGED knew /\ Proceed(r, "resolved")
    BY <1>a, <2>1, <2>2, <2>4 DEF ReaderInv, BasisIsCommitted, LatestWasTaken
  <2>5. CASE Committed = {} /\ Proceed(r, "refused") /\ UNCHANGED <<basis, knew>>
    BY <1>a, <2>1, <2>2, <2>5 DEF ReaderInv, BasisIsCommitted, LatestWasTaken
  <2> QED BY <1>1, <2>3, <2>4, <2>5 DEF ResolveSnapshot
<1>2. CASE ListForCheck(r) \/ FinishCheck(r) \/ ListForIngestion(r)
  <2>1. /\ UNCHANGED <<basis, found, knew>>
        /\ \/ at[r] = "resolved" /\ at'[r] = "reading"
           \/ at[r] = "reading" /\ at'[r] = "checked"
           \/ at[r] = "idle" /\ at'[r] = "listed"
    BY <1>2 DEF ListForCheck, FinishCheck, ListForIngestion
  <2> QED BY <1>a, <1>b, <2>1
          DEF ReaderInv, BasisIsCommitted, LatestWasTaken, FoundInBasis, vars
<1>3. ASSUME NEW f \in Features, ReadReference(r, f) PROVE ReaderInv(r)'
  <2>1. /\ UNCHANGED <<basis, knew>> /\ at[r] = "reading" /\ at'[r] = "reading"
        /\ found' = [found EXCEPT ![r][f] = ReferenceValues(basis[r], f)]
    BY <1>3 DEF ReadReference
  <2>2. FoundInBasis(r)'
    BY <1>a, <1>b, <2>1 DEF FoundInBasis
  <2> QED BY <1>a, <2>1, <2>2 DEF ReaderInv, BasisIsCommitted, LatestWasTaken, vars
<1>4. CASE ReadKnownCategories(r)
  <2>1. /\ at[r] = "listed" /\ at'[r] = "ingested" /\ basis[r] = None /\ knew[r] = {}
        /\ \A f \in Features : found'[r][f] # Unread =>
              found'[r][f] = ReferenceValues(basis'[r], f)
    BY <1>4, <1>a DEF ReadKnownCategories, BasisIsCommitted
  <2>2. FoundInBasis(r)'
    BY <1>b, <2>1, <1>a DEF FoundInBasis, ReferenceValues, vars
  <2>3. CASE TakeLatest(r)
    BY <1>a, <2>1, <2>2, <2>3, LatestIsTaken DEF ReaderInv, BasisIsCommitted
  <2>4. CASE Committed = {} /\ UNCHANGED <<basis, knew>>
    BY <1>a, <2>1, <2>2, <2>4 DEF ReaderInv, BasisIsCommitted, LatestWasTaken
  <2> QED BY <1>4, <2>3, <2>4 DEF ReadKnownCategories
<1> QED BY <1>1, <1>2, <1>3, <1>4 DEF ReaderStep

LEMMA OtherReaders ==
    ASSUME UseTypeOK, NEW r \in Readers, ReaderStep(r)
    PROVE  \A q \in Readers \ {r} : UNCHANGED <<at[q], basis[q], found[q], knew[q]>>
<1> USE DEF UseTypeOK, Proceed, TakeLatest
<1>1. CASE ResolveSnapshot(r)
  BY <1>1 DEF ResolveSnapshot
<1>2. CASE ListForCheck(r) \/ FinishCheck(r) \/ ListForIngestion(r)
  BY <1>2 DEF ListForCheck, FinishCheck, ListForIngestion
<1>3. CASE \E f \in Features : ReadReference(r, f)
  BY <1>3 DEF ReadReference
<1>4. CASE ReadKnownCategories(r)
  BY <1>4 DEF ReadKnownCategories
<1> QED BY <1>1, <1>2, <1>3, <1>4 DEF ReaderStep

LEMMA UseInvStep == UseInv /\ [UseNext]_<<vars, readers>> => UseInv'
<1> SUFFICES ASSUME UseInv, [UseNext]_<<vars, readers>> PROVE UseInv'
  OBVIOUS
<1>a. [Next]_vars
  BY UseStepIsStep
<1>1. IInv' /\ UseTypeOK'
  BY <1>a, InvStep, UseTypeStep DEF UseInv, IInv
<1>2. CASE UNCHANGED readers
  BY <1>a, <1>2, WaitingReader, <1>1 DEF readers, UseInv
<1>3. ASSUME NEW r \in Readers, ReaderStep(r) PROVE UseInv'
  BY <1>a, <1>1, <1>3, OtherReaders, WaitingReader, ReaderStepKeeps DEF UseInv
<1> QED BY <1>2, <1>3 DEF UseNext

\* A reader holds on to one committed snapshot, the latest it could see when it looked
\* for one, and has of it what it has read.
THEOREM UseInvariance == UseSpec => []UseInv
BY UseInitEstablishes, UseInvStep, PTL DEF UseSpec

-----------------------------------------------------------------------------
(* The theorems.                                                           *)

\* However many uploads are committed while a drift check reads one feature after the
\* other, and after: all it compared with is in the snapshot its run names.
THEOREM ReportsReproducible == UseSpec => []ReportsAreReproducible
<1>1. UseInv => ReportsAreReproducible
  BY DEF UseInv, ReaderInv, FoundInBasis, ReferenceValues, ReportsAreReproducible
<1> QED BY <1>1, UseInvariance, PTL

\* A drift check or a request that looks for the latest snapshot finds for every
\* feature what was last brought for it, unless uploads overlapped.
THEOREM ReadersFind == UseSpec => []ReadersFindWhatWasBrought
<1>1. UseInv /\ OnlyOverlapsLoseBaselines => ReadersFindWhatWasBrought
  <2> SUFFICES ASSUME UseInv, OnlyOverlapsLoseBaselines,
                      NEW r \in Readers, NEW f \in Features, NEW u \in knew[r],
                      found[r][f] # Unread, f \in provides[u]
               PROVE  \/ found[r][f] # None /\ createdAt[u] <= createdAt[found[r][f]]
                      \/ \E v \in Committed : /\ createdAt[u] < createdAt[v]
                                              /\ createdAt[v] <= createdAt[basis[r]]
                                              /\ u \notin seen[v]
    BY DEF ReadersFindWhatWasBrought
  <2>1. /\ basis[r] \in Committed /\ basis[r] # None /\ u \in Committed
        /\ createdAt[u] <= createdAt[basis[r]]
        /\ found[r][f] = ReferenceValues(basis[r], f)
    BY NoneAssumption DEF UseInv, ReaderInv, BasisIsCommitted, LatestWasTaken, FoundInBasis,
       Committed
  <2>2. found[r][f] = baseline[basis[r]][f]
    BY <2>1 DEF ReferenceValues
  <2> QED BY <2>1, <2>2 DEF OnlyOverlapsLoseBaselines, Holds
<1>2. UseSpec => []OnlyOverlapsLoseBaselines
  BY ReadersLeaveSnapshotsAlone, LostOnlyByOverlap, PTL
<1> QED BY <1>1, <1>2, UseInvariance, PTL

\* A reader that finds no values for a feature is right that nothing was brought for it
\* by an upload it could see, if the uploads were made in turn: "insufficient data"
\* is then never an answer about a feature with a reference.
THEOREM NothingFoundNothingBrought ==
    UseSpec => [](InTurn => \A r \in Readers : \A f \in Features :
                     found[r][f] = None => \A u \in knew[r] : f \notin provides[u])
<1>1. /\ UseInv /\ ReadersFindWhatWasBrought /\ InTurn
      => \A r \in Readers : \A f \in Features :
            found[r][f] = None => \A u \in knew[r] : f \notin provides[u]
  BY UnreadAssumption DEF UseInv, ReaderInv, LatestWasTaken, ReadersFindWhatWasBrought,
     InTurn
<1> QED BY <1>1, UseInvariance, ReadersFind, PTL
================================================================================
