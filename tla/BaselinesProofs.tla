---------------------------- MODULE BaselinesProofs ----------------------------
(***************************************************************************)
(* What holds of reference snapshots for any number of concurrent uploads  *)
(* and features.                                                           *)
(***************************************************************************)
EXTENDS Baselines, TLAPS

LEMMA TypeStep == TypeOK /\ [Next]_vars => TypeOK'
<1> SUFFICES ASSUME TypeOK, [Next]_vars PROVE TypeOK'
  OBVIOUS
<1> USE DEF TypeOK, Steps, Sources, NoData, Goto
<1>1. ASSUME NEW f \in Features, CreateFeature(f) PROVE TypeOK'
  BY <1>1 DEF CreateFeature
<1>2. ASSUME NEW u \in Uploads, ListFeatures(u) PROVE TypeOK'
  <2>1. Committed \in SUBSET Uploads
    BY DEF Committed
  <2>2. PICK fs \in SUBSET Features :
           \/ /\ provides' = [provides EXCEPT ![u] = fs]
              /\ listed' = [listed EXCEPT ![u] = registered]
              /\ seen' = [seen EXCEPT ![u] = Committed]
              /\ pc' = [pc EXCEPT ![u] = "listed"]
           \/ /\ pc' = [pc EXCEPT ![u] = "aborted"]
              /\ UNCHANGED <<provides, listed, seen>>
    BY <1>2 DEF ListFeatures
  <2>3. UNCHANGED <<clock, registered, previous, createdAt, baseline>>
    BY <1>2 DEF ListFeatures
  <2> QED BY <2>1, <2>2, <2>3
<1>3. ASSUME NEW u \in Uploads, ChoosePrevious(u) PROVE TypeOK'
  BY <1>3 DEF ChoosePrevious, LatestSnapshots, Committed
<1>4. ASSUME NEW u \in Uploads, FlushSnapshot(u) PROVE TypeOK'
  BY <1>4 DEF FlushSnapshot
<1>5. ASSUME NEW u \in Uploads, WriteFeatures(u) PROVE TypeOK'
  <2>1. \A f \in Features : Copied(u, f) \in Uploads \cup {None}
    BY DEF Copied
  <2> QED BY <1>5, <2>1 DEF WriteFeatures
<1>6. ASSUME NEW u \in Uploads, Commit(u) PROVE TypeOK'
  BY <1>6 DEF Commit
<1>7. ASSUME NEW u \in Uploads, Abort(u) PROVE TypeOK'
  BY <1>7 DEF Abort
<1>8. CASE UNCHANGED vars
  BY <1>8 DEF vars
<1> QED BY <1>1, <1>2, <1>3, <1>4, <1>5, <1>6, <1>7, <1>8 DEF Next, UploadStep

\* Every variable keeps to the values its column or variable in the code has.
THEOREM TypeCorrect == Spec => []TypeOK
<1>1. Init => TypeOK
  BY DEF Init, TypeOK, Steps, Sources, NoData
<1> QED BY <1>1, TypeStep, PTL DEF Spec

-----------------------------------------------------------------------------
(* The inductive invariant.                                                *)

Stamped(u) == pc[u] \in {"flushed", "written", "committed"}
Written(u) == pc[u] \in {"written", "committed"}

\* created_at tells the flushed snapshots apart and orders them.
StampsAreDistinct ==
    /\ \A u \in Uploads : Stamped(u) => createdAt[u] <= clock
    /\ \A u, v \in Uploads :
          Stamped(u) /\ Stamped(v) /\ createdAt[u] = createdAt[v] => u = v

\* An upload brings values for listed features, and lists those of the uploads
\* that were committed when it began.
FeaturesAreListed ==
    \A u \in Uploads :
        /\ provides[u] \subseteq listed[u] /\ listed[u] \subseteq registered
        /\ seen[u] \subseteq Committed
        /\ \A w \in seen[u] : provides[w] \subseteq listed[u]

\* An upload copies from a committed snapshot no older than those it has seen, and
\* older than its own.
CopiesTheLatest(u) ==
    /\ previous[u] \in Committed
    /\ \A w \in seen[u] : createdAt[w] <= createdAt[previous[u]]
    /\ Stamped(u) => createdAt[previous[u]] < createdAt[u]

PreviousIsLatest ==
    \A u \in Uploads :
        /\ pc[u] \in {"idle", "listed"} => previous[u] = None
        /\ pc[u] = "chosen" \/ Stamped(u) =>
              \/ previous[u] = None /\ seen[u] = {}
              \/ CopiesTheLatest(u)

\* Every value in a snapshot was brought by its own or a committed upload.
ValuesHaveASource ==
    \A s \in Uploads : Written(s) =>
        \A f \in Features :
            /\ f \in provides[s] => baseline[s][f] = s
            /\ baseline[s][f] # None =>
                  /\ baseline[s][f] \in Committed \cup {s}
                  /\ f \in provides[baseline[s][f]]
                  /\ createdAt[baseline[s][f]] <= createdAt[s]

\* OnlyOverlapsLoseBaselines, of snapshots that are not yet committed too.
OverlapsLoseBaselines ==
    \A s \in Uploads : Written(s) =>
        \A u \in Committed : \A f \in provides[u] :
            createdAt[u] <= createdAt[s] =>
                \/ Holds(s, u, f)
                \/ \E v \in Committed \cup {s} : /\ createdAt[u] < createdAt[v]
                                               /\ createdAt[v] <= createdAt[s]
                                               /\ u \notin seen[v]

IInv ==
    /\ TypeOK
    /\ StampsAreDistinct
    /\ FeaturesAreListed
    /\ PreviousIsLatest
    /\ ValuesHaveASource
    /\ OverlapsLoseBaselines

LEMMA InitEstablishes == Init => IInv
<1> SUFFICES ASSUME Init PROVE IInv
  OBVIOUS
<1> USE DEF Init, Stamped, Written, Committed
<1>1. TypeOK
  BY DEF TypeOK, Steps, Sources, NoData
<1>2. StampsAreDistinct
  BY DEF StampsAreDistinct
<1>3. FeaturesAreListed
  BY DEF FeaturesAreListed
<1>4. PreviousIsLatest
  BY DEF PreviousIsLatest
<1>5. ValuesHaveASource /\ OverlapsLoseBaselines
  BY DEF ValuesHaveASource, OverlapsLoseBaselines
<1> QED BY <1>1, <1>2, <1>3, <1>4, <1>5 DEF IInv

\* A step of an upload touches what belongs to it and nothing else, and a committed
\* upload takes none.
LEMMA OwnFrame ==
    ASSUME TypeOK, NEW u \in Uploads, UploadStep(u)
    PROVE  /\ pc[u] # "committed"
           /\ registered' = registered
           /\ \A v \in Uploads \ {u} :
                 UNCHANGED <<pc[v], provides[v], listed[v], previous[v], createdAt[v],
                             baseline[v], seen[v]>>
           /\ Committed \subseteq Committed' /\ Committed' \subseteq Committed \cup {u}
           /\ u \notin Committed
<1> USE DEF TypeOK, Goto, Committed
<1>1. CASE ListFeatures(u)
  BY <1>1 DEF ListFeatures
<1>2. CASE ChoosePrevious(u)
  BY <1>2 DEF ChoosePrevious
<1>3. CASE FlushSnapshot(u)
  BY <1>3 DEF FlushSnapshot
<1>4. CASE WriteFeatures(u)
  BY <1>4 DEF WriteFeatures
<1>5. CASE Commit(u)
  BY <1>5 DEF Commit
<1>6. CASE Abort(u)
  BY <1>6 DEF Abort, Active
<1> QED BY <1>1, <1>2, <1>3, <1>4, <1>5, <1>6 DEF UploadStep

LEMMA StampsStep ==
    ASSUME IInv, NEW u \in Uploads, UploadStep(u)
    PROVE  StampsAreDistinct'
<1> USE DEF IInv, StampsAreDistinct, TypeOK, Goto, Stamped
<1>1. CASE ListFeatures(u)
  BY <1>1 DEF ListFeatures
<1>2. CASE ChoosePrevious(u)
  BY <1>2 DEF ChoosePrevious
<1>3. CASE FlushSnapshot(u)
  BY <1>3 DEF FlushSnapshot
<1>4. CASE WriteFeatures(u)
  BY <1>4 DEF WriteFeatures
<1>5. CASE Commit(u)
  BY <1>5 DEF Commit
<1>6. CASE Abort(u)
  BY <1>6 DEF Abort, Active
<1> QED BY <1>1, <1>2, <1>3, <1>4, <1>5, <1>6 DEF UploadStep

LEMMA ListedStep ==
    ASSUME IInv, NEW u \in Uploads, UploadStep(u)
    PROVE  FeaturesAreListed'
<1> USE DEF IInv, FeaturesAreListed
<1> DEFINE Fine(v) == /\ provides[v] \subseteq listed[v] /\ listed[v] \subseteq registered
                      /\ seen[v] \subseteq Committed
                      /\ \A w \in seen[v] : provides[w] \subseteq listed[v]
<1>1. \A w \in Committed : provides[w]' = provides[w] /\ w \in Uploads
  BY OwnFrame DEF Committed
<1>2. ASSUME NEW v \in Uploads \ {u} PROVE Fine(v)'
  BY <1>1, OwnFrame
<1>3. Fine(u)'
  <2>1. CASE ListFeatures(u)
    <3>1. Committed' = Committed
      BY <2>1 DEF ListFeatures, Goto, TypeOK, Committed
    <3>2. CASE pc'[u] = "aborted"
      BY <2>1, <3>1, <3>2, <1>1 DEF ListFeatures, Goto, TypeOK
    <3>3. CASE pc'[u] # "aborted"
      <4>1. /\ provides'[u] \subseteq registered /\ listed'[u] = registered
            /\ seen'[u] = Committed /\ registered' = registered
        BY <2>1, <3>3 DEF ListFeatures, Goto, TypeOK
      <4>2. \A w \in Committed : provides[w] \subseteq registered
        BY <1>1
      <4> QED BY <4>1, <4>2, <3>1, <1>1
    <3> QED BY <3>2, <3>3
  <2>2. CASE ~ListFeatures(u) /\ ~Abort(u)
    <3>1. UNCHANGED <<provides, listed, seen, registered>>
      BY <2>2 DEF UploadStep, ChoosePrevious, FlushSnapshot, WriteFeatures, Commit
    <3> QED BY <3>1, OwnFrame
  <2>3. CASE Abort(u)
    BY <2>3 DEF Abort, TypeOK
  <2> QED BY <2>1, <2>2, <2>3
<1> QED BY <1>2, <1>3

LEMMA PreviousStep ==
    ASSUME IInv, NEW u \in Uploads, UploadStep(u)
    PROVE  PreviousIsLatest'
<1> USE DEF IInv
<1> DEFINE Fine(v) == /\ pc[v] \in {"idle", "listed"} => previous[v] = None
                      /\ pc[v] = "chosen" \/ Stamped(v) =>
                            \/ previous[v] = None /\ seen[v] = {}
                            \/ CopiesTheLatest(v)
<1>1. \A w \in Committed : /\ createdAt[w]' = createdAt[w] /\ w \in Uploads
                           /\ w \in Committed' /\ w # u
  BY OwnFrame DEF Committed
<1>2. ASSUME NEW v \in Uploads, CopiesTheLatest(v), UNCHANGED <<seen[v], previous[v]>>,
             Stamped(v)' => createdAt[previous[v]] < createdAt'[v]
      PROVE  CopiesTheLatest(v)'
  BY <1>1, <1>2 DEF CopiesTheLatest, FeaturesAreListed
<1>3. ASSUME NEW v \in Uploads \ {u} PROVE Fine(v)'
  BY <1>2, OwnFrame DEF PreviousIsLatest, CopiesTheLatest, Stamped
<1>4. Fine(u)'
  <2> USE DEF TypeOK, Goto, Stamped
  <2>1. CASE ListFeatures(u)
    BY <2>1 DEF ListFeatures, PreviousIsLatest
  <2>2. CASE ChoosePrevious(u)
    <3>1. CASE Committed = {} /\ UNCHANGED previous
      BY <2>2, <3>1 DEF ChoosePrevious, PreviousIsLatest, FeaturesAreListed
    <3>2. ASSUME NEW p \in LatestSnapshots, previous' = [previous EXCEPT ![u] = p]
          PROVE  CopiesTheLatest(u)'
      <4>1. /\ p \in Committed /\ previous'[u] = p
            /\ \A w \in Committed : createdAt[w] <= createdAt[p]
        BY <3>2 DEF LatestSnapshots, Committed
      <4>2. UNCHANGED <<seen, createdAt>> /\ ~Stamped(u)' /\ seen[u] \subseteq Committed
        BY <2>2 DEF ChoosePrevious, FeaturesAreListed
      <4> QED BY <4>1, <4>2, <1>1 DEF CopiesTheLatest
    <3> QED BY <2>2, <3>1, <3>2 DEF ChoosePrevious
  <2>3. CASE FlushSnapshot(u)
    <3>1. /\ pc[u] = "chosen" /\ createdAt'[u] = clock + 1 /\ pc'[u] = "flushed"
          /\ UNCHANGED <<seen, previous>>
      BY <2>3 DEF FlushSnapshot
    <3>2. CopiesTheLatest(u) => createdAt[previous[u]] < createdAt'[u]
      BY <3>1 DEF CopiesTheLatest, StampsAreDistinct, Committed
    <3> QED BY <3>1, <3>2, <1>2 DEF PreviousIsLatest
  <2>4. CASE WriteFeatures(u) \/ Commit(u)
    <3>1. Stamped(u) /\ Stamped(u)' /\ UNCHANGED <<seen, previous, createdAt>>
      BY <2>4 DEF WriteFeatures, Commit
    <3>2. CopiesTheLatest(u) => createdAt[previous[u]] < createdAt'[u]
      BY <3>1 DEF CopiesTheLatest
    <3> QED BY <3>1, <3>2, <1>2 DEF PreviousIsLatest
  <2>5. CASE Abort(u)
    BY <2>5 DEF Abort
  <2> QED BY <2>1, <2>2, <2>3, <2>4, <2>5 DEF UploadStep
<1> QED BY <1>3, <1>4 DEF PreviousIsLatest

\* What WriteFeatures puts in a snapshot for a feature it lists but was not given.
LEMMA CopyOfPrevious ==
    ASSUME IInv, NEW u \in Uploads, WriteFeatures(u), NEW f \in Features
    PROVE  /\ f \in provides[u] => baseline'[u][f] = u
           /\ baseline'[u][f] # None /\ f \notin provides[u] =>
                 CopiesTheLatest(u) /\ baseline'[u][f] = baseline[previous[u]][f]
           /\ f \in listed[u] \ provides[u] /\ CopiesTheLatest(u) =>
                 baseline'[u][f] = baseline[previous[u]][f]
<1>1. previous[u] = None \/ CopiesTheLatest(u)
  BY DEF IInv, PreviousIsLatest, WriteFeatures, Stamped
<1>2. CopiesTheLatest(u) => previous[u] # None
  BY NoneAssumption DEF CopiesTheLatest, Committed
<1>3. baseline'[u][f] = IF f \in provides[u] THEN u
                        ELSE IF f \in listed[u] THEN Copied(u, f) ELSE None
  BY DEF IInv, TypeOK, WriteFeatures
<1> QED BY <1>1, <1>2, <1>3 DEF Copied

LEMMA ValuesStep ==
    ASSUME IInv, NEW u \in Uploads, UploadStep(u)
    PROVE  ValuesHaveASource'
<1> USE DEF IInv
<1> DEFINE Fine(s) == Written(s) =>
              \A f \in Features :
                  /\ f \in provides[s] => baseline[s][f] = s
                  /\ baseline[s][f] # None =>
                        /\ baseline[s][f] \in Committed \cup {s}
                        /\ f \in provides[baseline[s][f]]
                        /\ createdAt[baseline[s][f]] <= createdAt[s]
<1>1. ASSUME NEW s \in Uploads \ {u} PROVE Fine(s)'
  BY <1>1, OwnFrame DEF ValuesHaveASource, Written, Committed
<1>2. Fine(u)'
  <2>1. CASE WriteFeatures(u)
    <3>1. UNCHANGED <<provides, createdAt>> /\ Committed \subseteq Committed'
      BY <2>1, OwnFrame DEF WriteFeatures
    <3>2. createdAt[u] \in Nat
      BY DEF TypeOK
    <3> SUFFICES ASSUME NEW f \in Features, baseline'[u][f] # None, f \notin provides[u]
                 PROVE  /\ baseline'[u][f] \in Committed
                        /\ f \in provides[baseline'[u][f]]
                        /\ createdAt[baseline'[u][f]] <= createdAt[u]
      BY <2>1, <3>1, <3>2, CopyOfPrevious
    <3>3. /\ CopiesTheLatest(u) /\ baseline'[u][f] = baseline[previous[u]][f]
          /\ Stamped(u)
      BY <2>1, CopyOfPrevious DEF WriteFeatures, Stamped
    <3>4. PICK q \in Uploads : q = previous[u] /\ q \in Committed /\ createdAt[q] < createdAt[u]
      BY <3>3 DEF CopiesTheLatest, Committed
    <3>5. /\ baseline[q][f] \in Committed /\ f \in provides[baseline[q][f]]
          /\ createdAt[baseline[q][f]] <= createdAt[q]
      BY <3>3, <3>4 DEF ValuesHaveASource, Written, Committed
    <3>6. createdAt[baseline[q][f]] \in Nat /\ createdAt[q] \in Nat
      BY <3>5 DEF TypeOK, Committed
    <3> QED BY <3>2, <3>3, <3>4, <3>5, <3>6
  <2>2. CASE Commit(u)
    BY <2>2, OwnFrame DEF Commit, ValuesHaveASource, Written
  <2>3. CASE ~WriteFeatures(u) /\ ~Commit(u)
    <3>1. ~Written(u)'
      BY <2>3 DEF UploadStep, ListFeatures, ChoosePrevious, FlushSnapshot, Abort, Goto,
                  Written, TypeOK
    <3> QED BY <3>1
  <2> QED BY <2>1, <2>2, <2>3
<1> QED BY <1>1, <1>2 DEF ValuesHaveASource

LEMMA OverlapsStep ==
    ASSUME IInv, NEW u \in Uploads, UploadStep(u)
    PROVE  OverlapsLoseBaselines'
<1> USE DEF IInv
<1> DEFINE Between(s, w) ==
              \E v \in Committed \cup {s} : /\ createdAt[w] < createdAt[v]
                                          /\ createdAt[v] <= createdAt[s]
                                          /\ w \notin seen[v]
<1> SUFFICES ASSUME NEW s \in Uploads, Written(s)',
                    NEW w \in Committed', NEW f \in provides'[w],
                    createdAt'[w] <= createdAt'[s]
             PROVE  (Holds(s, w, f) \/ Between(s, w))'
  BY DEF OverlapsLoseBaselines
<1>a. w \in Uploads /\ f \in Features /\ TypeOK'
  <2>1. TypeOK'
    BY TypeStep DEF Next
  <2> QED BY <2>1 DEF Committed, TypeOK
<1>b. \A v \in Committed : /\ v # u /\ v \in Uploads /\ v \in Committed'
                           /\ UNCHANGED <<createdAt[v], seen[v], provides[v], baseline[v]>>
  BY OwnFrame DEF Committed
\* A snapshot that was written before the step: what is said of it stays true.
<1>1. ASSUME Written(s), w \in Committed,
             UNCHANGED <<createdAt[s], seen[s], baseline[s], provides[w], createdAt[w]>>
      PROVE  (Holds(s, w, f) \/ Between(s, w))'
  <2>1. CASE Holds(s, w, f)
    <3>1. baseline[s][f] \in Committed \cup {s}
      BY <1>1, <1>a, <2>1 DEF ValuesHaveASource, Holds
    <3> QED BY <1>1, <1>b, <2>1, <3>1 DEF Holds
  <2>2. CASE Between(s, w)
    BY <1>1, <1>b, <2>2
  <2> QED BY <1>1, <2>1, <2>2 DEF OverlapsLoseBaselines
<1>2. CASE s # u /\ w # u
  BY <1>1, <1>2, <1>a, OwnFrame DEF Written, Committed
<1>3. CASE s # u /\ w = u
  <2>1. u \notin seen[s] /\ UNCHANGED <<createdAt[s], seen[s], pc[s]>>
    BY <1>3, OwnFrame DEF FeaturesAreListed
  <2>2. StampsAreDistinct'
    BY StampsStep
  <2>3. createdAt'[w] # createdAt'[s]
    BY <1>3, <1>a, <2>2 DEF StampsAreDistinct, Stamped, Written, Committed
  <2>4. createdAt'[w] \in Nat /\ createdAt'[s] \in Nat
    BY <1>a DEF TypeOK
  <2>5. createdAt'[w] < createdAt'[s] /\ createdAt'[s] <= createdAt'[s]
    BY <2>3, <2>4
  <2> QED BY <1>3, <2>1, <2>5
<1>4. CASE s = u /\ WriteFeatures(u)
  <2>1. UNCHANGED <<pc[w], provides, createdAt, seen>> /\ w \in Committed /\ Stamped(s)
    <3>1. w # u
      BY <1>4 DEF WriteFeatures, Goto, TypeOK, Committed
    <3> QED BY <1>4, <3>1, OwnFrame DEF WriteFeatures, Committed, Stamped
  <2>2. createdAt[w] \in Nat /\ createdAt[s] \in Nat /\ w # s /\ Stamped(w)
    BY <1>a, <1>b, <1>4, <2>1 DEF TypeOK, Committed, Stamped
  <2>3. createdAt[w] < createdAt[s]
    BY <2>1, <2>2, <1>a DEF StampsAreDistinct
  <2>4. CASE f \in provides[s]
    BY <1>4, <1>a, <2>1, <2>4, CopyOfPrevious, NoneAssumption DEF Holds
  <2>5. CASE w \notin seen[s]
    BY <2>1, <2>2, <2>3, <2>5
  <2>6. CASE f \notin provides[s] /\ w \in seen[s]
    <3>1. CopiesTheLatest(s) /\ f \in listed[s]
      BY <2>1, <2>6 DEF PreviousIsLatest, FeaturesAreListed
    <3>2. PICK q \in Uploads : /\ q = previous[s] /\ q \in Committed /\ Written(q)
                               /\ createdAt[w] <= createdAt[q] /\ createdAt[q] < createdAt[s]
      BY <2>1, <2>6, <3>1 DEF CopiesTheLatest, Committed, Written
    <3>3. baseline'[s][f] = baseline[q][f]
      BY <1>4, <1>a, <2>6, <3>1, <3>2, CopyOfPrevious
    <3>4. CASE Holds(q, w, f)
      BY <2>1, <3>3, <3>4 DEF Holds
    <3>5. ASSUME NEW v \in Committed, createdAt[w] < createdAt[v],
                 createdAt[v] <= createdAt[q], w \notin seen[v]
          PROVE  Between(s, w)'
      <4>1. createdAt[v] \in Nat /\ createdAt[q] \in Nat
        BY <1>b, <3>2 DEF TypeOK
      <4>2. createdAt[v] <= createdAt[s]
        BY <4>1, <2>2, <3>2, <3>5
      <4> QED BY <1>b, <2>1, <3>5, <4>2
    <3>6. Holds(q, w, f) \/ Between(q, w)
      BY <2>1, <3>2 DEF OverlapsLoseBaselines
    <3> QED BY <3>2, <3>4, <3>5, <3>6
  <2> QED BY <2>4, <2>5, <2>6
<1>5. CASE s = u /\ Commit(u)
  <2>1. UNCHANGED <<provides, createdAt, seen, baseline>> /\ Written(s)
    BY <1>5 DEF Commit, Written
  <2>2. CASE w = u
    BY <1>5, <1>a, <2>1, <2>2, NoneAssumption DEF ValuesHaveASource, Holds, TypeOK
  <2>3. CASE w # u
    BY <1>1, <1>a, <2>1, <2>3, OwnFrame DEF Committed
  <2> QED BY <2>2, <2>3
<1>6. CASE s = u /\ ~WriteFeatures(u) /\ ~Commit(u)
  BY <1>6 DEF UploadStep, ListFeatures, ChoosePrevious, FlushSnapshot, Abort, Goto,
              Written, TypeOK
<1> QED BY <1>2, <1>3, <1>4, <1>5, <1>6

LEMMA InvStep == IInv /\ [Next]_vars => IInv'
<1> SUFFICES ASSUME IInv, [Next]_vars PROVE IInv'
  OBVIOUS
<1>1. TypeOK'
  BY TypeStep DEF IInv
<1>2. ASSUME NEW u \in Uploads, UploadStep(u) PROVE IInv'
  BY <1>1, <1>2, StampsStep, ListedStep, PreviousStep, ValuesStep, OverlapsStep
     DEF IInv
<1>3. ASSUME NEW f \in Features, CreateFeature(f) PROVE IInv'
  <2>1. /\ UNCHANGED <<clock, pc, provides, listed, previous, createdAt, baseline, seen>>
        /\ registered \subseteq registered'
    BY <1>3 DEF CreateFeature
  <2>2. StampsAreDistinct' /\ FeaturesAreListed' /\ PreviousIsLatest'
    BY <2>1 DEF IInv, StampsAreDistinct, FeaturesAreListed, PreviousIsLatest,
                CopiesTheLatest, Stamped, Committed
  <2>3. ValuesHaveASource' /\ OverlapsLoseBaselines'
    BY <2>1 DEF IInv, ValuesHaveASource, OverlapsLoseBaselines, Written, Committed, Holds
  <2> QED BY <1>1, <2>2, <2>3 DEF IInv
<1>4. CASE UNCHANGED vars
  <2>1. StampsAreDistinct' /\ FeaturesAreListed' /\ PreviousIsLatest'
    BY <1>4 DEF vars, IInv, StampsAreDistinct, FeaturesAreListed, PreviousIsLatest,
                CopiesTheLatest, Stamped, Committed
  <2>2. ValuesHaveASource' /\ OverlapsLoseBaselines'
    BY <1>4 DEF vars, IInv, ValuesHaveASource, OverlapsLoseBaselines, Written,
                Committed, Holds
  <2> QED BY <1>1, <2>1, <2>2 DEF IInv
<1> QED BY <1>2, <1>3, <1>4 DEF Next

-----------------------------------------------------------------------------
(* The theorems.                                                           *)

\* Snapshots as create_reference_snapshot makes them: ordered by created_at, made
\* from features and a previous snapshot that were committed, holding values with a
\* source, and losing a baseline only to an overlap.
THEOREM Invariance == Spec => []IInv
BY InitEstablishes, InvStep, PTL DEF Spec

\* However long the chain of copies, what a committed snapshot holds was brought by a
\* committed upload that is no later than it.
THEOREM CopiesComeFromUploads == Spec => []BaselinesComeFromUploads
<1>1. IInv => BaselinesComeFromUploads
  BY DEF IInv, ValuesHaveASource, BaselinesComeFromUploads, Written, Committed
<1> QED BY <1>1, Invariance, PTL

\* A committed snapshot lacks the baseline of an earlier upload only if an upload
\* between them began before the earlier one was committed.
THEOREM LostOnlyByOverlap == Spec => []OnlyOverlapsLoseBaselines
<1>1. IInv => OnlyOverlapsLoseBaselines
  BY DEF IInv, OverlapsLoseBaselines, OnlyOverlapsLoseBaselines, Written, Committed
<1> QED BY <1>1, Invariance, PTL

\* Every upload began after the earlier ones were committed.
InTurn == \A u, v \in Committed : createdAt[u] < createdAt[v] => u \in seen[v]

\* Uploads made in turn keep what reference_service.py promises: the latest snapshot
\* is one complete baseline.
THEOREM UploadsInTurnAreComplete == Spec => [](InTurn => LatestBaselineIsComplete)
<1>1. OnlyOverlapsLoseBaselines /\ InTurn => LatestBaselineIsComplete
  BY DEF OnlyOverlapsLoseBaselines, InTurn, LatestBaselineIsComplete, LatestSnapshots,
         Committed
<1> QED BY <1>1, LostOnlyByOverlap, PTL
===============================================================================
