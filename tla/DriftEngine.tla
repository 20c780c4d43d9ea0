------------------------------ MODULE DriftEngine ------------------------------
(***************************************************************************)
(* The verdict on one feature (app/drift/engine.py, app/drift/metrics.py): *)
(* its observations are classified when they come in                       *)
(* (app/services/ingestion_service.py), and a drift check collects those   *)
(* it can use, makes the bins and evaluates them.                          *)
(*                                                                         *)
(* Numbers are exact here: a rounded quantile may put a value that lies on *)
(* an edge into the other bin. Logarithms are replaced by what follows     *)
(* without them: a metric of equal distributions is 0, and every term of   *)
(* the PSI is at least 0. Infinite values are left out.                    *)
(***************************************************************************)
EXTENDS Integers, FiniteSets, FiniteSetsExt, Functions

CONSTANTS
    NBins,         \* n_bins
    MinUsable,     \* MIN_USABLE_SAMPLES
    MaxReference,  \* bound: values of the feature in a snapshot
    MaxRows,       \* bound: observations of the feature in a window
    Numbers,       \* texts that are numbers, and the numbers they are
    NaN,           \* the text nan, and the number it is
    NoNumber,      \* any text that float refuses
    Blank,         \* null, or a text of blanks
    Nothing,       \* no parsed value
    Categories,    \* the texts of a categorical feature
    Strip          \* text -> the text without blanks around it

ASSUME SamplesAssumption ==
    /\ NBins \in Nat \ {0} /\ MinUsable \in Nat \ {0}
    /\ MaxReference \in Nat /\ MaxRows \in Nat
    /\ Numbers \subseteq Int /\ IsFiniteSet(Numbers) /\ NaN \notin Numbers
    /\ IsFiniteSet(Categories)
    /\ Strip \in [Categories -> Categories]

VARIABLES
    dataType,   \* data_type of the feature
    reference,  \* bag: its values in the latest snapshot
    rows,       \* bag: its observations in the window
    phase,      \* how far the drift check is
    production, \* production_values: value -> how often
    cells,      \* what the metrics count in: bins, or the categories
    featureStatus \* feature_status, or Nothing

check == <<phase, production, cells, featureStatus>>
vars == <<dataType, reference, rows, check>>

\* A sample is a bag, value -> how often. The bags of up to size values:
Samples(values, size) ==
    UNION {{b \in [vs -> 1..size] : SumFunction(b) <= size} : vs \in SUBSET values}

NumericSamples == Samples(Numbers, MaxReference)
CategoricalSamples == Samples(Categories, MaxReference)

Parsed == IF dataType = "numeric" THEN Numbers \cup {NaN} ELSE Categories
ObservationStatuses == {"valid", "missing", "invalid", "unseen_category"}
MetricStatuses == {"ok", "moderate", "drifted"}

ASSUME NothingAssumption ==
    /\ Nothing \notin Numbers /\ Nothing # NaN /\ Nothing \notin Categories
    /\ Nothing \notin MetricStatuses \cup {"insufficient_data"}

Observation(parsed, status) == [parsed |-> parsed, status |-> status]

IsSample(b) == b \in [DOMAIN b -> Nat \ {0}]

TypeOK ==
    /\ dataType \in {"numeric", "categorical"}
    /\ reference \in IF dataType = "numeric" THEN NumericSamples ELSE CategoricalSamples
    /\ IsSample(rows)
    /\ \A row \in DOMAIN rows :
          /\ row.status \in ObservationStatuses
          /\ row.parsed # Nothing <=> row.status \in {"valid", "unseen_category"}
          /\ row.parsed # Nothing => row.parsed \in Parsed
          /\ row.status = "unseen_category" => dataType = "categorical"
          /\ row.status = "invalid" => dataType = "numeric"
    /\ phase \in {"ingesting", "collected", "binned", "evaluated"}
    /\ IsSample(production) /\ DOMAIN production \subseteq Parsed
    /\ cells \subseteq SUBSET Parsed
    /\ featureStatus \in MetricStatuses \cup {"insufficient_data", Nothing}
    /\ featureStatus = Nothing <=> phase # "evaluated"

Init ==
    /\ dataType \in {"numeric", "categorical"}
    /\ reference = <<>>
    /\ rows = <<>>
    /\ phase = "ingesting"
    /\ production = <<>>
    /\ cells = {}
    /\ featureStatus = Nothing

\* A new snapshot with data of the feature; missing values are dropped.
Upload ==
    /\ phase = "ingesting"
    /\ reference' \in IF dataType = "numeric" THEN NumericSamples ELSE CategoricalSamples
    /\ UNCHANGED <<dataType, rows, check>>

\* Nothing is unseen without categories of the latest snapshot.
KnownCategories == DOMAIN reference

\* Mutant: a number's text is stored without the number.
ClassifyUnparsed(text) ==
    IF text = Blank THEN Observation(Nothing, "missing")
    ELSE IF dataType = "numeric" THEN Observation(Nothing, "valid")
    ELSE Observation(Strip[text], "valid")

\* _classify_and_build.
Classify(text) ==
    IF text = Blank THEN Observation(Nothing, "missing")
    ELSE IF dataType = "numeric"
    THEN IF text = NoNumber THEN Observation(Nothing, "invalid")
         ELSE Observation(text, "valid")
    ELSE Observation(Strip[text],
                     IF KnownCategories # {} /\ Strip[text] \notin KnownCategories
                     THEN "unseen_category" ELSE "valid")

\* The bag b with one more row.
AddTo(b, row) ==
    [o \in DOMAIN b \cup {row} |->
        (IF o \in DOMAIN b THEN b[o] ELSE 0) + (IF o = row THEN 1 ELSE 0)]

Observe ==
    /\ phase = "ingesting"
    /\ SumFunction(rows) < MaxRows
    /\ \E text \in {Blank} \cup IF dataType = "numeric" THEN Numbers \cup {NaN, NoNumber}
                                ELSE Categories :
          rows' = AddTo(rows, Classify(text))
    /\ UNCHANGED <<dataType, reference, check>>

-----------------------------------------------------------------------------
(* Samples.                                                                *)

\* Mutant: unseen categories are not compared.
UsableIfValid(row) == row.status = "valid"

Usable(row) ==
    \/ row.status = "valid"
    \/ dataType = "categorical" /\ row.status = "unseen_category"

UsableRows == {row \in DOMAIN rows : Usable(row)}

\* production_values.
Collect ==
    /\ phase = "ingesting"
    /\ production' =
          [v \in {row.parsed : row \in UsableRows} |->
              SumFunctionOnSet(rows, {row \in UsableRows : row.parsed = v})]
    /\ phase' = "collected"
    /\ UNCHANGED <<dataType, reference, rows, cells, featureStatus>>

Size(sample) == SumFunction(sample)
Within(sample, S) == SumFunctionOnSet(sample, DOMAIN sample \cap S)
UpTo(sample, x) == Within(sample, {v \in Numbers : v <= x})

\* The value at place i, from 0, when the sample is sorted.
OrderStatistic(sample, i) ==
    CHOOSE v \in DOMAIN sample : UpTo(sample, v) > i /\ UpTo(sample, v) - sample[v] <= i

-----------------------------------------------------------------------------
(* Bins. Edges are multiples of 1/Scale, and so is half a unit.            *)

Scale == 2 * NBins

\* np.quantile of k / NBins: linear between the two nearest values.
Quantile(sample, k) ==
    LET place == (Size(sample) - 1) * k
        lower == OrderStatistic(sample, place \div NBins)
        rest == place % NBins
        upper == IF rest = 0 THEN lower ELSE OrderStatistic(sample, place \div NBins + 1)
    IN  Scale * lower + 2 * rest * (upper - lower)

Quantiles(sample) == {Quantile(sample, k) : k \in 0..NBins}

\* Further out than any value.
Infinity == Scale * (1 + Max(Numbers \cup {-v : v \in Numbers}))

\* Mutant: the outer edges are the least and the greatest reference value.
EdgesOfRange(sample) ==
    LET q == Quantiles(sample)
    IN  IF Cardinality(q) < 2 THEN UNION {{x - NBins, x + NBins} : x \in q} ELSE q

\* numeric_bin_edges.
Edges(sample) ==
    LET q == Quantiles(sample)
    IN  {-Infinity, Infinity} \cup
        IF Cardinality(q) < 2 THEN UNION {{x - NBins, x + NBins} : x \in q}
        ELSE q \ {Min(q), Max(q)}

\* Bins hold their lower edge, the last one both.
Bin(edges, lower) ==
    LET upper == Min({e \in edges : e > lower})
    IN  {v \in Numbers : /\ lower <= Scale * v
                         /\ \/ Scale * v < upper
                            \/ upper = Max(edges) /\ Scale * v = upper}

Bins(edges) == {Bin(edges, lower) : lower \in edges \ {Max(edges)}} \ {{}}

Enough(sample) == Size(sample) >= MinUsable

\* The bins of the reference, or each category of either side.
MakeCells ==
    /\ phase = "collected"
    /\ Enough(reference) /\ Enough(production)
    /\ cells' = IF dataType = "numeric" THEN Bins(Edges(reference))
                ELSE {{c} : c \in DOMAIN reference \cup DOMAIN production}
    /\ phase' = "binned"
    /\ UNCHANGED <<dataType, reference, rows, production, featureStatus>>

-----------------------------------------------------------------------------
(* Metrics.                                                                *)

Total(sample) == SumFunction([cell \in cells |-> Within(sample, cell)])

SameShares ==
    \A cell \in cells :
        Within(reference, cell) * Total(production) = Within(production, cell) * Total(reference)

Comparable == Total(reference) > 0 /\ Total(production) > 0

\* A cell that is empty on one side, where it gets the share 0.0001, and has a share
\* p of 1/20 or more on the other: its term of the PSI, (p - 0.0001) ln(p / 0.0001),
\* is more than 0.3.
OneSided(a, b) ==
    \E cell \in cells : Within(a, cell) = 0 /\ 20 * Within(b, cell) >= Total(b)

\* No cell has values of both sides. Where only production has some, the terms of the PSI
\* are convex in the share: k such cells make up at least (1 - k/10000) ln(10000/k) of it,
\* more than 0.3 for up to 5000.
FewCells == 5000

Apart ==
    /\ Cardinality(cells) <= FewCells
    /\ \A cell \in cells : Within(reference, cell) = 0 \/ Within(production, cell) = 0

\* psi_from_counts and _psi_status.
PsiStatuses ==
    IF ~Comparable \/ SameShares THEN {"ok"}
    ELSE IF OneSided(reference, production) \/ OneSided(production, reference) \/ Apart
    THEN {"drifted"}
    ELSE MetricStatuses

\* jensen_shannon_from_counts and _js_status.
JsStatuses == IF ~Comparable \/ SameShares THEN {"ok"} ELSE {"ok", "drifted"}

\* Mutant: one distribution function counts a value itself, the other does not.
DistanceOfLimits ==
    Max({LET d == UpTo(reference, x) * Size(production)
                  - UpTo(production, x - 1) * Size(reference)
         IN  IF d < 0 THEN -d ELSE d : x \in Numbers})

\* The greatest distance of the two distribution functions, times both sizes.
Distance ==
    Max({LET d == UpTo(reference, x) * Size(production)
                  - UpTo(production, x) * Size(reference)
         IN  IF d < 0 THEN -d ELSE d : x \in Numbers})

\* ks_test and _ks_status: a nan makes the statistic nan, which is below any
\* threshold; a statistic of exactly 0.2 may be rounded to either side.
KsStatuses ==
    LET sizes == Size(reference) * Size(production)
    IN  IF NaN \in DOMAIN production \/ 5 * Distance < sizes THEN {"ok"}
        ELSE IF 5 * Distance > sizes THEN {"drifted"}
        ELSE {"ok", "drifted"}

\* _overall_status of one status for each metric.
Overall(statuses) ==
    IF "drifted" \in statuses THEN "drifted"
    ELSE IF "moderate" \in statuses THEN "moderate" ELSE "ok"

\* evaluate_numeric_feature and evaluate_categorical_feature.
Evaluate ==
    /\ phase = "binned"
    /\ \E p \in PsiStatuses, j \in JsStatuses :
          \/ /\ dataType = "categorical"
             /\ featureStatus' = Overall({p, j})
          \/ /\ dataType = "numeric"
             /\ \E k \in KsStatuses : featureStatus' = Overall({p, k, j})
    /\ phase' = "evaluated"
    /\ UNCHANGED <<dataType, reference, rows, production, cells>>

\* Too few values on one side.
ReportInsufficient ==
    /\ phase = "collected"
    /\ ~Enough(reference) \/ ~Enough(production)
    /\ featureStatus' = "insufficient_data"
    /\ phase' = "evaluated"
    /\ UNCHANGED <<dataType, reference, rows, production, cells>>

Next == Upload \/ Observe \/ Collect \/ MakeCells \/ Evaluate \/ ReportInsufficient

Spec == Init /\ [][Next]_vars

-----------------------------------------------------------------------------
(* Properties.                                                             *)

\* How often the observations of the window gave a value of S, whatever their status.
ObservedIn(S) == SumFunctionOnSet(rows, {row \in DOMAIN rows : row.parsed \in S})

\* Whatever the reference, each number a window can hold falls into one bin, those
\* beyond the reference's range too (numeric_bin_edges; src/README.md:421-425).
NumbersFallIntoOneBin ==
    dataType = "numeric" /\ phase = "binned" =>
        \A v \in Numbers : Cardinality({bin \in cells : v \in bin}) = 1

\* A window distributed like the reference is ok, whatever was missing or invalid in
\* it and whatever snapshot its categories were judged by.
UnchangedSamplesAreOk ==
    /\ phase = "evaluated"
    /\ Enough(reference)
    /\ ObservedIn(Parsed) >= MinUsable
    /\ \A v \in Parsed :
          Within(reference, {v}) * ObservedIn(Parsed) = ObservedIn({v}) * Size(reference)
    => featureStatus = "ok"

\* A window without a value the reference has, all of them beyond its range if they
\* are numbers, is drifted: by the bins, or by KS where the bins are blind, and
\* whatever snapshot its categories were judged by.
NewValuesDrift ==
    LET new == IF dataType = "categorical" THEN Categories \ DOMAIN reference
               ELSE {v \in Numbers : \/ \A w \in DOMAIN reference : v < w
                                     \/ \A w \in DOMAIN reference : v > w}
    IN  /\ phase = "evaluated"
        /\ Enough(reference)
        /\ ObservedIn(new) >= MinUsable
        /\ ObservedIn(Parsed \ new) = 0
        => featureStatus = "drifted"

\* A window with too few numbers to compare is never ok: engine.py:9-11 says
\* insufficient data is never reported as healthy.
TooFewNumbersAreNotOk ==
    dataType = "numeric" /\ ObservedIn(Numbers) < MinUsable => featureStatus # "ok"
=============================================================================
