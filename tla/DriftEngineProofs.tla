--------------------------- MODULE DriftEngineProofs ---------------------------
(***************************************************************************)
(* Theorems about DriftEngine, for any finite set of numbers and of        *)
(* categories, samples of any size, and any number of bins.                *)
(*                                                                         *)
(* Samples are counted with the folds of the library. What those compute   *)
(* is proved by way of smallest counterexamples: among the subsets of a    *)
(* finite set for which a claim fails there would be a smallest one, and   *)
(* the fold over it is the fold over a smaller set and one more element.   *)
(***************************************************************************)
EXTENDS DriftEngine, FiniteSetTheorems, WellFoundedInduction, TLAPS

-----------------------------------------------------------------------------
(* Induction over the subsets of a finite set.                             *)

\* Among sets of subsets of a finite set there are smallest ones.
LEMMA SmallestSubset ==
    ASSUME NEW D, IsFiniteSet(D), NEW Bad \in SUBSET SUBSET D, Bad # {}
    PROVE  \E T \in Bad : \A U \in Bad : ~(U \subseteq T /\ U # T)
<1>1. IsWellFoundedOn(StrictSubsetOrdering(D), FiniteSubsetsOf(D))
  BY FS_StrictSubsetOrderingWellFounded
<1>2. Bad \subseteq FiniteSubsetsOf(D)
  BY FS_Subset DEF FiniteSubsetsOf
<1>3. PICK T \in Bad : \A U \in Bad : ~(<<U, T>> \in StrictSubsetOrdering(D))
  BY <1>1, <1>2, WFMin
<1>4. ASSUME NEW U \in Bad, U \subseteq T, U # T PROVE FALSE
  <2>1. U \in SUBSET D /\ T \in SUBSET D
    OBVIOUS
  <2> QED BY <1>3, <1>4, <2>1 DEF StrictSubsetOrdering
<1> QED BY <1>4

HasEnds(T) == (\E h \in T : \A x \in T : x <= h) /\ (\E l \in T : \A x \in T : l <= x)
Endless(D) == {T \in SUBSET D : T # {} /\ ~HasEnds(T)}

\* A finite set of numbers has a greatest and a least member, and these are its Max and Min.
LEMMA MaxAndMin ==
    ASSUME NEW D, D \subseteq Int, IsFiniteSet(D), D # {}
    PROVE  /\ Max(D) \in D /\ \A x \in D : x <= Max(D)
           /\ Min(D) \in D /\ \A x \in D : Min(D) <= x
<1>1. ASSUME Endless(D) # {} PROVE FALSE
  <2>1. Endless(D) \in SUBSET SUBSET D
    BY DEF Endless
  <2>2. PICK T \in Endless(D) : \A U \in Endless(D) : ~(U \subseteq T /\ U # T)
    BY <1>1, <2>1, SmallestSubset
  <2>3. T \subseteq Int /\ T # {} /\ ~HasEnds(T)
    BY <2>2 DEF Endless
  <2>4. PICK t \in T : TRUE
    BY <2>3
  <2>5. CASE T = {t}
    BY <2>3, <2>5 DEF HasEnds
  <2>6. CASE T # {t}
    <3>1. T \ {t} \in SUBSET D /\ T \ {t} # {} /\ T \ {t} # T
      BY <2>2, <2>4, <2>6 DEF Endless
    <3>2. HasEnds(T \ {t})
      BY <2>2, <3>1 DEF Endless
    <3>3. PICK h \in T \ {t}, l \in T \ {t} : \A x \in T \ {t} : l <= x /\ x <= h
      BY <3>2 DEF HasEnds
    <3>4. h \in Int /\ l \in Int /\ t \in Int
      BY <2>3, <2>4, <3>3
    <3>5. \E a \in T : \A x \in T : x <= a
      <4>1. CASE t <= h
        BY <3>3, <4>1
      <4>2. CASE h <= t
        <5>1. \A x \in T : x <= t
          BY <2>3, <3>3, <3>4, <4>2
        <5> QED BY <2>4, <5>1
      <4> QED BY <3>4, <4>1, <4>2
    <3>6. \E a \in T : \A x \in T : a <= x
      <4>1. CASE l <= t
        BY <3>3, <4>1
      <4>2. CASE t <= l
        <5>1. \A x \in T : t <= x
          BY <2>3, <3>3, <3>4, <4>2
        <5> QED BY <2>4, <5>1
      <4> QED BY <3>4, <4>1, <4>2
    <3> QED BY <2>3, <3>5, <3>6 DEF HasEnds
  <2> QED BY <2>5, <2>6
<1>2. HasEnds(D)
  BY <1>1 DEF Endless
<1>3. (\E h \in D : \A y \in D : h >= y) /\ (\E l \in D : \A y \in D : l <= y)
  BY <1>2 DEF HasEnds
<1>4. Max(D) \in D /\ \A y \in D : Max(D) >= y
  BY <1>3 DEF Max
<1>5. Min(D) \in D /\ \A y \in D : Min(D) <= y
  BY <1>3 DEF Min
<1> QED BY <1>4, <1>5

-----------------------------------------------------------------------------
(* Sums.                                                                   *)

Pick(s) == CHOOSE x \in s : TRUE

\* g adds up a function over all subsets of S, as SumFunctionOnSet does.
AddsUp(g, fun, S) ==
    g = [s \in SUBSET S |-> IF s = {} THEN 0 ELSE fun[Pick(s)] + g[s \ {Pick(s)}]]

Adder(fun, S) == CHOOSE g : AddsUp(g, fun, S)

\* The library's sum is such an adder's.
LEMMA SumIsAdder ==
    ASSUME NEW fun, NEW S PROVE SumFunctionOnSet(fun, S) = Adder(fun, S)[S]
BY DEF SumFunctionOnSet, FoldFunctionOnSet, MapThenFoldSet, Adder, AddsUp, Pick

\* What a sum adds up to is fixed by its arguments.
LEMMA AddersAgree ==
    ASSUME NEW fun, NEW S, IsFiniteSet(S), NEW T \in SUBSET S, NEW g, NEW h,
           AddsUp(g, fun, S), AddsUp(h, fun, T)
    PROVE  \A s \in SUBSET T : g[s] = h[s]
<1> DEFINE Bad == {s \in SUBSET T : g[s] # h[s]}
<1>1. ASSUME NEW B, B = Bad, B # {} PROVE FALSE
  <2>1. B \in SUBSET SUBSET T /\ IsFiniteSet(T)
    BY <1>1, FS_Subset
  <2>2. PICK s \in B : \A U \in B : ~(U \subseteq s /\ U # s)
    BY <1>1, <2>1, SmallestSubset
  <2>3. s \in SUBSET T /\ s \in SUBSET S /\ g[s] # h[s]
    BY <1>1, <2>2
  <2>4. /\ g[s] = IF s = {} THEN 0 ELSE fun[Pick(s)] + g[s \ {Pick(s)}]
        /\ h[s] = IF s = {} THEN 0 ELSE fun[Pick(s)] + h[s \ {Pick(s)}]
    BY <2>3 DEF AddsUp
  <2>5. s # {}
    BY <2>3, <2>4
  <2>6. Pick(s) \in s
    BY <2>5 DEF Pick
  <2>7. s \ {Pick(s)} \in SUBSET T /\ s \ {Pick(s)} \subseteq s /\ s \ {Pick(s)} # s
    BY <2>3, <2>6
  <2>8. g[s \ {Pick(s)}] = h[s \ {Pick(s)}]
    BY <1>1, <2>2, <2>7
  <2> QED BY <2>3, <2>4, <2>8
<1>2. Bad = {}
  <2> HIDE DEF Bad
  <2> QED BY <1>1
<1> QED BY <1>2

\* Over a finite set every function can be added up.
LEMMA AddersExist ==
    ASSUME NEW fun, NEW S, IsFiniteSet(S) PROVE AddsUp(Adder(fun, S), fun, S)
<1> DEFINE Bad == {T \in SUBSET S : ~AddsUp(Adder(fun, T), fun, T)}
<1>1. ASSUME NEW B, B = Bad, B # {} PROVE FALSE
  <2>1. PICK T \in B : \A U \in B : ~(U \subseteq T /\ U # T)
    <3>1. B \in SUBSET SUBSET S
      BY <1>1
    <3> QED BY <1>1, <3>1, SmallestSubset
  <2>2. T \in SUBSET S /\ ~AddsUp(Adder(fun, T), fun, T)
    BY <1>1, <2>1
  <2>3. ASSUME NEW U \in SUBSET T, U # T PROVE AddsUp(Adder(fun, U), fun, U)
    BY <1>1, <2>1, <2>2, <2>3
  <2> DEFINE Rest(s) == s \ {Pick(s)}
             g == [s \in SUBSET T |->
                      IF s = {} THEN 0 ELSE fun[Pick(s)] + Adder(fun, Rest(s))[Rest(s)]]
  <2>4. ASSUME NEW s \in SUBSET T, s # {}
        PROVE  g[Rest(s)] = Adder(fun, Rest(s))[Rest(s)]
    <3>1. Pick(s) \in s
      BY <2>4 DEF Pick
    <3>2. Rest(s) \in SUBSET T /\ Rest(s) # T
      BY <3>1
    <3>3. AddsUp(Adder(fun, Rest(s)), fun, Rest(s))
      BY <2>3, <3>2
    <3> DEFINE r == Rest(s)
    <3> HIDE DEF r
    <3>4. /\ r \in SUBSET T /\ r # T /\ AddsUp(Adder(fun, r), fun, r)
      BY <3>2, <3>3 DEF r
    <3>5. CASE r = {}
      <4>1. g[r] = 0
        BY <3>4, <3>5
      <4>2. Adder(fun, r)[r] = 0
        BY <3>4, <3>5 DEF AddsUp
      <4> QED BY <4>1, <4>2 DEF r
    <3>6. CASE r # {}
      <4>1. Pick(r) \in r
        BY <3>6 DEF Pick
      <4>2. Rest(r) \in SUBSET r /\ Rest(r) \in SUBSET T /\ Rest(r) # T
        BY <3>4, <4>1
      <4>3. AddsUp(Adder(fun, Rest(r)), fun, Rest(r))
        BY <2>3, <4>2
      <4>4. IsFiniteSet(r)
        BY <2>2, <3>4, FS_Subset
      <4>5. Adder(fun, r)[Rest(r)] = Adder(fun, Rest(r))[Rest(r)]
        BY <3>4, <4>2, <4>3, <4>4, AddersAgree
      <4>6. Adder(fun, r)[r] = fun[Pick(r)] + Adder(fun, r)[Rest(r)]
        BY <3>4, <3>6 DEF AddsUp
      <4>7. g[r] = fun[Pick(r)] + Adder(fun, Rest(r))[Rest(r)]
        BY <3>4, <3>6
      <4> QED BY <4>5, <4>6, <4>7 DEF r
    <3> QED BY <3>5, <3>6
  <2>5. AddsUp(g, fun, T)
    <3> DEFINE f == [s \in SUBSET T |-> IF s = {} THEN 0 ELSE fun[Pick(s)] + g[Rest(s)]]
    <3>1. \A s \in SUBSET T : f[s] = g[s]
      BY <2>4
    <3>2. f = g
      <4> HIDE DEF f, g
      <4>1. f = [s \in SUBSET T |-> f[s]] /\ g = [s \in SUBSET T |-> g[s]]
        BY DEF f, g
      <4> QED BY <3>1, <4>1
    <3> QED BY <3>2 DEF AddsUp
  <2>6. \E a : AddsUp(a, fun, T)
    BY <2>5
  <2>7. AddsUp(Adder(fun, T), fun, T)
    BY <2>6 DEF Adder
  <2> QED BY <2>2, <2>7
<1> QED BY <1>1

\* The empty sum, and a sum of Picks first.
LEMMA SumOfPick ==
    ASSUME NEW fun, NEW S, IsFiniteSet(S)
    PROVE  SumFunctionOnSet(fun, S) =
              IF S = {} THEN 0 ELSE fun[Pick(S)] + SumFunctionOnSet(fun, S \ {Pick(S)})
<1>1. AddsUp(Adder(fun, S), fun, S)
  BY AddersExist
<1>2. Adder(fun, S)[S] =
          IF S = {} THEN 0 ELSE fun[Pick(S)] + Adder(fun, S)[S \ {Pick(S)}]
  BY <1>1 DEF AddsUp
<1>3. IsFiniteSet(S \ {Pick(S)})
  BY FS_RemoveElement
<1>4. AddsUp(Adder(fun, S \ {Pick(S)}), fun, S \ {Pick(S)})
  BY <1>3, AddersExist
<1>5. Adder(fun, S)[S \ {Pick(S)}] = Adder(fun, S \ {Pick(S)})[S \ {Pick(S)}]
  <2>1. ASSUME NEW T \in SUBSET S, AddsUp(Adder(fun, T), fun, T)
        PROVE  Adder(fun, S)[T] = Adder(fun, T)[T]
    BY <1>1, <2>1, AddersAgree
  <2> QED BY <1>4, <2>1
<1> QED BY <1>2, <1>5, SumIsAdder

\* Any member may come first.
LEMMA SumIsInt ==
    ASSUME NEW fun, NEW S, IsFiniteSet(S), \A x \in S : fun[x] \in Int
    PROVE  /\ SumFunctionOnSet(fun, S) \in Int
           /\ \A x \in S : SumFunctionOnSet(fun, S) = fun[x] + SumFunctionOnSet(fun, S \ {x})
<1> DEFINE Sum(T) == SumFunctionOnSet(fun, T)
           Good(T) == Sum(T) \in Int /\ \A x \in T : Sum(T) = fun[x] + Sum(T \ {x})
           Bad == {T \in SUBSET S : ~Good(T)}
<1>1. ASSUME NEW B, B = Bad, B # {} PROVE FALSE
  <2>1. PICK T \in B : \A U \in B : ~(U \subseteq T /\ U # T)
    <3>1. B \in SUBSET SUBSET S /\ B # {}
      BY <1>1
    <3> HIDE DEF Bad, Good
    <3> QED BY <3>1, SmallestSubset
  <2>2. T \in SUBSET S /\ ~Good(T)
    BY <1>1, <2>1
  <2>3. ASSUME NEW U \in SUBSET T, U # T PROVE Good(U)
    BY <1>1, <2>1, <2>2, <2>3
  <2>4. IsFiniteSet(T)
    BY <2>2, FS_Subset
  <2> HIDE DEF Sum
  <2>5. CASE T = {}
    <3>1. Sum(T) = 0
      BY <2>4, <2>5, SumOfPick DEF Sum
    <3> QED BY <2>2, <2>5, <3>1
  <2>6. CASE T # {}
    <3> DEFINE p == Pick(T)
    <3>1. p \in T
      BY <2>6 DEF Pick
    <3>2. Sum(T) = fun[p] + Sum(T \ {p})
      BY <2>4, <2>6, SumOfPick DEF Sum
    <3> HIDE DEF p
    <3>3. T \ {p} \in SUBSET T /\ T \ {p} # T
      BY <3>1
    <3>4. Good(T \ {p})
      BY <2>3, <3>3
    <3>5. Sum(T) \in Int
      BY <2>2, <3>1, <3>2, <3>4
    <3>6. ASSUME NEW x \in T, x # p PROVE Sum(T) = fun[x] + Sum(T \ {x})
      <4>1. Sum(T \ {p}) = fun[x] + Sum((T \ {p}) \ {x})
        BY <3>4, <3>6
      <4>2. T \ {x} \in SUBSET T /\ T \ {x} # T /\ p \in T \ {x}
        BY <3>1, <3>6
      <4>3. Sum(T \ {x}) = fun[p] + Sum((T \ {x}) \ {p})
        BY <2>3, <4>2
      <4>4. (T \ {x}) \ {p} = (T \ {p}) \ {x}
        OBVIOUS
      <4>5. (T \ {x}) \ {p} \in SUBSET T /\ (T \ {x}) \ {p} # T
        BY <3>1
      <4>6. Sum((T \ {x}) \ {p}) \in Int
        BY <2>3, <4>5
      <4>7. fun[x] \in Int /\ fun[p] \in Int
        BY <2>2, <3>1
      <4>8. Sum((T \ {x}) \ {p}) = Sum((T \ {p}) \ {x})
        BY <4>4
      <4> HIDE DEF Good
      <4> QED BY <3>2, <4>1, <4>3, <4>6, <4>7, <4>8
    <3> QED BY <2>2, <3>2, <3>5, <3>6
  <2> QED BY <2>5, <2>6
<1>2. Bad = {}
  <2> HIDE DEF Bad
  <2> QED BY <1>1
<1>3. Good(S)
  BY <1>2
<1> QED BY <1>3

\* A sum is that of a part and that of the rest.
LEMMA SumSplits ==
    ASSUME NEW fun, NEW S, IsFiniteSet(S), \A x \in S : fun[x] \in Int, NEW T \in SUBSET S
    PROVE  /\ SumFunctionOnSet(fun, T) \in Int
           /\ SumFunctionOnSet(fun, S \ T) \in Int
           /\ SumFunctionOnSet(fun, S) = SumFunctionOnSet(fun, T) + SumFunctionOnSet(fun, S \ T)
<1> DEFINE Sum(U) == SumFunctionOnSet(fun, U)
           Bad == {U \in SUBSET T : Sum(S) # Sum(U) + Sum(S \ U)}
<1>1. ASSUME NEW U \in SUBSET S
      PROVE  /\ Sum(U) \in Int
             /\ \A x \in U : Sum(U) = fun[x] + Sum(U \ {x})
  <2>1. IsFiniteSet(U) /\ \A x \in U : fun[x] \in Int
    BY FS_Subset
  <2> QED BY <2>1, SumIsInt
<1> HIDE DEF Sum
<1>2. ASSUME NEW B, B = Bad, B # {} PROVE FALSE
  <2>1. PICK U \in B : \A V \in B : ~(V \subseteq U /\ V # U)
    <3>1. B \in SUBSET SUBSET T /\ B # {} /\ IsFiniteSet(T)
      BY <1>2, FS_Subset
    <3> HIDE DEF Bad
    <3> QED BY <3>1, SmallestSubset
  <2>2. U \in SUBSET T /\ Sum(S) # Sum(U) + Sum(S \ U)
    BY <1>2, <2>1
  <2>3. CASE U = {}
    <3>1. Sum(U) = 0
      BY <2>3, FS_EmptySet, SumOfPick DEF Sum
    <3>2. Sum(S \ U) = Sum(S) /\ Sum(S) \in Int
      <4>1. S \ U = S
        BY <2>3
      <4> QED BY <1>1, <4>1
    <3> QED BY <2>2, <3>1, <3>2
  <2>4. CASE U # {}
    <3>1. PICK x \in U : TRUE
      BY <2>4
    <3>2. U \ {x} \in SUBSET T /\ U \ {x} \subseteq U /\ U \ {x} # U
      BY <2>2, <3>1
    <3>3. Sum(S) = Sum(U \ {x}) + Sum(S \ (U \ {x}))
      BY <1>2, <2>1, <3>2
    <3>4. (S \ (U \ {x})) \ {x} = S \ U /\ x \in S \ (U \ {x})
      BY <2>2, <3>1
    <3>5. Sum(S \ (U \ {x})) = fun[x] + Sum((S \ (U \ {x})) \ {x})
      BY <1>1, <3>4
    <3>6. Sum(S \ (U \ {x})) = fun[x] + Sum(S \ U)
      BY <3>4, <3>5
    <3>7. Sum(U) = fun[x] + Sum(U \ {x})
      BY <1>1, <2>2
    <3>8. Sum(U \ {x}) \in Int /\ Sum(S \ U) \in Int /\ fun[x] \in Int
      BY <1>1, <2>2
    <3> HIDE DEF Bad
    <3> QED BY <2>2, <3>3, <3>6, <3>7, <3>8
  <2> QED BY <2>3, <2>4
<1>3. Bad = {}
  <2> HIDE DEF Bad
  <2> QED BY <1>2
<1>4. Sum(S) = Sum(T) + Sum(S \ T)
  BY <1>3
<1>5. Sum(T) \in Int /\ Sum(S \ T) \in Int
  BY <1>1
<1> QED BY <1>4, <1>5 DEF Sum

\* Sums of natural numbers are natural, and no smaller than those of a part.
LEMMA SumIsNat ==
    ASSUME NEW fun, NEW S, IsFiniteSet(S), \A x \in S : fun[x] \in Nat
    PROVE  /\ SumFunctionOnSet(fun, S) \in Nat
           /\ \A T \in SUBSET S : SumFunctionOnSet(fun, T) <= SumFunctionOnSet(fun, S)
           /\ \A x \in S : fun[x] <= SumFunctionOnSet(fun, S)
<1> DEFINE Sum(U) == SumFunctionOnSet(fun, U)
           Bad == {U \in SUBSET S : Sum(U) \notin Nat}
<1>1. ASSUME NEW U \in SUBSET S
      PROVE  /\ Sum(U) \in Int
             /\ \A x \in U : Sum(U) = fun[x] + Sum(U \ {x})
  <2>1. IsFiniteSet(U) /\ \A x \in U : fun[x] \in Int
    BY FS_Subset
  <2> QED BY <2>1, SumIsInt
<1>2. ASSUME NEW B, B = Bad, B # {} PROVE FALSE
  <2>1. PICK U \in B : \A V \in B : ~(V \subseteq U /\ V # U)
    <3>1. B \in SUBSET SUBSET S /\ B # {}
      BY <1>2
    <3> HIDE DEF Bad
    <3> QED BY <3>1, SmallestSubset
  <2>2. U \in SUBSET S /\ Sum(U) \notin Nat
    BY <1>2, <2>1
  <2>3. U # {}
    <3>1. SumFunctionOnSet(fun, {}) = 0
      BY FS_EmptySet, SumOfPick
    <3> QED BY <2>2, <3>1
  <2>4. PICK x \in U : TRUE
    BY <2>3
  <2>5. U \ {x} \in SUBSET S /\ U \ {x} \subseteq U /\ U \ {x} # U
    BY <2>2, <2>4
  <2>6. Sum(U \ {x}) \in Nat
    BY <1>2, <2>1, <2>5
  <2> HIDE DEF Sum
  <2>7. Sum(U) = fun[x] + Sum(U \ {x}) /\ fun[x] \in Nat
    BY <1>1, <2>2
  <2> QED BY <2>2, <2>6, <2>7
<1>3. Bad = {}
  <2> HIDE DEF Bad
  <2> QED BY <1>2
<1>4. \A U \in SUBSET S : Sum(U) \in Nat
  BY <1>3
<1>5. \A T \in SUBSET S : Sum(T) <= Sum(S)
  <2> SUFFICES ASSUME NEW T \in SUBSET S PROVE Sum(T) <= Sum(S)
    OBVIOUS
  <2>1. Sum(S) = Sum(T) + Sum(S \ T)
    BY SumSplits
  <2>2. Sum(S) \in Nat /\ Sum(T) \in Nat /\ Sum(S \ T) \in Nat
    BY <1>4
  <2> HIDE DEF Sum
  <2> QED BY <2>1, <2>2
<1>6. ASSUME NEW x \in S PROVE fun[x] <= Sum(S)
  <2> HIDE DEF Sum
  <2>1. Sum(S) = fun[x] + Sum(S \ {x})
    BY <1>1
  <2>2. Sum(S \ {x}) \in Nat /\ Sum(S) \in Nat
    BY <1>4
  <2> QED BY <2>1, <2>2
<1> QED BY <1>4, <1>5, <1>6

\* Sums of proportional values are proportional.
LEMMA SumsInProportion ==
    ASSUME NEW f, NEW g, NEW S, IsFiniteSet(S), NEW a \in Int, NEW b \in Int,
           \A x \in S : f[x] \in Int /\ g[x] \in Int /\ f[x] * a = g[x] * b
    PROVE  SumFunctionOnSet(f, S) * a = SumFunctionOnSet(g, S) * b
<1> DEFINE F(T) == SumFunctionOnSet(f, T)
           G(T) == SumFunctionOnSet(g, T)
           Bad == {T \in SUBSET S : F(T) * a # G(T) * b}
<1>1. ASSUME NEW T \in SUBSET S
      PROVE  /\ F(T) \in Int /\ \A x \in T : F(T) = f[x] + F(T \ {x})
             /\ G(T) \in Int /\ \A x \in T : G(T) = g[x] + G(T \ {x})
  <2>1. IsFiniteSet(T) /\ \A x \in T : f[x] \in Int /\ g[x] \in Int
    BY FS_Subset
  <2> QED BY <2>1, SumIsInt
<1>2. F({}) = 0 /\ G({}) = 0
  BY FS_EmptySet, SumOfPick
<1> HIDE DEF F, G
<1>3. ASSUME NEW B, B = Bad, B # {} PROVE FALSE
  <2>1. PICK T \in B : \A U \in B : ~(U \subseteq T /\ U # T)
    <3>1. B \in SUBSET SUBSET S /\ B # {}
      BY <1>3
    <3> HIDE DEF Bad
    <3> QED BY <3>1, SmallestSubset
  <2>2. T \in SUBSET S /\ F(T) * a # G(T) * b
    BY <1>3, <2>1
  <2>3. T # {}
    <3>1. 0 * a = 0 /\ 0 * b = 0
      OBVIOUS
    <3> QED BY <1>2, <2>2, <3>1
  <2>4. PICK x \in T : TRUE
    BY <2>3
  <2>5. T \ {x} \in SUBSET S /\ T \ {x} \subseteq T /\ T \ {x} # T
    BY <2>2, <2>4
  <2>6. F(T \ {x}) * a = G(T \ {x}) * b
    BY <1>3, <2>1, <2>5
  <2>7. /\ F(T) = f[x] + F(T \ {x}) /\ G(T) = g[x] + G(T \ {x})
        /\ F(T \ {x}) \in Int /\ G(T \ {x}) \in Int
    BY <1>1, <2>2, <2>5
  <2>8. f[x] \in Int /\ g[x] \in Int /\ f[x] * a = g[x] * b
    BY <2>2
  <2>9. \A i, j, k \in Int : (i + j) * k = i * k + j * k
    BY SMT
  <2>10. F(T) * a = f[x] * a + F(T \ {x}) * a /\ G(T) * b = g[x] * b + G(T \ {x}) * b
    BY <2>7, <2>8, <2>9
  <2> QED BY <2>2, <2>6, <2>8, <2>10
<1>4. Bad = {}
  <2> HIDE DEF Bad
  <2> QED BY <1>3
<1>5. F(S) * a = G(S) * b
  BY <1>4
<1> QED BY <1>5 DEF F, G

-----------------------------------------------------------------------------
(* Samples of numbers.                                                     *)

SampleOf(b, S) == DOMAIN b \subseteq S /\ IsFiniteSet(DOMAIN b) /\ IsSample(b)

\* How many values of a sample lie in a set.
LEMMA SampleSums ==
    ASSUME NEW b, IsFiniteSet(DOMAIN b), IsSample(b)
    PROVE  /\ Size(b) \in Nat
           /\ \A S : Within(b, S) \in Nat /\ Within(b, S) <= Size(b)
           /\ \A S, T : S \subseteq T => Within(b, S) <= Within(b, T)
           /\ \A S : \A x \in DOMAIN b \cap S : Within(b, S) = b[x] + Within(b, S \ {x})
<1>1. \A x \in DOMAIN b : b[x] \in Nat
  BY DEF IsSample
<1>2. Size(b) \in Nat
  BY <1>1, SumIsNat DEF Size, SumFunction
<1>3. ASSUME NEW T \in SUBSET DOMAIN b
      PROVE  /\ IsFiniteSet(T) /\ SumFunctionOnSet(b, T) \in Nat
             /\ \A U \in SUBSET T : SumFunctionOnSet(b, U) <= SumFunctionOnSet(b, T)
             /\ \A x \in T : SumFunctionOnSet(b, T) = b[x] + SumFunctionOnSet(b, T \ {x})
  <2>1. IsFiniteSet(T) /\ \A x \in T : b[x] \in Nat
    BY <1>1, FS_Subset
  <2>2. \A x \in T : b[x] \in Int
    BY <2>1
  <2>3. /\ SumFunctionOnSet(b, T) \in Nat
        /\ \A U \in SUBSET T : SumFunctionOnSet(b, U) <= SumFunctionOnSet(b, T)
    BY <2>1, SumIsNat
  <2>4. \A x \in T : SumFunctionOnSet(b, T) = b[x] + SumFunctionOnSet(b, T \ {x})
    BY <2>1, <2>2, SumIsInt
  <2> QED BY <2>1, <2>3, <2>4
<1>4. ASSUME NEW S PROVE Within(b, S) \in Nat /\ Within(b, S) <= Size(b)
  <2>1. DOMAIN b \cap S \in SUBSET DOMAIN b
    OBVIOUS
  <2> QED BY <1>3, <2>1 DEF Within, Size, SumFunction
<1>5. ASSUME NEW S, NEW T, S \subseteq T PROVE Within(b, S) <= Within(b, T)
  <2>1. DOMAIN b \cap S \in SUBSET (DOMAIN b \cap T) /\ DOMAIN b \cap T \in SUBSET DOMAIN b
    BY <1>5
  <2> QED BY <1>3, <2>1 DEF Within
<1>6. ASSUME NEW S, NEW x \in DOMAIN b \cap S PROVE Within(b, S) = b[x] + Within(b, S \ {x})
  <2>1. DOMAIN b \cap S \in SUBSET DOMAIN b /\ (DOMAIN b \cap S) \ {x} = DOMAIN b \cap (S \ {x})
    OBVIOUS
  <2> QED BY <1>3, <2>1 DEF Within
<1> QED BY <1>2, <1>4, <1>5, <1>6

\* Sorted, a sample of numbers has a value at each of its places.
LEMMA PlacesHaveValues ==
    ASSUME NEW b, SampleOf(b, Numbers), NEW i \in Nat, i < Size(b)
    PROVE  OrderStatistic(b, i) \in DOMAIN b
<1> DEFINE V == {v \in DOMAIN b : UpTo(b, v) > i}
<1>0. /\ DOMAIN b \subseteq Int /\ DOMAIN b \subseteq Numbers /\ IsFiniteSet(DOMAIN b)
      /\ IsSample(b) /\ \A v \in DOMAIN b : b[v] \in Nat
  BY SamplesAssumption DEF SampleOf, IsSample
<1>1. \A x : UpTo(b, x) \in Nat
  BY <1>0, SampleSums DEF UpTo
<1>2. V # {}
  <2>1. DOMAIN b # {}
    <3>1. SumFunctionOnSet(b, {}) = 0
      BY FS_EmptySet, SumOfPick
    <3> QED BY <3>1 DEF Size, SumFunction
  <2>2. Max(DOMAIN b) \in DOMAIN b /\ \A v \in DOMAIN b : v <= Max(DOMAIN b)
    BY <1>0, <2>1, MaxAndMin
  <2>3. DOMAIN b \cap {v \in Numbers : v <= Max(DOMAIN b)} = DOMAIN b
    BY <1>0, <2>2
  <2>4. UpTo(b, Max(DOMAIN b)) = Size(b)
    BY <2>3 DEF UpTo, Within, Size, SumFunction
  <2> QED BY <2>2, <2>4
<1>3. V \in SUBSET DOMAIN b /\ V \subseteq Int /\ IsFiniteSet(V)
  BY <1>0, FS_Subset
<1> DEFINE m == Min(V)
<1>4. m \in V /\ \A v \in V : m <= v
  BY <1>2, <1>3, MaxAndMin
<1> HIDE DEF m
<1>5. m \in DOMAIN b /\ UpTo(b, m) > i
  BY <1>4
<1> DEFINE Less == {v \in DOMAIN b : v < m}
<1>6. UpTo(b, m) - b[m] = SumFunctionOnSet(b, Less)
  <2>1. UpTo(b, m) = b[m] + Within(b, {v \in Numbers : v <= m} \ {m})
    <3>1. m \in DOMAIN b \cap {v \in Numbers : v <= m}
      BY <1>0, <1>5
    <3> QED BY <1>0, <3>1, SampleSums DEF UpTo
  <2>2. DOMAIN b \cap ({v \in Numbers : v <= m} \ {m}) = Less
    BY <1>0, <1>5
  <2>3. UpTo(b, m) = b[m] + SumFunctionOnSet(b, Less)
    BY <2>1, <2>2 DEF Within
  <2>4. SumFunctionOnSet(b, Less) \in Nat
    <3>1. Within(b, {v \in Numbers : v <= m} \ {m}) \in Nat
      BY <1>0, SampleSums
    <3> QED BY <2>2, <3>1 DEF Within
  <2> HIDE DEF Less
  <2> QED BY <1>0, <1>1, <1>5, <2>3, <2>4
<1>7. SumFunctionOnSet(b, Less) <= i
  <2>1. CASE Less = {}
    <3>1. SumFunctionOnSet(b, Less) = 0
      BY <2>1, FS_EmptySet, SumOfPick
    <3> QED BY <3>1
  <2>2. CASE Less # {}
    <3>1. Less \subseteq Int /\ IsFiniteSet(Less)
      BY <1>0, FS_Subset
    <3> DEFINE w == Max(Less)
    <3>2. w \in Less /\ \A v \in Less : v <= w
      BY <2>2, <3>1, MaxAndMin
    <3> HIDE DEF w
    <3>3. w \in DOMAIN b /\ w < m
      BY <3>2
    <3>4. DOMAIN b \cap {v \in Numbers : v <= w} = Less
      BY <1>0, <1>5, <3>2, <3>3
    <3>5. UpTo(b, w) = SumFunctionOnSet(b, Less)
      BY <3>4 DEF UpTo, Within
    <3>6. w \notin V
      BY <1>0, <1>4, <1>5, <3>3
    <3> QED BY <1>1, <3>3, <3>5, <3>6
  <2> QED BY <2>1, <2>2
<1>8. UpTo(b, m) > i /\ UpTo(b, m) - b[m] <= i
  BY <1>5, <1>6, <1>7
<1>9. \E v \in DOMAIN b : UpTo(b, v) > i /\ UpTo(b, v) - b[v] <= i
  BY <1>5, <1>8
<1> QED BY <1>9 DEF OrderStatistic
-----------------------------------------------------------------------------
(* Quantiles, edges and bins.                                              *)

\* The k-th of n quantiles of m values lies at a place there is, or between two.
LEMMA PlacesOfQuantiles ==
    ASSUME NEW m \in Nat \ {0}, NEW n \in Nat \ {0}, NEW k \in 0..n
    PROVE  /\ ((m - 1) * k) \div n \in 0..(m - 1)
           /\ ((m - 1) * k) % n \in 0..(n - 1)
           /\ ((m - 1) * k) % n # 0 => ((m - 1) * k) \div n + 1 \in 0..(m - 1)
<1> DEFINE place == (m - 1) * k
           q == place \div n
           r == place % n
<1>1. m - 1 \in Nat /\ place \in Nat
  BY SMT
<1>2. place <= (m - 1) * n
  <2>1. (m - 1) * (n - k) \in Nat
    BY SMT
  <2>2. (m - 1) * n = place + (m - 1) * (n - k)
    BY SMT
  <2> QED BY <1>1, <2>1, <2>2
<1>3. q \in Int /\ r \in 0..(n - 1) /\ place = n * q + r
  <2> HIDE DEF place
  <2> QED BY <1>1, SMT
<1> HIDE DEF place, q, r
<1>4. q >= 0
  <2> SUFFICES ASSUME q <= -1 PROVE FALSE
    BY <1>3
  <2>1. n * (-1 - q) \in Nat
    BY <1>3, SMT
  <2>2. n * q = -n - n * (-1 - q)
    BY <1>3, SMT
  <2>3. n * q <= -n
    BY <1>3, <2>1, <2>2
  <2> QED BY <1>1, <1>3, <2>3
<1>5. ASSUME q >= m - 1 + 1 PROVE FALSE
  <2>1. n * (q - m) \in Nat
    BY <1>3, <1>5, SMT
  <2>2. n * q = n * m + n * (q - m)
    BY <1>3, SMT
  <2>3. (m - 1) * n = n * m - n
    BY SMT
  <2>4. n * m \in Nat /\ n * q \in Int
    BY <1>3, SMT
  <2> QED BY <1>2, <1>3, <2>1, <2>2, <2>3, <2>4
<1>6. ASSUME r # 0, q >= m - 1 PROVE FALSE
  <2>1. n * (q - (m - 1)) \in Nat
    BY <1>3, <1>6, SMT
  <2>2. n * q = (m - 1) * n + n * (q - (m - 1))
    BY <1>3, SMT
  <2>3. (m - 1) * n \in Nat /\ n * q \in Int
    BY <1>3, SMT
  <2> QED BY <1>2, <1>3, <1>6, <2>1, <2>2, <2>3
<1> QED BY <1>3, <1>4, <1>5, <1>6 DEF place, q, r

\* A sample that is not empty has its quantiles, and they are whole multiples of 1 / Scale.
LEMMA QuantilesAreNumbers ==
    ASSUME NEW b, SampleOf(b, Numbers), Size(b) # 0
    PROVE  /\ \A k \in 0..NBins : Quantile(b, k) \in Int
           /\ Quantiles(b) \subseteq Int /\ IsFiniteSet(Quantiles(b)) /\ Quantiles(b) # {}
<1>1. Size(b) \in Nat \ {0}
  BY SampleSums DEF SampleOf
<1>2. Scale \in Nat \ {0} /\ NBins \in Nat \ {0}
  BY SamplesAssumption DEF Scale
<1>3. ASSUME NEW k \in 0..NBins PROVE Quantile(b, k) \in Int
  <2> DEFINE place == (Size(b) - 1) * k
             lower == OrderStatistic(b, place \div NBins)
             rest == place % NBins
             upper == IF rest = 0 THEN lower ELSE OrderStatistic(b, place \div NBins + 1)
  <2>1. /\ place \div NBins \in 0..(Size(b) - 1) /\ rest \in 0..(NBins - 1)
        /\ rest # 0 => place \div NBins + 1 \in 0..(Size(b) - 1)
    BY <1>1, <1>2, PlacesOfQuantiles
  <2>2. Quantile(b, k) = Scale * lower + 2 * rest * (upper - lower)
    BY DEF Quantile
  <2>3. DOMAIN b \subseteq Int
    BY SamplesAssumption DEF SampleOf
  <2> HIDE DEF place
  <2>4. lower \in Int
    BY <1>1, <2>1, <2>3, PlacesHaveValues
  <2>5. upper \in Int
    BY <1>1, <2>1, <2>3, <2>4, PlacesHaveValues
  <2> HIDE DEF lower, upper, rest
  <2> QED BY <1>2, <2>1, <2>2, <2>4, <2>5, SMT
<1>4. Quantiles(b) \subseteq Int /\ Quantiles(b) # {}
  <2>1. 0 \in 0..NBins
    BY <1>2
  <2> QED BY <1>3, <2>1 DEF Quantiles
<1>5. IsFiniteSet(Quantiles(b))
  <2> DEFINE f == [k \in 0..NBins |-> Quantile(b, k)]
  <2>1. f \in Surjection(0..NBins, Quantiles(b))
    BY DEF Surjection, Quantiles
  <2>2. IsFiniteSet(0..NBins)
    BY <1>2, FS_Interval
  <2> QED BY <2>1, <2>2, FS_Surjection
<1> QED BY <1>3, <1>4, <1>5

\* The outermost edges lie beyond every number.
LEMMA NumbersAreInside ==
    ASSUME NEW v \in Numbers
    PROVE  Infinity \in Int /\ -Infinity < Scale * v /\ Scale * v < Infinity
<1> DEFINE A == Numbers \cup {-w : w \in Numbers}
<1>1. A \subseteq Int /\ v \in A /\ -v \in A
  <2>1. Numbers \subseteq Int
    BY SamplesAssumption
  <2>2. {-w : w \in Numbers} \subseteq Int
    BY <2>1
  <2>3. -v \in {-w : w \in Numbers}
    OBVIOUS
  <2> QED BY <2>1, <2>2, <2>3
<1>2. IsFiniteSet(A)
  <2> DEFINE f == [w \in Numbers |-> -w]
  <2>1. f \in Surjection(Numbers, {-w : w \in Numbers})
    BY DEF Surjection
  <2>2. IsFiniteSet({-w : w \in Numbers})
    BY <2>1, SamplesAssumption, FS_Surjection
  <2> QED BY <2>2, SamplesAssumption, FS_Union
<1>3. Max(A) \in Int /\ v <= Max(A) /\ -v <= Max(A)
  <2> HIDE DEF A
  <2> QED BY <1>1, <1>2, MaxAndMin
<1> DEFINE a == Max(A)
<1>4. Infinity = Scale * (1 + a)
  BY DEF Infinity
<1>5. Scale \in Nat \ {0} /\ v \in Int
  BY SamplesAssumption DEF Scale
<1> HIDE DEF A
<1>6. a \in Int /\ v <= a /\ -v <= a
  BY <1>3
<1> HIDE DEF a
<1>7. /\ Scale * (a - v) \in Nat /\ Scale * (a + v) \in Nat
      /\ Scale * (1 + a) = Scale + Scale * v + Scale * (a - v)
      /\ Scale * (1 + a) = Scale - Scale * v + Scale * (a + v)
      /\ Scale * v \in Int /\ Scale * (1 + a) \in Int
  <2>1. a - v \in Nat /\ a + v \in Nat
    BY <1>5, <1>6
  <2>2. \A s, x \in Nat : s * x \in Nat
    BY SMT
  <2>3. \A s, x, y \in Int : s * (1 + x) = s + s * y + s * (x - y) /\ s * (1 + x) = s - s * y + s * (x + y)
    BY SMT
  <2> QED BY <1>5, <1>6, <2>1, <2>2, <2>3
<1> QED BY <1>4, <1>5, <1>7

\* For the edges on both sides of a constant reference.
LEMMA PairIsFinite == \A x, y : IsFiniteSet({x, y})
<1> SUFFICES ASSUME NEW x, NEW y PROVE IsFiniteSet({x, y})
  OBVIOUS
<1>1. IsFiniteSet({x} \cup {y})
  BY FS_Singleton, FS_AddElement
<1>2. {x} \cup {y} = {x, y}
  OBVIOUS
<1> QED BY <1>1, <1>2

\* The edges are finitely many multiples of 1 / Scale, the outermost among them.
LEMMA EdgesAreNumbers ==
    ASSUME NEW b, SampleOf(b, Numbers), Size(b) # 0, Numbers # {}
    PROVE  /\ Edges(b) \subseteq Int /\ IsFiniteSet(Edges(b))
           /\ -Infinity \in Edges(b) /\ Infinity \in Edges(b)
<1> DEFINE q == Quantiles(b)
           inner == IF Cardinality(q) < 2 THEN UNION {{x - NBins, x + NBins} : x \in q}
                    ELSE q \ {Min(q), Max(q)}
<1>1. q \subseteq Int /\ IsFiniteSet(q) /\ q # {}
  BY QuantilesAreNumbers
<1>2. Edges(b) = {-Infinity, Infinity} \cup inner
  BY DEF Edges
<1> HIDE DEF q
<1>3. inner \subseteq Int /\ IsFiniteSet(inner)
  <2>1. CASE Cardinality(q) < 2
    <3>1. Cardinality(q) \in Nat /\ Cardinality(q) # 0
      BY <1>1, FS_CardinalityType, FS_EmptySet
    <3>2. PICK x : q = {x}
      <4>1. Cardinality(q) = 1
        BY <2>1, <3>1
      <4> QED BY <1>1, <4>1, FS_Singleton
    <3>3. inner = {x - NBins, x + NBins}
      BY <2>1, <3>2
    <3>4. x \in Int /\ NBins \in Int
      BY <1>1, <3>2, SamplesAssumption
    <3>5. {x - NBins, x + NBins} \subseteq Int
      BY <3>4
    <3> HIDE DEF inner
    <3> QED BY <3>3, <3>5, PairIsFinite
  <2>2. CASE ~(Cardinality(q) < 2)
    <3>1. inner = q \ {Min(q), Max(q)}
      BY <2>2
    <3> QED BY <1>1, <3>1, FS_Difference
  <2> QED BY <2>1, <2>2
<1> HIDE DEF inner
<1>4. Infinity \in Int
  BY NumbersAreInside
<1>5. IsFiniteSet({-Infinity, Infinity})
  BY PairIsFinite
<1>6. IsFiniteSet({-Infinity, Infinity} \cup inner)
  BY <1>3, <1>5, FS_Union
<1> QED BY <1>2, <1>3, <1>4, <1>6

\* Whatever finite set of edges there is around it, a number lies between two of them
\* that are next to each other, and nowhere else.
LEMMA BinsPartition ==
    ASSUME NEW E, E \subseteq Int, IsFiniteSet(E), NEW v \in Numbers,
           NEW lo \in E, NEW hi \in E, lo < Scale * v, Scale * v < hi
    PROVE  \E bin : {c \in Bins(E) : v \in c} = {bin}
<1> DEFINE y == Scale * v
           L == {e \in E : e <= y}
           Above(l) == {e \in E : e > l}
<1>1. y \in Int /\ lo < y /\ y < hi
  <2>1. Scale \in Int /\ v \in Int
    BY SamplesAssumption DEF Scale
  <2> QED BY <2>1, SMT
<1> HIDE DEF y
<1>2. lo \in L /\ L \subseteq Int /\ IsFiniteSet(L)
  <2>1. L \in SUBSET E /\ lo \in L
    BY <1>1
  <2> HIDE DEF L
  <2> QED BY <2>1, FS_Subset
<1> DEFINE l == Max(L)
<1>3. l \in L /\ \A e \in L : e <= l
  BY <1>2, MaxAndMin
<1> HIDE DEF l
<1>4. ASSUME NEW e \in E, e < hi
      PROVE  /\ Min(Above(e)) \in E /\ Min(Above(e)) > e
             /\ \A d \in E : d > e => Min(Above(e)) <= d
  <2>1. hi \in Above(e) /\ Above(e) \subseteq Int /\ IsFiniteSet(Above(e))
    BY <1>4, FS_Subset
  <2>2. Min(Above(e)) \in Above(e) /\ \A d \in Above(e) : Min(Above(e)) <= d
    BY <2>1, MaxAndMin
  <2> QED BY <2>2
<1>5. Max(E) \in E /\ \A e \in E : e <= Max(E)
  BY MaxAndMin
<1>6. ASSUME NEW e \in E
      PROVE  v \in Bin(E, e) <=> e <= y /\ y < Min(Above(e))
  <2>1. v \in Bin(E, e) <=>
            /\ e <= y
            /\ y < Min(Above(e)) \/ (Min(Above(e)) = Max(E) /\ y = Min(Above(e)))
    BY DEF Bin, y
  <2>2. y < Max(E)
    <3>1. hi \in Int /\ Max(E) \in Int /\ hi <= Max(E)
      BY <1>5
    <3> QED BY <1>1, <3>1
  <2> QED BY <1>1, <1>5, <2>1, <2>2
<1>7. l \in E /\ l <= y /\ l < hi /\ l # Max(E) /\ l \in Int
  BY <1>1, <1>3, <1>5
<1>8. \A e \in E : e <= y => e <= l
  BY <1>3
<1> HIDE DEF L
<1>9. v \in Bin(E, l)
  <2> DEFINE m == Min(Above(l))
  <2>1. m \in E /\ m > l
    BY <1>4, <1>7
  <2> HIDE DEF m
  <2>2. y < m
    BY <1>1, <1>7, <1>8, <2>1
  <2> QED BY <1>6, <1>7, <2>2 DEF m
<1>10. ASSUME NEW e \in E, v \in Bin(E, e) PROVE e = l
  <2> DEFINE m == Min(Above(e))
  <2>1. e <= y /\ y < m
    BY <1>6, <1>10
  <2>2. e < hi /\ e <= l
    BY <1>1, <1>8, <2>1
  <2>3. m \in E /\ (l > e => m <= l)
    <3>1. m \in E /\ \A d \in E : d > e => m <= d
      BY <1>4, <2>2
    <3> HIDE DEF m
    <3> QED BY <1>7, <3>1
  <2> HIDE DEF m
  <2> QED BY <1>1, <1>7, <2>1, <2>2, <2>3
<1>11. {c \in Bins(E) : v \in c} = {Bin(E, l)}
  BY <1>7, <1>9, <1>10 DEF Bins
<1> QED BY <1>11
-----------------------------------------------------------------------------
(* Types, and what a check has collected.                                  *)

Collected ==
    [v \in {row.parsed : row \in UsableRows} |->
        SumFunctionOnSet(rows, {row \in UsableRows : row.parsed = v})]

EngineInv ==
    /\ TypeOK
    /\ IsFiniteSet(DOMAIN rows)
    /\ phase # "ingesting" => production = Collected
    /\ phase = "binned" =>
          /\ Enough(reference) /\ Enough(production)
          /\ cells = IF dataType = "numeric" THEN Bins(Edges(reference))
                     ELSE {{c} : c \in DOMAIN reference \cup DOMAIN production}
          /\ IsFiniteSet(cells)

\* What Upload stores is a finite sample of the feature's values.
LEMMA ReferenceIsSample ==
    ASSUME TypeOK
    PROVE  SampleOf(reference, Parsed) /\ (dataType = "numeric" => SampleOf(reference, Numbers))
<1>1. ASSUME NEW values, NEW size \in Nat, reference \in Samples(values, size)
      PROVE  DOMAIN reference \subseteq values /\ IsSample(reference)
  BY <1>1 DEF Samples, IsSample
<1>2. IsFiniteSet(Numbers) /\ IsFiniteSet(Categories)
  BY SamplesAssumption
<1>3. ASSUME NEW values, NEW size \in Nat, reference \in Samples(values, size),
             IsFiniteSet(values)
      PROVE  SampleOf(reference, values)
  BY <1>1, <1>3, FS_Subset DEF SampleOf
<1>4. CASE dataType = "numeric"
  <2>1. SampleOf(reference, Numbers)
    BY <1>2, <1>3, <1>4, SamplesAssumption DEF TypeOK, NumericSamples
  <2> QED BY <1>4, <2>1 DEF SampleOf, Parsed
<1>5. CASE dataType = "categorical"
  <2>1. SampleOf(reference, Categories)
    BY <1>2, <1>3, <1>5, SamplesAssumption DEF TypeOK, CategoricalSamples
  <2> QED BY <1>5, <2>1 DEF Parsed
<1> QED BY <1>4, <1>5 DEF TypeOK

\* The usable rows are those with a parsed value of the feature's type.
LEMMA TypedRows ==
    ASSUME TypeOK
    PROVE  /\ \A row \in DOMAIN rows : rows[row] \in Nat \ {0}
           /\ \A row \in UsableRows : row \in DOMAIN rows /\ row.parsed \in Parsed
           /\ \A row \in DOMAIN rows : row.parsed \in Parsed => row \in UsableRows
<1>1. Nothing \notin Parsed
  BY NothingAssumption DEF Parsed
<1>2. dataType \in {"numeric", "categorical"} /\ IsSample(rows)
  BY DEF TypeOK
<1>3. \A row \in DOMAIN rows :
          /\ row.status \in ObservationStatuses
          /\ row.parsed # Nothing <=> row.status \in {"valid", "unseen_category"}
          /\ row.parsed # Nothing => row.parsed \in Parsed
          /\ row.status = "unseen_category" => dataType = "categorical"
  BY DEF TypeOK
<1>4. \A row \in DOMAIN rows : rows[row] \in Nat \ {0}
  BY <1>2 DEF IsSample
<1>5. \A row \in UsableRows : row \in DOMAIN rows /\ row.parsed \in Parsed
  BY <1>3 DEF UsableRows, Usable
<1>6. \A row \in DOMAIN rows : row.parsed \in Parsed => row \in UsableRows
  BY <1>1, <1>3 DEF UsableRows, Usable
<1> QED BY <1>4, <1>5, <1>6

\* What Collect hands to the engine is a finite sample of the feature's values.
LEMMA CollectedIsSample ==
    ASSUME TypeOK, IsFiniteSet(DOMAIN rows) PROVE SampleOf(Collected, Parsed)
<1> DEFINE Of(v) == {row \in UsableRows : row.parsed = v}
<1>1. UsableRows \in SUBSET DOMAIN rows /\ IsFiniteSet(UsableRows)
  <2>1. UsableRows \in SUBSET DOMAIN rows
    BY DEF UsableRows
  <2> QED BY <2>1, FS_Subset
<1>2. DOMAIN Collected = {row.parsed : row \in UsableRows}
  BY DEF Collected
<1>3. DOMAIN Collected \subseteq Parsed
  BY <1>2, TypedRows
<1>4. IsFiniteSet(DOMAIN Collected)
  <2> DEFINE f == [row \in UsableRows |-> row.parsed]
  <2>1. f \in Surjection(UsableRows, {row.parsed : row \in UsableRows})
    BY DEF Surjection
  <2> QED BY <1>1, <1>2, <2>1, FS_Surjection
<1>5. ASSUME NEW v \in DOMAIN Collected PROVE Collected[v] \in Nat \ {0}
  <2>1. PICK row \in UsableRows : row.parsed = v
    BY <1>2
  <2>2. Collected[v] = SumFunctionOnSet(rows, Of(v))
    BY <1>2 DEF Collected
  <2>3. row \in Of(v) /\ Of(v) \in SUBSET UsableRows
    BY <2>1
  <2>4. IsFiniteSet(Of(v)) /\ \A o \in Of(v) : rows[o] \in Nat /\ rows[o] # 0
    <3>1. IsFiniteSet(Of(v))
      BY <1>1, <2>3, FS_Subset
    <3>2. \A o \in UsableRows : rows[o] \in Nat /\ rows[o] # 0
      BY <1>1, TypedRows
    <3> QED BY <2>3, <3>1, <3>2
  <2> HIDE DEF Of
  <2>5. SumFunctionOnSet(rows, Of(v)) \in Nat /\ rows[row] <= SumFunctionOnSet(rows, Of(v))
    BY <2>3, <2>4, SumIsNat
  <2> QED BY <2>2, <2>3, <2>4, <2>5
<1>6. IsSample(Collected)
  <2>1. Collected = [v \in DOMAIN Collected |-> Collected[v]]
    BY DEF Collected
  <2> QED BY <1>5, <2>1 DEF IsSample
<1> QED BY <1>3, <1>4, <1>6 DEF SampleOf

\* _classify_and_build gives a parsed value to valid and unseen observations only.
LEMMA ObservationsAreTyped ==
    ASSUME TypeOK, NEW text \in {Blank} \cup IF dataType = "numeric"
                                  THEN Numbers \cup {NaN, NoNumber} ELSE Categories
    PROVE  LET row == Classify(text)
           IN  /\ row.status \in ObservationStatuses
               /\ row.parsed # Nothing <=> row.status \in {"valid", "unseen_category"}
               /\ row.parsed # Nothing => row.parsed \in Parsed
               /\ row.status = "unseen_category" => dataType = "categorical"
               /\ row.status = "invalid" => dataType = "numeric"
<1>1. Nothing \notin Parsed
  BY NothingAssumption DEF Parsed
<1>2. dataType \in {"numeric", "categorical"}
  BY DEF TypeOK
<1>3. CASE text = Blank
  BY <1>3 DEF Classify, Observation, ObservationStatuses
<1>4. CASE text # Blank /\ dataType = "numeric" /\ text = NoNumber
  BY <1>4 DEF Classify, Observation, ObservationStatuses
<1>5. CASE text # Blank /\ dataType = "numeric" /\ text # NoNumber
  <2>1. Classify(text) = Observation(text, "valid") /\ text \in Parsed
    BY <1>5 DEF Classify, Parsed
  <2> QED BY <1>1, <1>5, <2>1 DEF Observation, ObservationStatuses
<1>6. CASE text # Blank /\ dataType # "numeric"
  <2>1. dataType = "categorical" /\ Strip[text] \in Parsed
    BY <1>2, <1>6, SamplesAssumption DEF Parsed
  <2>2. \E status \in {"valid", "unseen_category"} :
            Classify(text) = Observation(Strip[text], status)
    BY <1>6, <2>1 DEF Classify
  <2> QED BY <1>1, <2>1, <2>2 DEF Observation, ObservationStatuses
<1> QED BY <1>3, <1>4, <1>5, <1>6

\* One more observation: its bag stays finite and typed.
LEMMA ObserveStep == EngineInv /\ Observe => EngineInv'
<1> SUFFICES ASSUME EngineInv, Observe PROVE EngineInv'
  OBVIOUS
<1>1. PICK text \in {Blank} \cup IF dataType = "numeric"
                                  THEN Numbers \cup {NaN, NoNumber} ELSE Categories :
          rows' = AddTo(rows, Classify(text))
  BY DEF Observe
<1> DEFINE row == Classify(text)
<1>2. phase = "ingesting" /\ UNCHANGED <<dataType, reference, check>>
  BY DEF Observe
<1>3. TypeOK /\ IsFiniteSet(DOMAIN rows) /\ IsSample(rows)
  BY DEF EngineInv, TypeOK
<1>4. /\ row.status \in ObservationStatuses
      /\ row.parsed # Nothing <=> row.status \in {"valid", "unseen_category"}
      /\ row.parsed # Nothing => row.parsed \in Parsed
      /\ row.status = "unseen_category" => dataType = "categorical"
      /\ row.status = "invalid" => dataType = "numeric"
  BY <1>3, ObservationsAreTyped
<1> HIDE DEF row
<1>5. /\ DOMAIN rows' = DOMAIN rows \cup {row}
      /\ \A o \in DOMAIN rows' :
            rows'[o] = (IF o \in DOMAIN rows THEN rows[o] ELSE 0) + (IF o = row THEN 1 ELSE 0)
      /\ rows' = [o \in DOMAIN rows' |-> rows'[o]]
  BY <1>1 DEF AddTo, row
<1>6. IsSample(rows')
  <2>1. \A o \in DOMAIN rows : rows[o] \in Nat \ {0}
    BY <1>3 DEF IsSample
  <2>2. \A o \in DOMAIN rows' : rows'[o] \in Nat \ {0}
    BY <1>5, <2>1
  <2> QED BY <1>5, <2>2 DEF IsSample
<1>7. IsFiniteSet(DOMAIN rows')
  BY <1>3, <1>5, FS_AddElement
<1>8. TypeOK'
  <2>1. Parsed' = Parsed
    BY <1>2 DEF Parsed
  <2>2. \A o \in DOMAIN rows' : \/ o \in DOMAIN rows \/ o = row
    BY <1>5
  <2> QED BY <1>2, <1>3, <1>4, <1>6, <2>1, <2>2 DEF TypeOK, check
<1> QED BY <1>2, <1>7, <1>8 DEF EngineInv, check

\* The cells are finitely many sets of values.
LEMMA MakeCellsStep == EngineInv /\ MakeCells => EngineInv'
<1> SUFFICES ASSUME EngineInv, MakeCells PROVE EngineInv'
  OBVIOUS
<1>1. /\ phase = "collected" /\ phase' = "binned"
      /\ Enough(reference) /\ Enough(production)
      /\ UNCHANGED <<dataType, reference, rows, production, featureStatus>>
      /\ cells' = IF dataType = "numeric" THEN Bins(Edges(reference))
                  ELSE {{c} : c \in DOMAIN reference \cup DOMAIN production}
  BY DEF MakeCells
<1>2. TypeOK /\ dataType \in {"numeric", "categorical"}
  BY DEF EngineInv, TypeOK
<1> DEFINE values == IF dataType = "numeric" THEN Numbers
                     ELSE DOMAIN reference \cup DOMAIN production
<1>3. cells' \subseteq SUBSET values
  <2>1. Bins(Edges(reference)) \subseteq SUBSET Numbers
    BY DEF Bins, Bin
  <2> QED BY <1>1, <2>1
<1>4. values \subseteq Parsed /\ IsFiniteSet(values)
  <2>1. production = Collected /\ IsFiniteSet(DOMAIN rows)
    BY <1>1 DEF EngineInv
  <2>2. SampleOf(reference, Parsed) /\ SampleOf(production, Parsed)
    BY <1>2, <2>1, ReferenceIsSample, CollectedIsSample
  <2>3. IsFiniteSet(DOMAIN reference \cup DOMAIN production)
    BY <2>2, FS_Union DEF SampleOf
  <2> QED BY <2>2, <2>3, SamplesAssumption DEF SampleOf, Parsed
<1> HIDE DEF values
<1>5. IsFiniteSet(cells')
  BY <1>3, <1>4, FS_SUBSET, FS_Subset
<1>6. Parsed' = Parsed
  BY <1>1 DEF Parsed
<1>7. TypeOK'
  BY <1>1, <1>2, <1>3, <1>4, <1>6 DEF TypeOK
<1>8. Collected' = Collected
  BY <1>1 DEF Collected, UsableRows, Usable
<1> QED BY <1>1, <1>5, <1>7, <1>8 DEF EngineInv

\* Every step keeps the invariant; what was collected stays what it was, for nothing is
\* ingested behind a check.
LEMMA EngineInvStep == EngineInv /\ [Next]_vars => EngineInv'
<1> SUFFICES ASSUME EngineInv, [Next]_vars PROVE EngineInv'
  OBVIOUS
<1>0. TypeOK /\ IsFiniteSet(DOMAIN rows)
  BY DEF EngineInv
<1>1. CASE Upload
  <2>1. /\ phase = "ingesting" /\ UNCHANGED <<dataType, rows, check>>
        /\ reference' \in IF dataType = "numeric" THEN NumericSamples ELSE CategoricalSamples
    BY <1>1 DEF Upload
  <2>2. Parsed' = Parsed
    BY <2>1 DEF Parsed
  <2>3. TypeOK'
    BY <1>0, <2>1, <2>2 DEF TypeOK, check
  <2> QED BY <1>0, <2>1, <2>3 DEF EngineInv, check
<1>2. CASE Observe
  BY <1>2, ObserveStep
<1>3. CASE Collect
  <2>1. /\ phase = "ingesting" /\ phase' = "collected" /\ production' = Collected
        /\ UNCHANGED <<dataType, reference, rows, cells, featureStatus>>
    BY <1>3 DEF Collect, Collected
  <2>2. Parsed' = Parsed /\ Collected' = Collected
    BY <2>1 DEF Parsed, Collected, UsableRows, Usable
  <2>3. IsSample(Collected) /\ DOMAIN Collected \subseteq Parsed
    BY <1>0, CollectedIsSample DEF SampleOf
  <2>4. TypeOK'
    BY <1>0, <2>1, <2>2, <2>3 DEF TypeOK
  <2> QED BY <1>0, <2>1, <2>2, <2>4 DEF EngineInv
<1>4. CASE MakeCells
  BY <1>4, MakeCellsStep
<1>5. CASE Evaluate \/ ReportInsufficient
  <2>1. /\ phase \in {"binned", "collected"} /\ phase' = "evaluated"
        /\ UNCHANGED <<dataType, reference, rows, production, cells>>
        /\ featureStatus' \in MetricStatuses \cup {"insufficient_data"}
    BY <1>5 DEF Evaluate, ReportInsufficient, Overall, MetricStatuses
  <2>2. Parsed' = Parsed /\ Collected' = Collected
    BY <2>1 DEF Parsed, Collected, UsableRows, Usable
  <2>3. featureStatus' # Nothing
    BY <2>1, NothingAssumption
  <2>4. TypeOK'
    BY <1>0, <2>1, <2>2, <2>3 DEF TypeOK
  <2> QED BY <1>0, <2>1, <2>2, <2>4 DEF EngineInv
<1>6. CASE UNCHANGED vars
  <2>1. /\ UNCHANGED <<dataType, reference, rows, phase, production, cells, featureStatus>>
    BY <1>6 DEF vars, check
  <2>2. Parsed' = Parsed /\ Collected' = Collected
    BY <2>1 DEF Parsed, Collected, UsableRows, Usable
  <2>3. TypeOK'
    BY <1>0, <2>1, <2>2 DEF TypeOK
  <2> QED BY <2>1, <2>2, <2>3 DEF EngineInv
<1> QED BY <1>1, <1>2, <1>3, <1>4, <1>5, <1>6 DEF Next

\* The invariant holds at the start.
LEMMA EngineInvInit == Init => EngineInv
<1> SUFFICES ASSUME Init PROVE EngineInv
  OBVIOUS
<1>1. <<>> = [v \in {} |-> 1] /\ DOMAIN <<>> = {}
  OBVIOUS
<1>2. ASSUME NEW values, NEW size \in Nat PROVE <<>> \in Samples(values, size)
  <2>1. SumFunction(<<>>) = 0
    BY <1>1, FS_EmptySet, SumOfPick DEF SumFunction
  <2>2. <<>> \in [{} -> 1..size]
    BY <1>1
  <2>3. <<>> \in {b \in [{} -> 1..size] : SumFunction(b) <= size}
    BY <2>1, <2>2
  <2>4. {} \in SUBSET values
    OBVIOUS
  <2> DEFINE Bags(vs) == {b \in [vs -> 1..size] : SumFunction(b) <= size}
  <2>5. Samples(values, size) = UNION {Bags(vs) : vs \in SUBSET values}
    BY DEF Samples
  <2>6. <<>> \in Bags({})
    BY <2>3
  <2> HIDE DEF Bags
  <2> QED BY <2>4, <2>5, <2>6
<1>3. IsSample(<<>>)
  BY <1>1 DEF IsSample
<1>4. TypeOK
  BY <1>1, <1>2, <1>3, SamplesAssumption DEF Init, TypeOK, NumericSamples, CategoricalSamples
<1> QED BY <1>1, <1>4, FS_EmptySet DEF Init, EngineInv

\* Everything a check works with keeps its type: in particular each value it has
\* collected was given a whole and positive number of times (run_drift_check,
\* drift_service.py, and _classify_and_build, ingestion_service.py).
THEOREM TypeCorrect == Spec => []TypeOK
<1>1. EngineInv => TypeOK
  BY DEF EngineInv
<1> QED BY <1>1, EngineInvInit, EngineInvStep, PTL DEF Spec

\* The inductive invariant of DriftEngine.
LEMMA EngineInvariance == Spec => []EngineInv
BY EngineInvInit, EngineInvStep, PTL DEF Spec

\* The bins of a reference partition the numbers.
LEMMA NumbersAreBinned == EngineInv => NumbersFallIntoOneBin
<1> SUFFICES ASSUME EngineInv, dataType = "numeric", phase = "binned", NEW v \in Numbers
             PROVE  Cardinality({bin \in cells : v \in bin}) = 1
  BY DEF NumbersFallIntoOneBin
<1> DEFINE E == Edges(reference)
<1>1. cells = Bins(E) /\ Enough(reference) /\ TypeOK
  BY DEF EngineInv
<1>2. SampleOf(reference, Numbers)
  BY <1>1, ReferenceIsSample
<1>3. Size(reference) # 0
  BY <1>1, SamplesAssumption DEF Enough
<1>4. E \subseteq Int /\ IsFiniteSet(E) /\ -Infinity \in E /\ Infinity \in E
  BY <1>2, <1>3, EdgesAreNumbers
<1>5. -Infinity < Scale * v /\ Scale * v < Infinity
  BY NumbersAreInside
<1> HIDE DEF E
<1>6. PICK bin : {c \in Bins(E) : v \in c} = {bin}
  BY <1>4, <1>5, BinsPartition
<1> QED BY <1>1, <1>6, FS_Singleton

\* numeric_bin_edges (metrics.py) with whatever reference there is, constant, of two
\* values, or with gaps: the quantiles exist, so that the edges are numbers, and each
\* number a window can hold falls into exactly one bin.
THEOREM NumbersAreInOneBin == Spec => []NumbersFallIntoOneBin
BY EngineInvariance, NumbersAreBinned, PTL
-----------------------------------------------------------------------------
(* A window distributed like the reference.                                *)

\* What was collected of some values is what was observed of them.
LEMMA CollectedIsObserved ==
    ASSUME TypeOK, IsFiniteSet(DOMAIN rows), NEW V \in SUBSET Parsed
    PROVE  Within(Collected, V) = ObservedIn(V)
<1> DEFINE P == DOMAIN Collected
           Of(T) == {row \in UsableRows : row.parsed \in T}
           Sum(S) == SumFunctionOnSet(rows, S)
           Got(T) == SumFunctionOnSet(Collected, T)
           Bad == {T \in SUBSET P : Got(T) # Sum(Of(T))}
<1>1. UsableRows \in SUBSET DOMAIN rows /\ IsFiniteSet(UsableRows)
  <2>1. UsableRows \in SUBSET DOMAIN rows
    BY DEF UsableRows
  <2> QED BY <2>1, FS_Subset
<1>2. SampleOf(Collected, Parsed) /\ IsFiniteSet(P)
  BY CollectedIsSample DEF SampleOf
<1>3. /\ P = {row.parsed : row \in UsableRows}
      /\ \A v \in P : Collected[v] = Sum({row \in UsableRows : row.parsed = v})
  BY DEF Collected
<1>4. ASSUME NEW T \in SUBSET P, NEW v \in T
      PROVE  Got(T) = Collected[v] + Got(T \ {v})
  <2>1. IsFiniteSet(T) /\ \A w \in T : Collected[w] \in Int
    BY <1>2, FS_Subset DEF SampleOf, IsSample
  <2> QED BY <2>1, SumIsInt
<1>5. ASSUME NEW T \in SUBSET P, NEW v \in T
      PROVE  Sum(Of(T)) = Collected[v] + Sum(Of(T \ {v}))
  <2> DEFINE R == {row \in UsableRows : row.parsed = v}
  <2>1. R \in SUBSET Of(T) /\ Of(T) \ R = Of(T \ {v})
    BY <1>5
  <2>2. IsFiniteSet(Of(T)) /\ \A row \in Of(T) : rows[row] \in Int
    <3>1. Of(T) \in SUBSET UsableRows
      OBVIOUS
    <3>2. \A row \in UsableRows : rows[row] \in Int
      BY <1>1, TypedRows
    <3> HIDE DEF Of
    <3> QED BY <1>1, <3>1, <3>2, FS_Subset
  <2>3. Collected[v] = Sum(R)
    BY <1>3, <1>5
  <2> HIDE DEF Of, R
  <2>4. Sum(Of(T)) = Sum(R) + Sum(Of(T) \ R)
    BY <2>1, <2>2, SumSplits
  <2> QED BY <2>1, <2>3, <2>4
<1>6. Got({}) = 0 /\ Sum(Of({})) = 0
  <2>1. Of({}) = {}
    OBVIOUS
  <2> QED BY <2>1, FS_EmptySet, SumOfPick
<1> HIDE DEF Got, Sum, P
<1>7. ASSUME NEW B, B = Bad, B # {} PROVE FALSE
  <2>1. PICK T \in B : \A U \in B : ~(U \subseteq T /\ U # T)
    <3>1. B \in SUBSET SUBSET P /\ B # {}
      BY <1>7
    <3> HIDE DEF Bad
    <3> QED BY <1>2, <3>1, SmallestSubset
  <2>2. T \in SUBSET P /\ Got(T) # Sum(Of(T))
    BY <1>7, <2>1
  <2>3. T # {}
    BY <1>6, <2>2
  <2>4. PICK v \in T : TRUE
    BY <2>3
  <2>5. T \ {v} \in SUBSET P /\ T \ {v} \subseteq T /\ T \ {v} # T
    BY <2>2, <2>4
  <2>6. Got(T \ {v}) = Sum(Of(T \ {v}))
    BY <1>7, <2>1, <2>5
  <2> HIDE DEF Of
  <2> QED BY <1>4, <1>5, <2>2, <2>4, <2>6
<1>8. Bad = {}
  <2> HIDE DEF Bad
  <2> QED BY <1>7
<1>9. P \cap V \in SUBSET P
  OBVIOUS
<1>10. Got(P \cap V) = Sum(Of(P \cap V))
  BY <1>8, <1>9
<1>11. Of(P \cap V) = {row \in DOMAIN rows : row.parsed \in V}
  <2>1. \A row \in UsableRows : row.parsed \in P /\ row \in DOMAIN rows
    BY <1>1, <1>3
  <2>2. \A row \in DOMAIN rows : row.parsed \in V => row \in UsableRows
    BY TypedRows
  <2> QED BY <2>1, <2>2
<1> QED BY <1>10, <1>11 DEF Got, Sum, P, Within, ObservedIn

\* How often a sample has one value.
LEMMA WithinOne ==
    ASSUME NEW b, IsFiniteSet(DOMAIN b), IsSample(b), NEW v
    PROVE  Within(b, {v}) = IF v \in DOMAIN b THEN b[v] ELSE 0
<1>1. SumFunctionOnSet(b, {}) = 0
  BY FS_EmptySet, SumOfPick
<1>2. CASE v \in DOMAIN b
  <2>1. Within(b, {v}) = b[v] + Within(b, {v} \ {v})
    BY <1>2, SampleSums
  <2>2. DOMAIN b \cap ({v} \ {v}) = {}
    OBVIOUS
  <2>3. Within(b, {v} \ {v}) = 0
    BY <1>1, <2>2 DEF Within
  <2>4. b[v] \in Int
    BY <1>2 DEF IsSample
  <2> QED BY <1>2, <2>1, <2>3, <2>4
<1>3. CASE v \notin DOMAIN b
  <2>1. DOMAIN b \cap {v} = {}
    BY <1>3
  <2> QED BY <1>1, <1>3, <2>1 DEF Within
<1> QED BY <1>2, <1>3

\* Equal products with one factor in common.
LEMMA CancelFactor ==
    ASSUME NEW x \in Int, NEW y \in Int, NEW n \in Nat \ {0}, x * n = y * n
    PROVE  x = y
<1>1. CASE x < y
  <2>1. (y - x) * n > 0
    BY <1>1, SMT
  <2>2. (y - x) * n = y * n - x * n
    BY SMT
  <2> QED BY <2>1, <2>2, SMT
<1>2. CASE y < x
  <2>1. (x - y) * n > 0
    BY <1>2, SMT
  <2>2. (x - y) * n = x * n - y * n
    BY SMT
  <2> QED BY <2>1, <2>2, SMT
<1> QED BY <1>1, <1>2

\* The premise of UnchangedSamplesAreOk.
Unchanged ==
    /\ Enough(reference)
    /\ ObservedIn(Parsed) >= MinUsable
    /\ \A v \in Parsed :
          Within(reference, {v}) * ObservedIn(Parsed) = ObservedIn({v}) * Size(reference)

\* Then every set of values has the same share of both sides.
LEMMA SharesAreEqual ==
    ASSUME EngineInv, production = Collected, Unchanged
    PROVE  /\ SampleOf(reference, Parsed) /\ SampleOf(production, Parsed)
           /\ Size(production) = ObservedIn(Parsed)
           /\ Size(reference) \in Nat \ {0} /\ Size(production) \in Nat \ {0}
           /\ \A S : Within(reference, S) * Size(production) = Within(production, S) * Size(reference)
<1> DEFINE n == Size(reference)
           m == Size(production)
<1>1. TypeOK /\ IsFiniteSet(DOMAIN rows)
  BY DEF EngineInv
<1>2. SampleOf(reference, Parsed) /\ SampleOf(production, Parsed)
  BY <1>1, ReferenceIsSample, CollectedIsSample
<1>3. m = ObservedIn(Parsed)
  <2>1. Within(production, Parsed) = ObservedIn(Parsed)
    BY <1>1, CollectedIsObserved
  <2>2. DOMAIN production \cap Parsed = DOMAIN production
    BY <1>2 DEF SampleOf
  <2> QED BY <2>1, <2>2 DEF Within, Size, SumFunction
<1>4. n \in Nat \ {0} /\ m \in Nat \ {0}
  <2>1. n \in Nat /\ m \in Nat
    BY <1>2, SampleSums DEF SampleOf
  <2> QED BY <1>3, <2>1, SamplesAssumption DEF Unchanged, Enough
<1>5. ASSUME NEW v \in Parsed
      PROVE  Within(reference, {v}) * m = Within(production, {v}) * n
  <2>1. Within(production, {v}) = ObservedIn({v})
    BY <1>1, <1>5, CollectedIsObserved
  <2> QED BY <1>3, <2>1 DEF Unchanged
<1>6. /\ \A v : Within(reference, {v}) = IF v \in DOMAIN reference THEN reference[v] ELSE 0
      /\ \A v : Within(production, {v}) = IF v \in DOMAIN production THEN production[v] ELSE 0
  BY <1>2, WithinOne DEF SampleOf
<1>7. /\ \A v \in DOMAIN reference : v \in Parsed /\ reference[v] \in Nat \ {0}
      /\ \A v \in DOMAIN production : v \in Parsed /\ production[v] \in Nat \ {0}
  BY <1>2 DEF SampleOf, IsSample
<1> HIDE DEF n, m
<1>8. \A i, j \in Nat \ {0} : i * j # 0 * i /\ 0 * i = 0 /\ 0 * j = 0 /\ i * j # 0
  BY SMT
<1>9. DOMAIN reference = DOMAIN production
  <2>1. ASSUME NEW v \in DOMAIN reference PROVE v \in DOMAIN production
    <3>1. reference[v] * m # 0
      BY <1>4, <1>7, <1>8
    <3>2. Within(production, {v}) * n = reference[v] * m
      BY <1>5, <1>6, <1>7
    <3> QED BY <1>4, <1>6, <1>8, <3>1, <3>2
  <2>2. ASSUME NEW v \in DOMAIN production PROVE v \in DOMAIN reference
    <3>1. production[v] * n # 0
      BY <1>4, <1>7, <1>8
    <3>2. Within(reference, {v}) * m = production[v] * n
      BY <1>5, <1>6, <1>7
    <3> QED BY <1>4, <1>6, <1>8, <3>1, <3>2
  <2> QED BY <2>1, <2>2
<1>10. \A v \in DOMAIN reference : reference[v] * m = production[v] * n
  BY <1>5, <1>6, <1>7, <1>9
<1>11. ASSUME NEW S PROVE Within(reference, S) * m = Within(production, S) * n
  <2> DEFINE D == DOMAIN reference \cap S
  <2>1. IsFiniteSet(D)
    BY <1>2, FS_Intersection DEF SampleOf
  <2>2. \A v \in D : /\ reference[v] \in Int /\ production[v] \in Int
                      /\ reference[v] * m = production[v] * n
    BY <1>7, <1>9, <1>10
  <2> HIDE DEF D
  <2>3. SumFunctionOnSet(reference, D) * m = SumFunctionOnSet(production, D) * n
    BY <1>4, <2>1, <2>2, SumsInProportion
  <2> QED BY <1>9, <2>3 DEF Within, D
<1> QED BY <1>2, <1>3, <1>4, <1>11 DEF n, m

\* Equal shares of every set of values make every metric 0.
LEMMA EvaluateUnchanged ==
    ASSUME EngineInv, Evaluate, Unchanged PROVE featureStatus' = "ok"
<1> DEFINE n == Size(reference)
           m == Size(production)
<1>1. production = Collected /\ IsFiniteSet(cells)
  BY DEF EngineInv, Evaluate
<1>2. /\ SampleOf(reference, Parsed) /\ SampleOf(production, Parsed)
      /\ n \in Nat \ {0} /\ m \in Nat \ {0}
      /\ \A S : Within(reference, S) * m = Within(production, S) * n
  BY <1>1, SharesAreEqual
<1>3. \A S : Within(reference, S) \in Nat /\ Within(production, S) \in Nat
  BY <1>2, SampleSums DEF SampleOf
<1> HIDE DEF n, m
<1>4. /\ Total(reference) \in Int /\ Total(production) \in Int
      /\ Total(reference) * m = Total(production) * n
  <2> DEFINE f == [cell \in cells |-> Within(reference, cell)]
             g == [cell \in cells |-> Within(production, cell)]
  <2>1. Total(reference) = SumFunctionOnSet(f, cells)
    BY DEF Total, SumFunction
  <2>2. Total(production) = SumFunctionOnSet(g, cells)
    BY DEF Total, SumFunction
  <2>3. \A c \in cells : f[c] \in Int /\ g[c] \in Int /\ f[c] * m = g[c] * n
    BY <1>2, <1>3
  <2> HIDE DEF f, g
  <2>4. SumFunctionOnSet(f, cells) * m = SumFunctionOnSet(g, cells) * n
    BY <1>1, <1>2, <2>3, SumsInProportion
  <2>5. SumFunctionOnSet(f, cells) \in Int /\ SumFunctionOnSet(g, cells) \in Int
    BY <1>1, <2>3, SumIsInt
  <2> QED BY <2>1, <2>2, <2>4, <2>5
<1>5. SameShares
  <2> SUFFICES ASSUME NEW c \in cells
               PROVE  Within(reference, c) * Total(production) = Within(production, c) * Total(reference)
    BY DEF SameShares
  <2> DEFINE r == Within(reference, c)
             p == Within(production, c)
             R == Total(reference)
             P == Total(production)
  <2>1. r \in Int /\ p \in Int /\ R \in Int /\ P \in Int /\ r * m = p * n /\ R * m = P * n
    BY <1>2, <1>3, <1>4
  <2> HIDE DEF r, p, R, P
  <2>2. \A i, j, k \in Int : (i * j) * k = i * (j * k) /\ i * j = j * i /\ i * j \in Int
    BY SMT
  <2>3. (r * P) * n = r * (P * n)
    BY <1>2, <2>1, <2>2
  <2>4. r * (P * n) = r * (R * m)
    BY <2>1
  <2>5. r * (R * m) = R * (r * m)
    <3>1. r * (R * m) = (r * R) * m /\ R * (r * m) = (R * r) * m /\ r * R = R * r
      BY <1>2, <2>1, <2>2
    <3> QED BY <3>1
  <2>6. R * (r * m) = R * (p * n)
    BY <2>1
  <2>7. R * (p * n) = (p * R) * n
    <3>1. R * (p * n) = (R * p) * n /\ R * p = p * R
      BY <1>2, <2>1, <2>2
    <3> QED BY <3>1
  <2>8. (r * P) * n = (p * R) * n
    BY <2>3, <2>4, <2>5, <2>6, <2>7
  <2>9. r * P \in Int /\ p * R \in Int
    BY <2>1, <2>2
  <2>10. r * P = p * R
    BY <1>2, <2>8, <2>9, CancelFactor
  <2> QED BY <2>10 DEF r, p, R, P
<1>6. PsiStatuses = {"ok"} /\ JsStatuses = {"ok"}
  BY <1>5 DEF PsiStatuses, JsStatuses
<1>7. CASE dataType = "categorical"
  BY <1>6, <1>7 DEF Evaluate, Overall
<1>8. CASE dataType = "numeric"
  <2> DEFINE d(x) == UpTo(reference, x) * m - UpTo(production, x) * n
  <2>1. \A x \in Numbers : d(x) = 0
    <3> SUFFICES ASSUME NEW x \in Numbers PROVE d(x) = 0
      OBVIOUS
    <3>1. UpTo(reference, x) * m = UpTo(production, x) * n
      BY <1>2 DEF UpTo
    <3>2. UpTo(production, x) \in Int
      BY <1>3 DEF UpTo
    <3>3. UpTo(production, x) * n \in Int
      BY <1>2, <3>2, SMT
    <3> QED BY <3>1, <3>3
  <2>2. Numbers # {}
    <3>1. SampleOf(reference, Numbers)
      BY <1>8, ReferenceIsSample DEF EngineInv
    <3>2. DOMAIN reference # {}
      <4>1. SumFunctionOnSet(reference, {}) = 0
        BY FS_EmptySet, SumOfPick
      <4> QED BY <1>2, <4>1 DEF n, Size, SumFunction
    <3> QED BY <3>1, <3>2 DEF SampleOf
  <2>3. Distance = 0
    <3>1. Distance = Max({IF d(x) < 0 THEN -d(x) ELSE d(x) : x \in Numbers})
      BY DEF Distance, n, m
    <3> HIDE DEF d
    <3>2. {IF d(x) < 0 THEN -d(x) ELSE d(x) : x \in Numbers} = {0}
      BY <2>1, <2>2
    <3>3. Max({0}) = 0
      BY DEF Max
    <3> QED BY <3>1, <3>2, <3>3
  <2>4. n * m > 0
    BY <1>2, SMT
  <2>5. KsStatuses = {"ok"}
    BY <2>3, <2>4 DEF KsStatuses, n, m
  <2> QED BY <1>6, <1>8, <2>5 DEF Evaluate, Overall
<1> QED BY <1>7, <1>8 DEF EngineInv, TypeOK

\* UnchangedSamplesAreOk, with its premise named.
LEMMA UnchangedIsPremise ==
    UnchangedSamplesAreOk <=> (phase = "evaluated" /\ Unchanged => featureStatus = "ok")
BY DEF UnchangedSamplesAreOk, Unchanged

\* A check that is evaluated has equal shares, or did not have enough values.
LEMMA UnchangedStep == EngineInv /\ UnchangedSamplesAreOk /\ [Next]_vars => UnchangedSamplesAreOk'
<1> SUFFICES ASSUME EngineInv, UnchangedSamplesAreOk, [Next]_vars,
                    phase' = "evaluated", Unchanged'
             PROVE  featureStatus' = "ok"
  BY DEF UnchangedSamplesAreOk, Unchanged
<1>1. ASSUME UNCHANGED <<dataType, reference, rows>> PROVE Unchanged
  BY <1>1 DEF Unchanged, Parsed, ObservedIn
<1>2. CASE Evaluate
  <2>1. Unchanged
    BY <1>1, <1>2 DEF Evaluate
  <2> QED BY <1>2, <2>1, EvaluateUnchanged
<1>3. CASE ReportInsufficient
  <2>1. Unchanged /\ phase = "collected"
    BY <1>1, <1>3 DEF ReportInsufficient
  <2>2. production = Collected
    BY <2>1 DEF EngineInv
  <2>3. Enough(production)
    BY <2>1, <2>2, SharesAreEqual DEF Enough, Unchanged
  <2> QED BY <1>3, <2>1, <2>3 DEF ReportInsufficient, Unchanged
<1>4. CASE UNCHANGED vars
  <2>1. Unchanged /\ phase = "evaluated" /\ featureStatus' = featureStatus
    BY <1>1, <1>4 DEF vars, check
  <2> QED BY <2>1, UnchangedIsPremise
<1>5. CASE Upload \/ Observe \/ Collect \/ MakeCells
  BY <1>5 DEF Upload, Observe, Collect, MakeCells, check
<1> QED BY <1>2, <1>3, <1>4, <1>5 DEF Next

\* evaluate_numeric_feature and evaluate_categorical_feature (engine.py): if each value
\* has the same share of the window as of the reference, then, however both are cut into
\* bins or categories, PSI, JS and KS see no difference. Missing and invalid observations
\* do not count, and it does not matter by which snapshot categories were judged.
THEOREM UnchangedStaysOk == Spec => []UnchangedSamplesAreOk
<1>1. Init => UnchangedSamplesAreOk
  BY DEF Init, UnchangedSamplesAreOk
<1> QED BY <1>1, EngineInvariance, UnchangedStep, PTL DEF Spec

-----------------------------------------------------------------------------
(* A window of new values only.                                            *)

\* The values that NewValuesDrift calls new, and its premise.
New == IF dataType = "categorical" THEN Categories \ DOMAIN reference
       ELSE {v \in Numbers : \/ \A w \in DOMAIN reference : v < w
                             \/ \A w \in DOMAIN reference : v > w}

OnlyNew ==
    /\ Enough(reference)
    /\ ObservedIn(New) >= MinUsable
    /\ ObservedIn(Parsed \ New) = 0

\* NewValuesDrift, with its premise named.
LEMMA NewIsPremise ==
    NewValuesDrift <=> (phase = "evaluated" /\ OnlyNew => featureStatus = "drifted")
BY DEF NewValuesDrift, OnlyNew, New

\* Then all that was collected is new, and it is enough.
LEMMA CollectedIsNew ==
    ASSUME EngineInv, production = Collected, OnlyNew
    PROVE  /\ SampleOf(reference, Parsed) /\ SampleOf(production, Parsed)
           /\ DOMAIN production \subseteq New
           /\ Enough(production)
           /\ Size(reference) \in Nat \ {0} /\ Size(production) \in Nat \ {0}
           /\ DOMAIN reference # {}
<1>1. TypeOK /\ IsFiniteSet(DOMAIN rows)
  BY DEF EngineInv
<1>2. SampleOf(reference, Parsed) /\ SampleOf(production, Parsed)
  BY <1>1, ReferenceIsSample, CollectedIsSample
<1>3. New \in SUBSET Parsed /\ Parsed \ New \in SUBSET Parsed
  <2>1. CASE dataType = "numeric"
    BY <2>1 DEF New, Parsed
  <2>2. CASE dataType = "categorical"
    BY <2>2 DEF New, Parsed
  <2> QED BY <1>1, <2>1, <2>2 DEF TypeOK
<1>4. Within(production, New) >= MinUsable /\ Within(production, Parsed \ New) = 0
  BY <1>1, <1>3, CollectedIsObserved DEF OnlyNew
<1>5. /\ Size(reference) \in Nat /\ Size(production) \in Nat
      /\ Within(production, New) \in Nat /\ Within(production, New) <= Size(production)
  BY <1>2, SampleSums DEF SampleOf
<1>6. Size(production) >= MinUsable /\ Size(reference) >= MinUsable /\ MinUsable \in Nat \ {0}
  BY <1>4, <1>5, SamplesAssumption DEF OnlyNew, Enough
<1>7. ASSUME NEW v \in DOMAIN production, v \notin New PROVE FALSE
  <2>1. v \in DOMAIN production \cap (Parsed \ New)
    BY <1>2, <1>7 DEF SampleOf
  <2>2. /\ Within(production, Parsed \ New) = production[v] + Within(production, (Parsed \ New) \ {v})
        /\ Within(production, (Parsed \ New) \ {v}) \in Nat
    BY <1>2, <2>1, SampleSums DEF SampleOf
  <2>3. production[v] \in Nat \ {0}
    BY <1>2 DEF SampleOf, IsSample
  <2> QED BY <1>4, <2>2, <2>3
<1>8. DOMAIN reference # {}
  <2>1. SumFunctionOnSet(reference, {}) = 0
    BY FS_EmptySet, SumOfPick
  <2> QED BY <1>6, <2>1 DEF Size, SumFunction
<1> QED BY <1>2, <1>5, <1>6, <1>7, <1>8 DEF Enough

\* Half of the new numbers or more lie on one side of the reference, and there the
\* distribution functions are half apart or more, whatever the bins see.
LEMMA KsSeesNewNumbers ==
    ASSUME EngineInv, production = Collected, OnlyNew, dataType = "numeric"
    PROVE  KsStatuses = {"drifted"}
<1> DEFINE n == Size(reference)
           m == Size(production)
           Below == {v \in Numbers : \A w \in DOMAIN reference : v < w}
           Above == {v \in Numbers : \A w \in DOMAIN reference : v > w}
           below == Within(production, Below)
           above == Within(production, Above)
           d(x) == UpTo(reference, x) * m - UpTo(production, x) * n
           D == {IF d(x) < 0 THEN -d(x) ELSE d(x) : x \in Numbers}
<1>1. /\ SampleOf(reference, Parsed) /\ SampleOf(production, Parsed)
      /\ DOMAIN production \subseteq Below \cup Above
      /\ n \in Nat \ {0} /\ m \in Nat \ {0}
      /\ DOMAIN reference # {}
  BY CollectedIsNew DEF New
<1>2. SampleOf(reference, Numbers)
  BY ReferenceIsSample DEF EngineInv
<1>3. Numbers \subseteq Int /\ IsFiniteSet(Numbers) /\ NaN \notin DOMAIN production
  BY <1>1, SamplesAssumption
<1>4. \A b, S : b \in {reference, production} => Within(b, S) \in Nat
  BY <1>1, SampleSums DEF SampleOf
<1>5. Below \cap Above = {}
  <2> SUFFICES ASSUME NEW v \in Below, v \in Above PROVE FALSE
    OBVIOUS
  <2>1. PICK w \in DOMAIN reference : TRUE
    BY <1>1
  <2>2. v < w /\ v > w /\ v \in Int /\ w \in Int
    BY <1>2, <1>3, <2>1 DEF SampleOf
  <2> QED BY <2>2
<1>6. m = below + above
  <2> DEFINE P == DOMAIN production
  <2>1. IsFiniteSet(P) /\ \A v \in P : production[v] \in Int
    BY <1>1 DEF SampleOf, IsSample
  <2>2. P \cap Below \in SUBSET P /\ P \ (P \cap Below) = P \cap Above
    BY <1>1, <1>5
  <2> HIDE DEF P, Below, Above
  <2>3. SumFunctionOnSet(production, P) =
            SumFunctionOnSet(production, P \cap Below) + SumFunctionOnSet(production, P \ (P \cap Below))
    BY <2>1, <2>2, SumSplits
  <2> QED BY <2>2, <2>3 DEF P, Size, SumFunction, Within
<1>7. below \in Nat /\ above \in Nat
  BY <1>4
<1>8. ASSUME NEW x \in Numbers PROVE d(x) \in Int
  <2>1. UpTo(reference, x) \in Int /\ UpTo(production, x) \in Int
    BY <1>4 DEF UpTo
  <2> HIDE DEF n, m
  <2> QED BY <1>1, <2>1, SMT
<1>9. ASSUME NEW x \in Numbers
      PROVE  Distance >= d(x) /\ Distance >= -d(x) /\ Distance \in Int
  <2>1. Distance = Max(D)
    BY DEF Distance
  <2>2. IsFiniteSet(D)
    <3> DEFINE f == [y \in Numbers |-> IF d(y) < 0 THEN -d(y) ELSE d(y)]
    <3>1. f \in Surjection(Numbers, D)
      BY DEF Surjection
    <3> HIDE DEF f, D
    <3> QED BY <1>3, <3>1, FS_Surjection
  <2> HIDE DEF d
  <2>3. D \subseteq Int
    BY <1>8
  <2>4. (IF d(x) < 0 THEN -d(x) ELSE d(x)) \in D
    OBVIOUS
  <2> DEFINE e == IF d(x) < 0 THEN -d(x) ELSE d(x)
  <2> HIDE DEF D
  <2>5. Max(D) \in D /\ \A y \in D : y <= Max(D)
    BY <2>2, <2>3, <2>4, MaxAndMin
  <2>6. e <= Max(D)
    BY <2>4, <2>5
  <2>7. d(x) \in Int /\ Max(D) \in Int
    BY <1>8, <2>3, <2>5
  <2> QED BY <2>1, <2>6, <2>7
\* Below the reference.
<1>10. below > 0 => \E x \in Numbers : d(x) = -(below * n)
  <2> SUFFICES ASSUME below > 0 PROVE \E x \in Numbers : d(x) = -(below * n)
    OBVIOUS
  <2>1. Below # {}
    <3>1. SumFunctionOnSet(production, {}) = 0
      BY FS_EmptySet, SumOfPick
    <3>2. Below = {} => DOMAIN production \cap Below = {}
      OBVIOUS
    <3> HIDE DEF Below
    <3> QED BY <3>1, <3>2 DEF Within
  <2>2. Below \subseteq Int /\ IsFiniteSet(Below)
    BY <1>3, FS_Subset
  <2> DEFINE x == Max(Below)
  <2>3. x \in Below /\ \A v \in Below : v <= x
    <3> HIDE DEF Below
    <3> QED BY <2>1, <2>2, MaxAndMin
  <2> HIDE DEF x
  <2>4. DOMAIN reference \cap {v \in Numbers : v <= x} = {}
    <3> SUFFICES ASSUME NEW w \in DOMAIN reference, w <= x PROVE FALSE
      OBVIOUS
    <3>1. x < w /\ x \in Int /\ w \in Int
      BY <1>2, <1>3, <2>3 DEF SampleOf
    <3> QED BY <3>1
  <2>5. DOMAIN production \cap {v \in Numbers : v <= x} = DOMAIN production \cap Below
    <3>1. PICK w \in DOMAIN reference : TRUE
      BY <1>1
    <3>2. ASSUME NEW v \in Above PROVE ~(v <= x)
      <4>1. x < w /\ v > w /\ x \in Int /\ v \in Int /\ w \in Int
        BY <1>2, <1>3, <2>3, <3>1, <3>2 DEF SampleOf
      <4> QED BY <4>1
    <3>3. \A v \in Below : v \in Numbers /\ v <= x
      BY <2>3
    <3> HIDE DEF Below, Above
    <3> QED BY <1>1, <3>2, <3>3
  <2>6. UpTo(reference, x) = 0
    <3>1. SumFunctionOnSet(reference, {}) = 0
      BY FS_EmptySet, SumOfPick
    <3> QED BY <2>4, <3>1 DEF UpTo, Within
  <2>7. UpTo(production, x) = below
    BY <2>5 DEF UpTo, Within
  <2>8. d(x) = 0 * m - below * n
    BY <2>6, <2>7
  <2> HIDE DEF below, n, m, d
  <2>9. 0 * m - below * n = -(below * n)
    BY <1>1, <1>7, SMT
  <2> QED BY <2>3, <2>8, <2>9
\* Where the reference ends.
<1>11. \E x \in Numbers : d(x) = n * m - below * n
  <2> DEFINE x == Max(DOMAIN reference)
  <2>1. DOMAIN reference \subseteq Int /\ IsFiniteSet(DOMAIN reference)
    BY <1>2, <1>3 DEF SampleOf
  <2>2. x \in DOMAIN reference /\ \A w \in DOMAIN reference : w <= x
    BY <1>1, <2>1, MaxAndMin
  <2> HIDE DEF x
  <2>3. x \in Numbers
    BY <1>2, <2>2 DEF SampleOf
  <2>4. DOMAIN reference \cap {v \in Numbers : v <= x} = DOMAIN reference
    BY <1>2, <2>2 DEF SampleOf
  <2>5. DOMAIN production \cap {v \in Numbers : v <= x} = DOMAIN production \cap Below
    <3>1. ASSUME NEW v \in Above PROVE ~(v <= x)
      <4>1. v > x /\ v \in Int /\ x \in Int
        BY <1>3, <2>2, <2>3, <3>1
      <4> QED BY <4>1
    <3>2. ASSUME NEW v \in Below PROVE v \in Numbers /\ v <= x
      <4>1. v < x /\ v \in Numbers /\ v \in Int /\ x \in Int
        BY <1>3, <2>2, <2>3, <3>2
      <4> QED BY <4>1
    <3> HIDE DEF Below, Above
    <3> QED BY <1>1, <3>1, <3>2
  <2>6. UpTo(reference, x) = n
    BY <2>4 DEF UpTo, Within, Size, SumFunction
  <2>7. UpTo(production, x) = below
    BY <2>5 DEF UpTo, Within
  <2> QED BY <2>3, <2>6, <2>7
<1> HIDE DEF n, m, below, above, d, D
<1>12. 5 * Distance > n * m
  <2>1. n * m \in Int /\ n * m > 0 /\ below * n \in Int
    BY <1>1, <1>7, SMT
  <2>2. CASE 2 * below >= m
    <3>1. below > 0
      BY <1>1, <1>7, <2>2
    <3>2. PICK x \in Numbers : d(x) = -(below * n)
      BY <1>10, <3>1
    <3>3. Distance \in Int /\ Distance >= below * n
      BY <1>9, <2>1, <3>2
    <3>4. 2 * (below * n) >= n * m
      <4>1. (2 * below - m) * n >= 0
        BY <1>1, <1>7, <2>2, SMT
      <4>2. (2 * below - m) * n = 2 * (below * n) - n * m
        BY <1>1, <1>7, SMT
      <4> QED BY <2>1, <4>1, <4>2
    <3> QED BY <2>1, <3>3, <3>4
  <2>3. CASE 2 * below < m
    <3>1. PICK x \in Numbers : d(x) = n * m - below * n
      BY <1>11
    <3>2. Distance \in Int /\ Distance >= n * m - below * n
      BY <1>9, <3>1
    <3>3. 2 * (below * n) <= n * m
      <4>1. (m - 2 * below) * n >= 0
        BY <1>1, <1>7, <2>3, SMT
      <4>2. (m - 2 * below) * n = n * m - 2 * (below * n)
        BY <1>1, <1>7, SMT
      <4> QED BY <2>1, <4>1, <4>2
    <3> QED BY <2>1, <3>2, <3>3
  <2> QED BY <1>1, <1>7, <2>2, <2>3
<1>13. Distance \in Int /\ n * m \in Int
  BY <1>1, <1>9, <1>11, SMT
<1> QED BY <1>3, <1>12, <1>13 DEF KsStatuses, n, m

\* With categories, each is a cell, and none has values of both sides.
LEMMA PsiSeesNewCategories ==
    ASSUME Cardinality(Categories) <= FewCells,
           EngineInv, phase = "binned", OnlyNew, dataType = "categorical"
    PROVE  PsiStatuses = {"drifted"}
<1>1. /\ production = Collected /\ IsFiniteSet(cells)
      /\ cells = {{c} : c \in DOMAIN reference \cup DOMAIN production}
  BY DEF EngineInv
<1>2. /\ SampleOf(reference, Parsed) /\ SampleOf(production, Parsed)
      /\ DOMAIN production \subseteq Categories \ DOMAIN reference
      /\ Size(production) \in Nat \ {0}
      /\ DOMAIN reference # {}
  BY <1>1, CollectedIsNew DEF New
<1>3. DOMAIN production # {}
  <2>1. SumFunctionOnSet(production, {}) = 0
    BY FS_EmptySet, SumOfPick
  <2> QED BY <1>2, <2>1 DEF Size, SumFunction
<1>4. /\ \A c : Within(reference, {c}) = IF c \in DOMAIN reference THEN reference[c] ELSE 0
      /\ \A c : Within(production, {c}) = IF c \in DOMAIN production THEN production[c] ELSE 0
  BY <1>2, WithinOne DEF SampleOf
<1>5. /\ \A c \in DOMAIN reference : reference[c] \in Nat \ {0}
      /\ \A c \in DOMAIN production : production[c] \in Nat \ {0}
  BY <1>2 DEF SampleOf, IsSample
<1>6. ASSUME NEW b \in {reference, production}
      PROVE  Total(b) \in Nat \ {0}
  <2> DEFINE f == [cell \in cells |-> Within(b, cell)]
  <2>1. \A cell \in cells : f[cell] \in Nat
    BY <1>2, SampleSums DEF SampleOf
  <2>2. PICK c \in DOMAIN b : TRUE
    BY <1>2, <1>3
  <2>3. {c} \in cells
    BY <1>1, <2>2
  <2>4. f[{c}] \in Nat \ {0}
    BY <1>4, <1>5, <2>2, <2>3
  <2>5. Total(b) = SumFunctionOnSet(f, cells)
    BY DEF Total, SumFunction
  <2> HIDE DEF f
  <2>6. SumFunctionOnSet(f, cells) \in Nat /\ f[{c}] <= SumFunctionOnSet(f, cells)
    BY <1>1, <2>1, <2>3, SumIsNat
  <2> QED BY <2>4, <2>5, <2>6
<1>7. Comparable
  BY <1>6 DEF Comparable
<1>8. ~SameShares
  <2>1. PICK c \in DOMAIN reference : TRUE
    BY <1>2
  <2>2. {c} \in cells /\ Within(production, {c}) = 0 /\ Within(reference, {c}) \in Nat \ {0}
    BY <1>1, <1>2, <1>4, <1>5, <2>1
  <2>3. \A i, j \in Nat \ {0} : i * j # 0 * i
    BY SMT
  <2> QED BY <1>6, <2>2, <2>3 DEF SameShares
<1>9. Cardinality(cells) <= FewCells
  <2> DEFINE C == DOMAIN reference \cup DOMAIN production
             f == [c \in C |-> {c}]
  <2>1. IsFiniteSet(Categories) /\ C \subseteq Categories
    BY <1>2, SamplesAssumption DEF SampleOf, Parsed
  <2>2. f \in Surjection(C, cells)
    BY <1>1 DEF Surjection
  <2> HIDE DEF C, f
  <2>3. IsFiniteSet(C) /\ Cardinality(C) <= Cardinality(Categories)
    BY <2>1, FS_Subset
  <2>4. Cardinality(cells) <= Cardinality(C)
    BY <2>2, <2>3, FS_Surjection
  <2>5. Cardinality(cells) \in Nat /\ Cardinality(C) \in Nat /\ Cardinality(Categories) \in Nat
    BY <1>1, <2>1, <2>3, FS_CardinalityType
  <2>6. FewCells \in Nat
    BY DEF FewCells
  <2> QED BY <2>3, <2>4, <2>5, <2>6
<1>10. \A cell \in cells : Within(reference, cell) = 0 \/ Within(production, cell) = 0
  BY <1>1, <1>2, <1>4
<1> QED BY <1>7, <1>8, <1>9, <1>10 DEF PsiStatuses, Apart

\* A check of new values only is evaluated as drifted, and is not found insufficient.
LEMMA NewValuesStep ==
    ASSUME Cardinality(Categories) <= FewCells
    PROVE  EngineInv /\ NewValuesDrift /\ [Next]_vars => NewValuesDrift'
<1> SUFFICES ASSUME EngineInv, NewValuesDrift, [Next]_vars, phase' = "evaluated", OnlyNew'
             PROVE  featureStatus' = "drifted"
  BY DEF NewValuesDrift, OnlyNew, New
<1>1. ASSUME UNCHANGED <<dataType, reference, rows>> PROVE OnlyNew
  BY <1>1 DEF OnlyNew, New, Parsed, ObservedIn
<1>2. CASE Evaluate
  <2>1. OnlyNew /\ phase = "binned"
    BY <1>1, <1>2 DEF Evaluate
  <2>2. CASE dataType = "numeric"
    <3>1. KsStatuses = {"drifted"}
      BY <2>1, <2>2, KsSeesNewNumbers DEF EngineInv
    <3> QED BY <1>2, <2>2, <3>1 DEF Evaluate, Overall
  <2>3. CASE dataType = "categorical"
    <3>1. PsiStatuses = {"drifted"}
      BY <2>1, <2>3, PsiSeesNewCategories
    <3> QED BY <1>2, <2>3, <3>1 DEF Evaluate, Overall
  <2> QED BY <2>2, <2>3 DEF EngineInv, TypeOK
<1>3. CASE ReportInsufficient
  <2>1. OnlyNew /\ phase = "collected"
    BY <1>1, <1>3 DEF ReportInsufficient
  <2>2. production = Collected
    BY <2>1 DEF EngineInv
  <2>3. Enough(production)
    BY <2>1, <2>2, CollectedIsNew
  <2> QED BY <1>3, <2>1, <2>3 DEF ReportInsufficient, OnlyNew
<1>4. CASE UNCHANGED vars
  <2>1. OnlyNew /\ phase = "evaluated" /\ featureStatus' = featureStatus
    BY <1>1, <1>4 DEF vars, check
  <2> QED BY <2>1, NewIsPremise
<1>5. CASE Upload \/ Observe \/ Collect \/ MakeCells
  BY <1>5 DEF Upload, Observe, Collect, MakeCells, check
<1> QED BY <1>2, <1>3, <1>4, <1>5 DEF Next

\* evaluate_numeric_feature and evaluate_categorical_feature (engine.py): a window of new
\* values only is drifted. With numbers KS sees to it, also where the bins are blind and
\* also with new numbers on both sides. With categories it is the PSI, and the bound is the
\* code's: each empty share counts 0.0001 (metrics.py:10), so that thousands of categories
\* that are in the reference look alike to it.
THEOREM NewValuesAreDrifted ==
    ASSUME Cardinality(Categories) <= FewCells
    PROVE  Spec => []NewValuesDrift
<1>1. Init => NewValuesDrift
  BY DEF Init, NewValuesDrift
<1>2. EngineInv /\ NewValuesDrift /\ [Next]_vars => NewValuesDrift'
  BY NewValuesStep
<1> QED BY <1>1, <1>2, EngineInvariance, PTL DEF Spec

-----------------------------------------------------------------------------
(* Too few values.                                                         *)

\* What is left of the promise that TooFewNumbersAreNotOk shows broken.
TooFewIsInsufficient ==
    phase = "evaluated" /\ (~Enough(reference) \/ ObservedIn(Parsed) < MinUsable)
    => featureStatus = "insufficient_data"

\* Bins or cells are made of enough values on both sides only.
LEMMA TooFewStep ==
    EngineInv /\ TooFewIsInsufficient /\ [Next]_vars => TooFewIsInsufficient'
<1> DEFINE TooFew == ~Enough(reference) \/ ObservedIn(Parsed) < MinUsable
<1> SUFFICES ASSUME EngineInv, TooFewIsInsufficient, [Next]_vars, phase' = "evaluated", TooFew'
             PROVE  featureStatus' = "insufficient_data"
  BY DEF TooFewIsInsufficient
<1>1. ASSUME UNCHANGED <<dataType, reference, rows>> PROVE TooFew
  BY <1>1 DEF Parsed, ObservedIn, Enough, Size
<1>2. ASSUME Evaluate PROVE FALSE
  <2>1. TooFew /\ phase = "binned"
    BY <1>1, <1>2 DEF Evaluate
  <2>2. TypeOK /\ IsFiniteSet(DOMAIN rows) /\ production = Collected
    BY <2>1 DEF EngineInv
  <2>3. Enough(reference) /\ Size(production) >= MinUsable
    BY <2>1 DEF EngineInv, Enough
  <2>4. SampleOf(production, Parsed)
    BY <2>2, CollectedIsSample
  <2>5. Within(production, Parsed) = ObservedIn(Parsed)
    BY <2>2, CollectedIsObserved
  <2>6. DOMAIN production \cap Parsed = DOMAIN production
    BY <2>4 DEF SampleOf
  <2>7. Size(production) = ObservedIn(Parsed) /\ Size(production) \in Nat
    BY <2>4, <2>5, <2>6, SampleSums DEF Within, Size, SumFunction, SampleOf
  <2> QED BY <2>1, <2>3, <2>7, SamplesAssumption
<1>3. CASE ReportInsufficient
  BY <1>3 DEF ReportInsufficient
<1>4. CASE UNCHANGED vars
  <2>1. TooFew /\ phase = "evaluated" /\ featureStatus' = featureStatus
    BY <1>1, <1>4 DEF vars, check
  <2> QED BY <2>1 DEF TooFewIsInsufficient
<1>5. CASE Upload \/ Observe \/ Collect \/ MakeCells
  BY <1>5 DEF Upload, Observe, Collect, MakeCells, check
<1> QED BY <1>2, <1>3, <1>4, <1>5 DEF Next

\* engine.py:9-11, as far as it is true: with too few values of the reference, or too few
\* observations that were parsed, whatever was missing or invalid among the others, a
\* feature is never anything but insufficient. What it does not say is that nan is a value.
THEOREM TooFewAreInsufficient == Spec => []TooFewIsInsufficient
<1>1. Init => TooFewIsInsufficient
  BY DEF Init, TooFewIsInsufficient
<1> QED BY <1>1, EngineInvariance, TooFewStep, PTL DEF Spec
================================================================================
