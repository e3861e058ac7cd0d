---------------------------- MODULE LedgerProofs ----------------------------
(***************************************************************************)
(* What the ledger keeps, for every set of keys, of values and of          *)
(* payments: outputs and balances agree, the account book is implemented,  *)
(* a payment that its payer can cover stays in the mempool, and the block  *)
(* of payers with one payment each passes verifyBlock.                     *)
(*                                                                         *)
(* Sums and loops are folds.  The first two parts give each fold a         *)
(* function on the subsets of its set, and prove about that function by    *)
(* induction on the size of the subset.                                    *)
(***************************************************************************)
EXTENDS LedgerProperties, FiniteSetTheorems, TLAPS

-----------------------------------------------------------------------------
(* Induction over the naturals, and folds over finite sets.                *)

\* A set of naturals has a least element.
LEMMA LeastNatural ==
    ASSUME NEW S \in SUBSET Nat, S # {}
    PROVE  \E n \in S : \A m \in S : n <= m
<1>1. PICK n \in S : \A m \in S : ~ (<<m, n>> \in OpToRel(<, Nat))
    BY NatLessThanWellFounded, WFMin
<1>2. \A m \in S : ~ (m < n)
    BY <1>1 DEF OpToRel
<1>3. QED
    BY <1>2

\* A set of naturals that contains 0 and the successor of each member contains all.
LEMMA InductiveSet ==
    ASSUME NEW T \in SUBSET Nat, 0 \in T, \A n \in T : n + 1 \in T
    PROVE  T = Nat
<1> SUFFICES ASSUME Nat \ T # {} PROVE FALSE
    OBVIOUS
<1>1. PICK n \in Nat \ T : \A m \in Nat \ T : n <= m
    BY LeastNatural, Nat \ T \in SUBSET Nat
<1>2. n # 0 /\ n - 1 \in Nat
    BY <1>1
<1>3. n - 1 \in T
    BY <1>1, <1>2
<1>4. QED
    BY <1>1, <1>2, <1>3

\* g folds "step" over the sets in D, taking the element that "pick" names last.
Folds(g, D, base, pick, step) ==
    g = [s \in D |-> IF s = {} THEN base ELSE step[<<g[s \ {pick[s]}], pick[s]>>]]

Small(S, n) == {s \in SUBSET S : Cardinality(s) <= n}

\* A fold over a finite set exists: one more element at a time.
LEMMA FoldExists ==
    ASSUME NEW S, IsFiniteSet(S), NEW V, NEW base \in V,
           NEW pick, \A s \in SUBSET S : s # {} => pick[s] \in s,
           NEW step \in [V \X S -> V]
    PROVE  \E g \in [SUBSET S -> V] : Folds(g, SUBSET S, base, pick, step)
<1> DEFINE T == {n \in Nat : \E g \in [Small(S, n) -> V] : Folds(g, Small(S, n), base, pick, step)}
<1>1. 0 \in T
  <2> DEFINE g == [s \in Small(S, 0) |-> base]
  <2>1. \A s \in Small(S, 0) : s = {}
    BY FS_EmptySet, FS_Subset, FS_CardinalityType DEF Small
  <2>2. Folds(g, Small(S, 0), base, pick, step)
    BY <2>1 DEF Folds
  <2>3. QED
    BY <2>2
<1>2. ASSUME NEW n \in T PROVE n + 1 \in T
  <2>1. PICK g \in [Small(S, n) -> V] : Folds(g, Small(S, n), base, pick, step)
    OBVIOUS
  <2> DEFINE A(s) == IF s = {} THEN base ELSE step[<<g[s \ {pick[s]}], pick[s]>>]
             h == [s \in Small(S, n + 1) |-> A(s)]
             B(s) == IF s = {} THEN base ELSE step[<<h[s \ {pick[s]}], pick[s]>>]
  <2>2. ASSUME NEW s \in Small(S, n + 1), s # {}
        PROVE  s \ {pick[s]} \in Small(S, n) /\ pick[s] \in S
    <3>1. s \in SUBSET S /\ IsFiniteSet(s) /\ pick[s] \in s /\ Cardinality(s) <= n + 1
      BY <2>2, FS_Subset DEF Small
    <3>2. Cardinality(s \ {pick[s]}) = Cardinality(s) - 1 /\ Cardinality(s) \in Nat
      BY <3>1, FS_RemoveElement, FS_CardinalityType
    <3>3. QED
      BY <3>1, <3>2 DEF Small
  <2>3. ASSUME NEW s \in Small(S, n)
        PROVE  h[s] = g[s]
    <3>1. Cardinality(s) \in Nat /\ s \in Small(S, n + 1)
      BY FS_Subset, FS_CardinalityType DEF Small
    <3>2. QED
      BY <2>1, <3>1 DEF Folds
  <2>4. \A s \in Small(S, n + 1) : A(s) \in V
    BY <2>1, <2>2
  <2>5. \A s \in Small(S, n + 1) : A(s) = B(s)
    BY <2>2, <2>3
  <2>6. h \in [Small(S, n + 1) -> V]
    BY <2>4
  <2>7. h = [s \in Small(S, n + 1) |-> A(s)]
    OBVIOUS
  <2> HIDE DEF A, h
  <2>8. h = [s \in Small(S, n + 1) |-> B(s)]
    <3> HIDE DEF B
    <3>1. QED
      BY <2>5, <2>7, Zenon
  <2>9. Folds(h, Small(S, n + 1), base, pick, step)
    BY <2>8, Zenon DEF Folds
  <2>10. QED
    <3> HIDE DEF B
    <3>1. n + 1 \in Nat
      OBVIOUS
    <3>2. QED
      BY <2>6, <2>9, <3>1
<1>3. T = Nat
  <2> HIDE DEF T
  <2>1. T \subseteq Nat
    BY DEF T
  <2>2. QED
    BY <2>1, <1>1, <1>2, InductiveSet
<1>4. Small(S, Cardinality(S)) = SUBSET S
  BY FS_Subset, FS_CardinalityType DEF Small
<1>5. Cardinality(S) \in T
  BY <1>3, FS_CardinalityType
<1>6. PICK g \in [Small(S, Cardinality(S)) -> V] : Folds(g, Small(S, Cardinality(S)), base, pick, step)
  BY <1>5
<1>7. g \in [SUBSET S -> V] /\ Folds(g, SUBSET S, base, pick, step)
  BY <1>4, <1>6
<1>8. QED
  BY <1>7, Zenon

-----------------------------------------------------------------------------
(* Sums of values over finite sets.                                        *)

Valued(S) == IsFiniteSet(S) /\ \A x \in S : x.value \in Nat

\* What the recursion of SumValues asks of its function on the sets in D.
SumsOn(g, D) ==
    g = [s \in D |-> IF s = {} THEN 0
                     ELSE (CHOOSE x \in s : TRUE).value + g[s \ {CHOOSE x \in s : TRUE}]]

\* The recursion of a sum has a solution.
LEMMA SumsExist ==
    ASSUME NEW S, Valued(S)
    PROVE  \E g \in [SUBSET S -> Nat] : SumsOn(g, SUBSET S)
<1> DEFINE pick == [s \in SUBSET S |-> CHOOSE x \in s : TRUE]
           step == [a \in Nat \X S |-> a[2].value + a[1]]
<1>1. \A s \in SUBSET S : s # {} => pick[s] \in s
    OBVIOUS
<1>2. step \in [Nat \X S -> Nat]
    BY DEF Valued
<1>3. \A n \in Nat, x \in S : step[<<n, x>>] = x.value + n
    OBVIOUS
<1>4. IsFiniteSet(S)
    BY DEF Valued
<1>5. PICK g \in [SUBSET S -> Nat] : Folds(g, SUBSET S, 0, pick, step)
    <2> HIDE DEF pick, step
    <2>1. QED
        BY <1>1, <1>2, <1>4, FoldExists
<1> DEFINE A(s) == IF s = {} THEN 0 ELSE step[<<g[s \ {pick[s]}], pick[s]>>]
           B(s) == IF s = {} THEN 0
                   ELSE (CHOOSE x \in s : TRUE).value + g[s \ {CHOOSE x \in s : TRUE}]
<1>6. \A s \in SUBSET S : A(s) = B(s)
    <2> SUFFICES ASSUME NEW s \in SUBSET S, s # {} PROVE A(s) = B(s)
        OBVIOUS
    <2>1. pick[s] = (CHOOSE x \in s : TRUE)
        OBVIOUS
    <2>2. g[s \ {pick[s]}] \in Nat /\ pick[s] \in S
        BY <1>1
    <2>3. step[<<g[s \ {pick[s]}], pick[s]>>] = pick[s].value + g[s \ {pick[s]}]
        <3> HIDE DEF step, pick
        <3>1. QED
            BY <2>2, <1>3
    <2> HIDE DEF step, pick
    <2>4. QED
        BY <2>1, <2>3
<1>7. g = [s \in SUBSET S |-> A(s)]
    BY <1>5, Zenon DEF Folds
<1>8. g = [s \in SUBSET S |-> B(s)]
    <2> HIDE DEF A, B
    <2>1. QED
        BY <1>6, <1>7, Zenon
<1>9. QED
    BY <1>8, Zenon DEF SumsOn

\* Two functions that sum the same sets agree.
LEMMA SumsUnique ==
    ASSUME NEW S, IsFiniteSet(S), NEW D, SUBSET S \subseteq D, NEW E, SUBSET S \subseteq E,
           NEW g, SumsOn(g, D), NEW h, SumsOn(h, E)
    PROVE  g[S] = h[S]
<1> DEFINE T == {n \in Nat : \A s \in SUBSET S : Cardinality(s) <= n => g[s] = h[s]}
<1>1. \A s \in SUBSET S : IsFiniteSet(s) /\ Cardinality(s) \in Nat /\ s \in D /\ s \in E
    BY FS_Subset, FS_CardinalityType
<1>2. g[{}] = 0 /\ h[{}] = 0
    BY <1>1 DEF SumsOn
<1>3. 0 \in T
    <2>1. \A s \in SUBSET S : Cardinality(s) <= 0 => s = {}
        BY <1>1, FS_EmptySet
    <2>2. QED
        BY <1>2, <2>1
<1>4. ASSUME NEW n \in T PROVE n + 1 \in T
    <2> SUFFICES ASSUME NEW s \in SUBSET S, Cardinality(s) <= n + 1, s # {} PROVE g[s] = h[s]
        BY <1>2
    <2> DEFINE x == CHOOSE y \in s : TRUE
    <2>1. x \in s
        OBVIOUS
    <2>2. Cardinality(s \ {x}) <= n /\ s \ {x} \in SUBSET S
        <3>1. Cardinality(s \ {x}) = Cardinality(s) - 1
            BY <1>1, <2>1, FS_RemoveElement
        <3>2. QED
            BY <1>1, <3>1
    <2>3. g[s \ {x}] = h[s \ {x}]
        BY <2>2
    <2>4. g[s] = x.value + g[s \ {x}] /\ h[s] = x.value + h[s \ {x}]
        BY <1>1 DEF SumsOn
    <2>5. QED
        BY <2>3, <2>4
<1>5. T = Nat
    <2> HIDE DEF T
    <2>1. T \subseteq Nat
        BY DEF T
    <2>2. QED
        BY <2>1, <1>3, <1>4, InductiveSet
<1>6. QED
    BY <1>1, <1>5

\* The sum over a subset, by the function of the whole.
LEMMA SumByFunction ==
    ASSUME NEW S, Valued(S)
    PROVE  \E g \in [SUBSET S -> Nat] :
               SumsOn(g, SUBSET S) /\ \A s \in SUBSET S : SumValues(s) = g[s]
<1>1. PICK g \in [SUBSET S -> Nat] : SumsOn(g, SUBSET S)
    BY SumsExist
<1>2. ASSUME NEW s \in SUBSET S PROVE SumValues(s) = g[s]
    <2>1. Valued(s)
        BY FS_Subset DEF Valued
    <2> DEFINE h == CHOOSE f : SumsOn(f, SUBSET s)
    <2>2. SumsOn(h, SUBSET s)
        BY <2>1, SumsExist, Zenon
    <2>3. SumValues(s) = h[s]
        BY Zenon DEF SumValues, MapThenSumSet, MapThenFoldSet, SumsOn
    <2> HIDE DEF h
    <2>4. g[s] = h[s]
        BY <1>1, <2>1, <2>2, SumsUnique DEF Valued
    <2>5. QED
        BY <2>3, <2>4
<1>3. QED
    BY <1>1, <1>2

\* What is left without two, in either order.
LEMMA EitherOrder ==
    ASSUME NEW a \in Nat, NEW b \in Nat, NEW r \in Nat, NEW u, NEW v, NEW w,
           u = a + v, v = b + r, w = a + r
    PROVE  u = b + w
OBVIOUS

\* A part of a set with values is one.
LEMMA SubsetValued ==
    ASSUME NEW S, Valued(S), NEW s \in SUBSET S
    PROVE  Valued(s) /\ Cardinality(s) \in Nat
BY FS_Subset, FS_CardinalityType DEF Valued

\* A sum of values is a natural number.
LEMMA SumType ==
    ASSUME NEW S, Valued(S)
    PROVE  SumValues(S) \in Nat
<1>1. PICK g \in [SUBSET S -> Nat] : \A s \in SUBSET S : SumValues(s) = g[s]
    BY SumByFunction
<1>2. S \in SUBSET S
    OBVIOUS
<1>3. QED
    BY <1>1, <1>2

\* The sum of nothing.
LEMMA SumEmpty == SumValues({}) = 0
<1>1. Valued({})
    BY FS_EmptySet DEF Valued
<1>2. PICK g \in [SUBSET {} -> Nat] : SumsOn(g, SUBSET {}) /\ \A s \in SUBSET {} : SumValues(s) = g[s]
    BY <1>1, SumByFunction
<1>3. g[{}] = 0
    BY <1>2 DEF SumsOn
<1>4. QED
    BY <1>2, <1>3

\* A sum takes any element first.
LEMMA SumRemove ==
    ASSUME NEW S, Valued(S), NEW x \in S
    PROVE  SumValues(S) = x.value + SumValues(S \ {x})
<1>1. PICK g \in [SUBSET S -> Nat] : SumsOn(g, SUBSET S) /\ \A s \in SUBSET S : SumValues(s) = g[s]
    BY SumByFunction
<1> DEFINE T == {n \in Nat : \A s \in SUBSET S : \A y \in s :
                                Cardinality(s) <= n => g[s] = y.value + g[s \ {y}]}
<1>2. \A s \in SUBSET S : Cardinality(s) \in Nat /\ (Cardinality(s) <= 0 => s = {})
    BY SubsetValued, FS_EmptySet DEF Valued
<1>3. 0 \in T
    BY <1>2
<1>4. ASSUME NEW n \in T PROVE n + 1 \in T
    <2> SUFFICES ASSUME NEW s \in SUBSET S, NEW y \in s, Cardinality(s) <= n + 1
                 PROVE  g[s] = y.value + g[s \ {y}]
        OBVIOUS
    <2>1. \A r \in SUBSET S : \A z \in r : Cardinality(r) <= n => g[r] = z.value + g[r \ {z}]
        OBVIOUS
    <2>2. n \in Nat
        OBVIOUS
    <2> HIDE DEF T
    <2> DEFINE c == CHOOSE z \in s : TRUE
    <2>3. c \in s /\ g[s] = c.value + g[s \ {c}]
        BY <1>1 DEF SumsOn
    <2>4. CASE y = c
        BY <2>3, <2>4
    <2>5. CASE y # c
        <3> HIDE DEF c
        <3>1. Cardinality(s \ {c}) <= n /\ Cardinality(s \ {y}) <= n
            <4>1. Valued(s)
                BY SubsetValued
            <4>2. Cardinality(s \ {c}) = Cardinality(s) - 1 /\ Cardinality(s \ {y}) = Cardinality(s) - 1
                BY <2>3, <4>1, FS_RemoveElement DEF Valued
            <4>3. QED
                BY <1>2, <2>2, <4>2
        <3>2. g[s \ {c}] = y.value + g[(s \ {c}) \ {y}]
            <4>1. s \ {c} \in SUBSET S /\ y \in s \ {c}
                BY <2>5
            <4>2. QED
                BY <2>1, <3>1, <4>1
        <3>3. g[s \ {y}] = c.value + g[(s \ {y}) \ {c}]
            <4>1. s \ {y} \in SUBSET S /\ c \in s \ {y}
                BY <2>3, <2>5
            <4>2. QED
                BY <2>1, <3>1, <4>1
        <3>4. (s \ {c}) \ {y} = (s \ {y}) \ {c}
            OBVIOUS
        <3>5. /\ g[s \ {c}] \in Nat /\ g[s \ {y}] \in Nat /\ g[(s \ {y}) \ {c}] \in Nat
              /\ c.value \in Nat /\ y.value \in Nat
            <4>1. s \ {c} \in SUBSET S /\ s \ {y} \in SUBSET S /\ (s \ {y}) \ {c} \in SUBSET S
                OBVIOUS
            <4>2. QED
                BY <2>3, <4>1 DEF Valued
        <3>6. g[s \ {c}] = y.value + g[(s \ {y}) \ {c}]
            BY <3>2, <3>4, Zenon
        <3>7. QED
            BY <2>3, <3>3, <3>5, <3>6, EitherOrder
    <2>6. QED
        BY <2>4, <2>5
<1>5. T = Nat
    <2> HIDE DEF T
    <2>1. T \subseteq Nat
        BY DEF T
    <2>2. QED
        BY <2>1, <1>3, <1>4, InductiveSet
<1>6. g[S] = x.value + g[S \ {x}]
    BY <1>2, <1>5
<1>7. QED
    BY <1>1, <1>6

\* The sum with one element more.
LEMMA SumAdd ==
    ASSUME NEW S, Valued(S), NEW x, x \notin S, x.value \in Nat
    PROVE  Valued(S \cup {x}) /\ SumValues(S \cup {x}) = SumValues(S) + x.value
<1>1. Valued(S \cup {x})
    BY FS_AddElement DEF Valued
<1>2. SumValues(S \cup {x}) = x.value + SumValues((S \cup {x}) \ {x})
    BY <1>1, SumRemove
<1>3. (S \cup {x}) \ {x} = S
    OBVIOUS
<1>4. QED
    BY <1>1, <1>2, <1>3, SumType

\* The sum of two sets that are apart.
LEMMA SumUnion ==
    ASSUME NEW S, Valued(S), NEW R, Valued(R), S \cap R = {}
    PROVE  Valued(S \cup R) /\ SumValues(S \cup R) = SumValues(S) + SumValues(R)
<1>1. Valued(S \cup R)
    BY FS_Union DEF Valued
<1> DEFINE T == {n \in Nat : \A s \in SUBSET R : Cardinality(s) <= n
                                => SumValues(S \cup s) = SumValues(S) + SumValues(s)}
<1>2. \A s \in SUBSET R : Cardinality(s) \in Nat /\ (Cardinality(s) <= 0 => s = {})
    BY SubsetValued, FS_EmptySet DEF Valued
<1>3. 0 \in T
    <2>1. S \cup {} = S
        OBVIOUS
    <2>2. SumValues(S \cup {}) = SumValues(S) + SumValues({})
        BY <2>1, SumEmpty, SumType
    <2>3. QED
        BY <1>2, <2>2
<1>4. ASSUME NEW n \in T PROVE n + 1 \in T
    <2> SUFFICES ASSUME NEW s \in SUBSET R, Cardinality(s) <= n + 1
                 PROVE  SumValues(S \cup s) = SumValues(S) + SumValues(s)
        OBVIOUS
    <2>1. \A r \in SUBSET R : Cardinality(r) <= n => SumValues(S \cup r) = SumValues(S) + SumValues(r)
        OBVIOUS
    <2>2. n \in Nat
        OBVIOUS
    <2> HIDE DEF T
    <2>3. CASE s = {}
        <3>1. S \cup s = S
            BY <2>3
        <3>2. QED
            BY <2>3, <3>1, SumEmpty, SumType
    <2>4. CASE s # {}
        <3>1. PICK x : x \in s
            BY <2>4
        <3>2. Valued(s) /\ Valued(s \ {x}) /\ Valued(S \cup s)
            BY <1>1, SubsetValued, s \ {x} \in SUBSET R, S \cup s \in SUBSET (S \cup R)
        <3>3. Cardinality(s \ {x}) <= n
            <4>1. Cardinality(s \ {x}) = Cardinality(s) - 1
                BY <3>1, <3>2, FS_RemoveElement DEF Valued
            <4>2. QED
                BY <1>2, <2>2, <4>1
        <3>4. SumValues(S \cup (s \ {x})) = SumValues(S) + SumValues(s \ {x})
            BY <2>1, <3>3, s \ {x} \in SUBSET R
        <3>5. SumValues(s) = x.value + SumValues(s \ {x})
            BY <3>1, <3>2, SumRemove
        <3>6. SumValues(S \cup s) = x.value + SumValues((S \cup s) \ {x})
            BY <3>1, <3>2, SumRemove
        <3>7. (S \cup s) \ {x} = S \cup (s \ {x})
            BY <3>1
        <3>8. x.value \in Nat /\ SumValues(S) \in Nat /\ SumValues(s \ {x}) \in Nat
            BY <3>1, <3>2, SumType DEF Valued
        <3>9. SumValues(S \cup s) = x.value + SumValues(S \cup (s \ {x}))
            BY <3>6, <3>7, Zenon
        <3>10. QED
            BY <3>4, <3>5, <3>8, <3>9, EitherOrder
    <2>5. QED
        BY <2>3, <2>4
<1>5. T = Nat
    <2> HIDE DEF T
    <2>1. T \subseteq Nat
        BY DEF T
    <2>2. QED
        BY <2>1, <1>3, <1>4, InductiveSet
<1>6. QED
    BY <1>1, <1>2, <1>5

\* The sum of a set in two parts.
LEMMA SumSplit ==
    ASSUME NEW S, Valued(S), NEW R \in SUBSET S
    PROVE  /\ SumValues(S) = SumValues(R) + SumValues(S \ R)
           /\ SumValues(R) \in Nat /\ SumValues(S \ R) \in Nat
           /\ SumValues(R) <= SumValues(S)
<1>1. Valued(R) /\ Valued(S \ R)
    BY SubsetValued
<1>2. R \cap (S \ R) = {} /\ R \cup (S \ R) = S
    OBVIOUS
<1>3. SumValues(S) = SumValues(R) + SumValues(S \ R)
    BY <1>1, <1>2, SumUnion
<1>4. QED
    BY <1>1, <1>3, SumType

\* Of positive values, only all of them sum up to the whole.
LEMMA SumAll ==
    ASSUME NEW S, Valued(S), \A x \in S : x.value > 0,
           NEW R \in SUBSET S, SumValues(R) = SumValues(S)
    PROVE  R = S
<1> SUFFICES ASSUME NEW x \in S \ R PROVE FALSE
    OBVIOUS
<1>1. Valued(S \ R) /\ Valued((S \ R) \ {x})
    BY SubsetValued, (S \ R) \ {x} \in SUBSET S
<1>2. SumValues(S \ R) = x.value + SumValues((S \ R) \ {x})
    BY <1>1, SumRemove
<1>3. SumValues((S \ R) \ {x}) \in Nat /\ x.value \in Nat
    BY <1>1, SumType DEF Valued
<1>4. QED
    BY <1>2, <1>3, SumSplit

\* The elements of S, each under another name of the same value.
LEMMA SumImage ==
    ASSUME NEW S, Valued(S), NEW f,
           \A x \in S : f[x].value = x.value,
           \A x, y \in S : f[x] = f[y] => x = y
    PROVE  Valued({f[x] : x \in S}) /\ SumValues({f[x] : x \in S}) = SumValues(S)
<1> DEFINE im(s) == {f[x] : x \in s}
           T == {n \in Nat : \A s \in SUBSET S : Cardinality(s) <= n
                                => Valued(im(s)) /\ SumValues(im(s)) = SumValues(s)}
<1>1. \A s \in SUBSET S : Cardinality(s) \in Nat /\ (Cardinality(s) <= 0 => s = {})
    BY SubsetValued, FS_EmptySet DEF Valued
<1>2. 0 \in T
    <2>1. im({}) = {} /\ Valued({})
        BY FS_EmptySet DEF Valued
    <2> HIDE DEF im
    <2>2. QED
        BY <1>1, <2>1, SumEmpty
<1>3. ASSUME NEW n \in T PROVE n + 1 \in T
    <2> SUFFICES ASSUME NEW s \in SUBSET S, Cardinality(s) <= n + 1
                 PROVE  Valued(im(s)) /\ SumValues(im(s)) = SumValues(s)
        OBVIOUS
    <2>1. \A r \in SUBSET S : Cardinality(r) <= n => Valued(im(r)) /\ SumValues(im(r)) = SumValues(r)
        OBVIOUS
    <2>2. n \in Nat
        OBVIOUS
    <2> HIDE DEF T
    <2>3. CASE s = {}
        <3>1. im(s) = {} /\ Valued({})
            BY <2>3, FS_EmptySet DEF Valued
        <3> HIDE DEF im
        <3>2. QED
            BY <2>3, <3>1
    <2>4. CASE s # {}
        <3>1. PICK x : x \in s
            BY <2>4
        <3>2. Valued(s) /\ Valued(s \ {x})
            BY SubsetValued, s \ {x} \in SUBSET S
        <3>3. Cardinality(s \ {x}) <= n
            <4>1. Cardinality(s \ {x}) = Cardinality(s) - 1
                BY <3>1, <3>2, FS_RemoveElement DEF Valued
            <4>2. QED
                BY <1>1, <2>2, <4>1
        <3>4. Valued(im(s \ {x})) /\ SumValues(im(s \ {x})) = SumValues(s \ {x})
            <4> HIDE DEF im
            <4>1. QED
                BY <2>1, <3>3, s \ {x} \in SUBSET S
        <3>5. im(s) = im(s \ {x}) \cup {f[x]}
            BY <3>1
        <3>6. f[x] \notin im(s \ {x})
            BY <3>1
        <3>7. x.value \in Nat /\ f[x].value = x.value
            BY <3>1 DEF Valued
        <3> HIDE DEF im
        <3>8. Valued(im(s)) /\ SumValues(im(s)) = SumValues(s \ {x}) + x.value
            <4>1. f[x].value \in Nat
                BY <3>7
            <4>2. Valued(im(s \ {x}) \cup {f[x]})
                  /\ SumValues(im(s \ {x}) \cup {f[x]}) = SumValues(im(s \ {x})) + f[x].value
                BY <3>4, <3>6, <4>1, SumAdd, Zenon
            <4>3. QED
                BY <3>4, <3>5, <3>7, <4>2, Zenon
        <3>9. SumValues(s) = x.value + SumValues(s \ {x})
            BY <3>1, <3>2, SumRemove
        <3>10. QED
            BY <3>2, <3>7, <3>8, <3>9, SumType
    <2>5. QED
        BY <2>3, <2>4
<1>4. T = Nat
    <2> HIDE DEF T
    <2>1. T \subseteq Nat
        BY DEF T
    <2>2. QED
        BY <2>1, <1>2, <1>3, InductiveSet
<1>5. Valued(im(S)) /\ SumValues(im(S)) = SumValues(S)
    <2> HIDE DEF im
    <2>1. QED
        BY <1>1, <1>4
<1>6. QED
    BY <1>5

-----------------------------------------------------------------------------
(* Folds over sequences, element by element.                               *)

\* The largest number of a set.
LEMMA MaxOf ==
    ASSUME NEW n \in Nat, NEW s \in SUBSET (1 .. n), s # {}
    PROVE  Max(s) \in s /\ \A x \in s : x <= Max(s)
<1> DEFINE T == {m \in Nat : \A x \in s : x <= m}
<1>1. n \in T
    OBVIOUS
<1>2. PICK m \in T : \A k \in T : m <= k
    <2> HIDE DEF T
    <2>1. T \in SUBSET Nat
        BY DEF T
    <2>2. QED
        BY <1>1, <2>1, LeastNatural
<1>3. m \in s
    <2> SUFFICES ASSUME m \notin s PROVE FALSE
        OBVIOUS
    <2>1. PICK x \in s : TRUE
        OBVIOUS
    <2>2. \A y \in s : y <= m - 1
        BY <1>2
    <2>3. m - 1 \in Nat
        BY <2>1, <2>2
    <2>4. m - 1 \in T
        BY <2>2, <2>3
    <2>5. QED
        BY <1>2, <2>4
<1>4. \E x \in s : \A y \in s : x >= y
    BY <1>2, <1>3
<1>5. QED
    BY <1>4 DEF Max

\* The largest number up to i.
LEMMA MaxOfPrefix ==
    ASSUME NEW i \in Nat, i # 0
    PROVE  Max(1 .. i) = i /\ (1 .. i) \ {i} = 1 .. i - 1
<1>1. Max(1 .. i) \in 1 .. i /\ \A x \in 1 .. i : x <= Max(1 .. i)
    <2>1. 1 .. i \in SUBSET (1 .. i) /\ 1 .. i # {}
        OBVIOUS
    <2>2. QED
        BY <2>1, MaxOf
<1>2. Max(1 .. i) = i
    BY <1>1
<1>3. QED
    BY <1>2

-----------------------------------------------------------------------------
(* Types.                                                                  *)

Someone  == Keys \cup {Nobody}
Ids      == {PaymentId(n) : n \in Nat} \cup {OwnId(b, k) : b \in Nat, k \in Someone}
Payments == [id : Ids, from : Keys, to : Keys, value : Nat \ {0}]
Rows     == [id : Ids, block : Nat, from : Someone, to : Someone, value : Nat \ {0},
             inputs : SUBSET Ids]
Changes  == [Keys -> [left : Nat, input : SUBSET Ids]]
Accs     == [rows : SUBSET Rows, used : SUBSET Ids, pool : Seq(Payments), skip : BOOLEAN,
             changes : Changes]

\* The states of the loop of putTxInBlock before each payment and at its end.
Rounds(h) ==
    /\ h \in [0 .. Len(mempool) -> Accs]
    /\ h[0] = Start
    /\ \A i \in 1 .. Len(mempool) : h[i] = Consider(h[i - 1], mempool[i])
    /\ PutTxInBlock = h[Len(mempool)]

\* putTxInBlock considers the payments of the mempool one after the other.
LEMMA RoundsExist ==
    ASSUME mempool \in Seq(Payments), Start \in Accs,
           \A acc \in Accs, p \in Payments : Consider(acc, p) \in Accs
    PROVE  \E h : Rounds(h)
<1> DEFINE D == DOMAIN mempool
           pick == [s \in SUBSET D |-> Max(s)]
           step == [a \in Accs \X D |-> Consider(a[1], mempool[a[2]])]
<1>1. PICK n \in Nat : n = Len(mempool) /\ D = 1 .. n
    OBVIOUS
<1>2. IsFiniteSet(D)
    BY <1>1, FS_Interval
<1>3. \A s \in SUBSET D : s # {} => pick[s] = Max(s) /\ Max(s) \in s
    BY <1>1, MaxOf
<1>4. \A i \in D : mempool[i] \in Payments
    OBVIOUS
<1>5. step \in [Accs \X D -> Accs]
    BY <1>4
<1>6. \A acc \in Accs, i \in D : step[<<acc, i>>] = Consider(acc, mempool[i])
    OBVIOUS
<1> HIDE DEF D, pick, step
<1>7. PICK f \in [SUBSET D -> Accs] : Folds(f, SUBSET D, Start, pick, step)
    <2>1. \A s \in SUBSET D : s # {} => pick[s] \in s
        BY <1>3
    <2>2. QED
        BY <1>2, <1>5, <2>1, FoldExists
<1> DEFINE A(s) == IF s = {} THEN Start ELSE step[<<f[s \ {pick[s]}], pick[s]>>]
           Fold(g) == g = [s \in SUBSET D |->
                             IF s = {} THEN Start ELSE Consider(g[s \ {Max(s)}], mempool[Max(s)])]
           B(s) == IF s = {} THEN Start ELSE Consider(f[s \ {Max(s)}], mempool[Max(s)])
<1>8. \A s \in SUBSET D : A(s) = B(s)
    <2> SUFFICES ASSUME NEW s \in SUBSET D, s # {} PROVE A(s) = B(s)
        OBVIOUS
    <2>1. pick[s] = Max(s) /\ Max(s) \in s
        BY <1>3
    <2>2. f[s \ {Max(s)}] \in Accs /\ Max(s) \in D
        BY <2>1
    <2>3. step[<<f[s \ {Max(s)}], Max(s)>>] = Consider(f[s \ {Max(s)}], mempool[Max(s)])
        BY <1>6, <2>2
    <2>4. QED
        BY <2>1, <2>3
<1>9. f = [s \in SUBSET D |-> A(s)]
    BY <1>7, Zenon DEF Folds
<1>10. Fold(f)
    <2>1. f = [s \in SUBSET D |-> B(s)]
        <3> HIDE DEF A, B
        <3>1. QED
            BY <1>8, <1>9, Zenon
    <2>2. QED
        BY <2>1, Zenon
<1> DEFINE c == CHOOSE g : Fold(g)
<1>11. Fold(c)
    <2> HIDE DEF Fold
    <2>1. QED
        BY <1>10, Zenon
<1>12. PutTxInBlock = c[D]
    BY Zenon DEF PutTxInBlock, FoldLeft, MapThenFoldSet, D
<1> HIDE DEF c
<1>13. /\ c[{}] = Start
       /\ \A i \in 1 .. n : c[1 .. i] = Consider(c[1 .. i - 1], mempool[i])
    <2>1. c[{}] = Start
        BY <1>11
    <2>2. ASSUME NEW i \in 1 .. n
          PROVE  c[1 .. i] = Consider(c[1 .. i - 1], mempool[i])
        <3>1. 1 .. i \in SUBSET D /\ 1 .. i # {}
            <4>1. 1 .. i \in SUBSET (1 .. n) /\ i \in 1 .. i
                OBVIOUS
            <4>2. QED
                BY <1>1, <4>1
        <3>2. c[1 .. i] = Consider(c[(1 .. i) \ {Max(1 .. i)}], mempool[Max(1 .. i)])
            BY <1>11, <3>1
        <3>3. Max(1 .. i) = i /\ (1 .. i) \ {i} = 1 .. i - 1
            BY MaxOfPrefix
        <3>4. QED
            BY <3>2, <3>3
    <2>3. QED
        BY <2>1, <2>2
<1> DEFINE h == [i \in 0 .. n |-> c[1 .. i]]
<1>14. h[0] = Start
    <2>1. 1 .. 0 = {}
        OBVIOUS
    <2>2. QED
        BY <1>13, <2>1
<1>15. \A i \in 1 .. n : h[i] = Consider(h[i - 1], mempool[i])
    BY <1>13
<1>16. PutTxInBlock = h[n]
    BY <1>1, <1>12
<1>17. h \in [0 .. n -> Accs]
    <2> DEFINE T == {i \in Nat : i <= n => h[i] \in Accs}
    <2> HIDE DEF h
    <2>1. 0 \in T
        BY <1>14
    <2>2. ASSUME NEW i \in T PROVE i + 1 \in T
        <3> SUFFICES ASSUME i + 1 <= n PROVE h[i + 1] \in Accs
            OBVIOUS
        <3>1. i + 1 \in 1 .. n /\ (i + 1) - 1 = i /\ i + 1 \in D
            BY <1>1
        <3>2. h[i + 1] = Consider(h[i], mempool[i + 1])
            BY <1>15, <3>1
        <3>3. mempool[i + 1] \in Payments /\ h[i] \in Accs
            BY <1>4, <3>1
        <3>4. QED
            BY <3>2, <3>3
    <2>3. T = Nat
        <3> HIDE DEF T
        <3>1. T \subseteq Nat
            BY DEF T
        <3>2. QED
            BY <2>1, <2>2, <3>1, InductiveSet
    <2>4. \A i \in 0 .. n : h[i] \in Accs
        BY <2>3
    <2>5. QED
        BY <2>4 DEF h
<1> HIDE DEF h
<1>18. Rounds(h)
    BY <1>1, <1>14, <1>15, <1>16, <1>17 DEF Rounds
<1>19. QED
    BY <1>18

\* Whether a payment is in the block, and one step of Without.
InBlock(block, p) == \E r \in block : r.id = p.id
KeepIf(block, q, p) == IF InBlock(block, p) THEN q ELSE Append(q, p)

\* No two entries of a sequence of payments have the same hash.
Distinct(q) == \A i, j \in 1 .. Len(q) : q[i].id = q[j].id => i = j

\* The first i entries of the pool, without the payments of the block.
Filtered(q, pool, block, i) ==
    /\ q \in Seq(Payments)
    /\ \A x \in 1 .. Len(q) : \E j \in 1 .. i : q[x] = pool[j]
    /\ \A j \in 1 .. i : InBlock(block, pool[j]) \/ \E x \in 1 .. Len(q) : q[x] = pool[j]
    /\ Distinct(pool) => Distinct(q)

\* mempoolUpdate looks at the payments of the pool one after the other.
LEMMA WithoutRounds ==
    ASSUME NEW pool \in Seq(Payments), NEW block
    PROVE  \E h : /\ h[0] = <<>>
                  /\ \A i \in 1 .. Len(pool) : h[i] = KeepIf(block, h[i - 1], pool[i])
                  /\ Without(pool, block) = h[Len(pool)]
<1> DEFINE D == DOMAIN pool
           V == Seq(Payments)
           pick == [s \in SUBSET D |-> Max(s)]
           step == [a \in V \X D |-> KeepIf(block, a[1], pool[a[2]])]
<1>1. PICK n \in Nat : n = Len(pool) /\ D = 1 .. n
    OBVIOUS
<1>2. IsFiniteSet(D)
    BY <1>1, FS_Interval
<1>3. \A s \in SUBSET D : s # {} => pick[s] = Max(s) /\ Max(s) \in s
    BY <1>1, MaxOf
<1>4. \A i \in D : pool[i] \in Payments
    OBVIOUS
<1>5. <<>> \in V /\ \A q \in V, i \in D : KeepIf(block, q, pool[i]) \in V
    BY <1>4 DEF KeepIf
<1>6. step \in [V \X D -> V]
    BY <1>5
<1>7. \A q \in V, i \in D : step[<<q, i>>] = KeepIf(block, q, pool[i])
    OBVIOUS
<1> HIDE DEF D, V, pick, step
<1>8. PICK f \in [SUBSET D -> V] : Folds(f, SUBSET D, <<>>, pick, step)
    <2>1. \A s \in SUBSET D : s # {} => pick[s] \in s
        BY <1>3
    <2>2. QED
        BY <1>2, <1>5, <1>6, <2>1, FoldExists
<1> DEFINE A(s) == IF s = {} THEN <<>> ELSE step[<<f[s \ {pick[s]}], pick[s]>>]
           B(s) == IF s = {} THEN <<>> ELSE KeepIf(block, f[s \ {Max(s)}], pool[Max(s)])
           Fold(g) == g = [s \in SUBSET D |->
                             IF s = {} THEN <<>> ELSE KeepIf(block, g[s \ {Max(s)}], pool[Max(s)])]
<1>9. \A s \in SUBSET D : A(s) = B(s)
    <2> SUFFICES ASSUME NEW s \in SUBSET D, s # {} PROVE A(s) = B(s)
        OBVIOUS
    <2>1. pick[s] = Max(s) /\ Max(s) \in s
        BY <1>3
    <2>2. f[s \ {Max(s)}] \in V /\ Max(s) \in D
        BY <2>1
    <2>3. step[<<f[s \ {Max(s)}], Max(s)>>] = KeepIf(block, f[s \ {Max(s)}], pool[Max(s)])
        BY <1>7, <2>2
    <2>4. QED
        BY <2>1, <2>3
<1>10. f = [s \in SUBSET D |-> A(s)]
    BY <1>8, Zenon DEF Folds
<1>11. Fold(f)
    <2>1. f = [s \in SUBSET D |-> B(s)]
        <3> HIDE DEF A, B
        <3>1. QED
            BY <1>9, <1>10, Zenon
    <2>2. QED
        BY <2>1, Zenon
<1> DEFINE c == CHOOSE g : Fold(g)
<1>12. Fold(c)
    <2> HIDE DEF Fold
    <2>1. QED
        BY <1>11, Zenon
<1>13. Without(pool, block) = c[D]
    BY Zenon DEF Without, FoldLeft, MapThenFoldSet, D, KeepIf, InBlock
<1> HIDE DEF c
<1>14. c[{}] = <<>>
    BY <1>12
<1>15. ASSUME NEW i \in 1 .. n
       PROVE  c[1 .. i] = KeepIf(block, c[1 .. i - 1], pool[i])
    <2>1. 1 .. i \in SUBSET D /\ 1 .. i # {}
        <3>1. 1 .. i \in SUBSET (1 .. n) /\ i \in 1 .. i
            OBVIOUS
        <3>2. QED
            BY <1>1, <3>1
    <2>2. c[1 .. i] = KeepIf(block, c[(1 .. i) \ {Max(1 .. i)}], pool[Max(1 .. i)])
        BY <1>12, <2>1
    <2>3. Max(1 .. i) = i /\ (1 .. i) \ {i} = 1 .. i - 1
        BY MaxOfPrefix
    <2>4. QED
        BY <2>2, <2>3
<1> DEFINE h == [i \in 0 .. n |-> c[1 .. i]]
<1>16. h[0] = <<>>
    <2>1. 1 .. 0 = {}
        OBVIOUS
    <2>2. QED
        BY <1>14, <2>1
<1>17. \A i \in 1 .. n : h[i] = KeepIf(block, h[i - 1], pool[i])
    BY <1>15
<1>18. Without(pool, block) = h[n]
    BY <1>1, <1>13
<1> HIDE DEF h
<1>19. QED
    BY <1>1, <1>16, <1>17, <1>18

\* One payment more is considered.
LEMMA FilterStep ==
    ASSUME NEW pool \in Seq(Payments), NEW block, NEW i \in Nat, i + 1 <= Len(pool),
           NEW q, Filtered(q, pool, block, i)
    PROVE  Filtered(KeepIf(block, q, pool[i + 1]), pool, block, i + 1)
<1> DEFINE p == pool[i + 1]
           r == KeepIf(block, q, p)
<1>1. p \in Payments /\ i + 1 \in 1 .. Len(pool)
    OBVIOUS
<1>2. \A j \in 1 .. i + 1 : j \in 1 .. i \/ j = i + 1
    OBVIOUS
<1>3. CASE InBlock(block, p)
    BY <1>2, <1>3 DEF KeepIf, Filtered
<1>4. CASE ~ InBlock(block, p)
    <2>1. r = Append(q, p) /\ q \in Seq(Payments)
        BY <1>4 DEF KeepIf, Filtered
    <2> HIDE DEF p, r
    <2>2. /\ r \in Seq(Payments) /\ Len(r) = Len(q) + 1 /\ r[Len(q) + 1] = p
          /\ \A x \in 1 .. Len(q) : r[x] = q[x]
        BY <1>1, <2>1
    <2>3. PICK l \in Nat : l = Len(q)
        BY <2>1
    <2>4. \A x \in 1 .. Len(r) : x \in 1 .. l \/ x = l + 1
        BY <2>2, <2>3
    <2>5. 1 .. l \subseteq 1 .. Len(r) /\ l + 1 \in 1 .. Len(r)
        BY <2>2, <2>3
    <2>6. ASSUME NEW x \in 1 .. Len(r) PROVE \E j \in 1 .. i + 1 : r[x] = pool[j]
        <3>1. CASE x \in 1 .. l
            <4>1. PICK j \in 1 .. i : q[x] = pool[j]
                BY <2>3, <3>1 DEF Filtered
            <4>2. j \in 1 .. i + 1
                OBVIOUS
            <4>3. QED
                BY <2>2, <2>3, <3>1, <4>1, <4>2
        <3>2. CASE x = l + 1
            <4>1. r[x] = pool[i + 1] /\ i + 1 \in 1 .. i + 1
                BY <2>2, <2>3, <3>2 DEF p
            <4>2. QED
                BY <4>1
        <3>3. QED
            BY <2>4, <3>1, <3>2
    <2>7. ASSUME NEW j \in 1 .. i + 1
          PROVE  InBlock(block, pool[j]) \/ \E x \in 1 .. Len(r) : r[x] = pool[j]
        <3>1. CASE j \in 1 .. i
            BY <2>2, <2>3, <2>5, <3>1 DEF Filtered
        <3>2. CASE j = i + 1
            BY <2>2, <2>3, <2>5, <3>2 DEF p
        <3>3. QED
            BY <1>2, <3>1, <3>2
    <2>8. ASSUME Distinct(pool) PROVE Distinct(r)
        <3>1. \A x \in 1 .. l : r[x].id # p.id
            <4> SUFFICES ASSUME NEW x \in 1 .. l, r[x].id = p.id PROVE FALSE
                OBVIOUS
            <4>1. PICK j \in 1 .. i : q[x] = pool[j]
                BY <2>3 DEF Filtered
            <4>2. r[x] = pool[j] /\ j \in 1 .. Len(pool) /\ j # i + 1
                BY <2>2, <2>3, <4>1
            <4>3. QED
                BY <1>1, <2>8, <4>2 DEF Distinct, p
        <3>2. \A x, y \in 1 .. l : r[x].id = r[y].id => x = y
            BY <2>2, <2>3, <2>8 DEF Filtered, Distinct
        <3>3. r[l + 1] = p
            BY <2>2, <2>3
        <3>4. QED
            BY <2>4, <3>1, <3>2, <3>3 DEF Distinct
    <2>9. QED
        BY <2>2, <2>6, <2>7, <2>8 DEF Filtered, r, p
<1>5. QED
    BY <1>3, <1>4

\* mempoolUpdate takes out the payments of the block and keeps the others.
LEMMA WithoutFilters ==
    ASSUME NEW pool \in Seq(Payments), NEW block
    PROVE  Filtered(Without(pool, block), pool, block, Len(pool))
<1>1. PICK h : /\ h[0] = <<>>
               /\ \A i \in 1 .. Len(pool) : h[i] = KeepIf(block, h[i - 1], pool[i])
               /\ Without(pool, block) = h[Len(pool)]
    BY WithoutRounds
<1> DEFINE T == {i \in Nat : i <= Len(pool) => Filtered(h[i], pool, block, i)}
<1>2. 0 \in T
    <2>1. <<>> \in Seq(Payments) /\ Len(<<>>) = 0
        OBVIOUS
    <2>2. Filtered(<<>>, pool, block, 0)
        BY <2>1 DEF Filtered, Distinct
    <2>3. QED
        BY <1>1, <2>2
<1>3. ASSUME NEW i \in T PROVE i + 1 \in T
    <2> SUFFICES ASSUME i + 1 <= Len(pool) PROVE Filtered(h[i + 1], pool, block, i + 1)
        OBVIOUS
    <2>1. i + 1 \in 1 .. Len(pool) /\ (i + 1) - 1 = i /\ Filtered(h[i], pool, block, i)
        OBVIOUS
    <2>2. h[i + 1] = KeepIf(block, h[i], pool[i + 1])
        BY <1>1, <2>1
    <2>3. QED
        BY <2>1, <2>2, FilterStep
<1>4. T = Nat
    <2> HIDE DEF T
    <2>1. T \subseteq Nat
        BY DEF T
    <2>2. QED
        BY <1>2, <1>3, <2>1, InductiveSet
<1>5. Len(pool) \in T
    BY <1>4
<1>6. QED
    BY <1>1, <1>5

-----------------------------------------------------------------------------
(* The invariant.                                                          *)

TypeOK ==
    /\ IsFiniteSet(ledger) /\ ledger \subseteq Rows
    /\ height \in Nat /\ height # 0 /\ paid \in Nat
    /\ mempool \in Seq(Payments)

Paid == {PaymentId(n) : n \in 1 .. paid}

\* A row has a hash of its own: a payment's, or one of its block.  What is
\* spent is in the chain.
Named ==
    /\ \A t \in ledger : \/ t.id \in Paid /\ t.from \in Keys /\ t.to \in Keys
                         \/ t.id = OwnId(t.block, t.from) /\ t.block <= height
    /\ \A s, t \in ledger : s.id = t.id => s = t
    /\ Spent \subseteq {t.id : t \in ledger}

\* A payment is in the mempool once.
Queued ==
    /\ \A i \in 1 .. Len(mempool) : mempool[i].id \in Paid
    /\ Distinct(mempool)

LedgerInv == TypeOK /\ Named /\ Queued /\ UnspentIsBalance

-----------------------------------------------------------------------------
(* The outputs that getUTXO lists and putTxInBlock takes.                  *)

\* Rows of the chain have values.
LEMMA LedgerValued ==
    ASSUME TypeOK, NEW S \in SUBSET ledger
    PROVE  Valued(S) /\ \A t \in S : t.value \in Nat /\ t.value > 0
<1>1. \A t \in ledger : t.value \in Nat /\ t.value > 0
    BY DEF TypeOK, Rows
<1>2. Valued(ledger)
    BY <1>1 DEF TypeOK, Valued
<1>3. QED
    BY <1>1, <1>2, SubsetValued

\* The order of the rows is an order.
LEMMA BeforeOrder ==
    ASSUME TypeOK, Named, NEW s \in ledger, NEW t \in ledger, NEW u \in ledger
    PROVE  ~ Before(s, s) /\ (Before(s, t) /\ Before(t, u) => Before(s, u))
<1>1. \A r \in ledger : /\ r.block \in Nat
                        /\ \/ Len(r.id) = 1 /\ r.from # Nobody /\ r.id[1] \in Nat
                           \/ Len(r.id) = 2
    <2> SUFFICES ASSUME NEW r \in ledger
                 PROVE  /\ r.block \in Nat
                        /\ \/ Len(r.id) = 1 /\ r.from # Nobody /\ r.id[1] \in Nat
                           \/ Len(r.id) = 2
        OBVIOUS
    <2>1. r.block \in Nat
        BY DEF TypeOK, Rows
    <2>2. CASE r.id \in Paid /\ r.from \in Keys
        <3>1. PICK n \in 1 .. paid : r.id = <<n>>
            BY <2>2 DEF Paid, PaymentId
        <3>2. n \in Nat
            BY DEF TypeOK
        <3>3. QED
            BY <2>1, <2>2, <3>1, <3>2, LedgerAssumption
    <2>3. CASE r.id = OwnId(r.block, r.from)
        BY <2>1, <2>3 DEF OwnId
    <2>4. QED
        BY <2>2, <2>3 DEF Named
<1>2. /\ s.block \in Nat /\ t.block \in Nat /\ u.block \in Nat
    BY <1>1
<1> DEFINE Short(r) == Len(r.id) = 1 /\ r.from # Nobody /\ r.id[1] \in Nat
           Long(r) == Len(r.id) = 2
<1>3. \A r \in ledger : (Short(r) \/ Long(r)) /\ ~ (Short(r) /\ Long(r))
    BY <1>1
<1>4. ~ Before(s, s)
    <2>1. ~ (s.block < s.block)
        BY <1>2
    <2>2. CASE Short(s)
        BY <2>1, <2>2 DEF Before
    <2>3. CASE Long(s)
        BY <2>1, <2>3 DEF Before
    <2>4. QED
        BY <1>3, <2>2, <2>3
<1>5. ASSUME Before(s, t), Before(t, u) PROVE Before(s, u)
    <2>1. s.block <= t.block /\ t.block <= u.block
        BY <1>2, <1>5 DEF Before
    <2>2. CASE s.block < u.block
        BY <2>2 DEF Before
    <2>3. CASE s.block = t.block /\ t.block = u.block
        <3>1. \/ Len(s.id) < Len(t.id)
              \/ Len(s.id) = 1 /\ Len(t.id) = 1 /\ s.id[1] < t.id[1]
              \/ Len(s.id) = 2 /\ s.from # Nobody /\ t.from = Nobody
            BY <1>2, <1>5, <2>3 DEF Before
        <3>2. \/ Len(t.id) < Len(u.id)
              \/ Len(t.id) = 1 /\ Len(u.id) = 1 /\ t.id[1] < u.id[1]
              \/ Len(t.id) = 2 /\ t.from # Nobody /\ u.from = Nobody
            BY <1>2, <1>5, <2>3 DEF Before
        <3>3. \/ Len(s.id) < Len(u.id)
              \/ Len(s.id) = 1 /\ Len(u.id) = 1 /\ s.id[1] < u.id[1]
              \/ Len(s.id) = 2 /\ s.from # Nobody /\ u.from = Nobody
            BY <1>3, <3>1, <3>2
        <3>4. QED
            BY <2>3, <3>3 DEF Before
    <2>4. QED
        BY <1>2, <2>1, <2>2, <2>3
<1>6. QED
    BY <1>4, <1>5

\* What Taken returns: the outputs it took, which are all of them when they
\* do not suffice.
LEMMA TakenFacts ==
    ASSUME TypeOK, Named, NEW k, NEW used, NEW v
    PROVE  LET tk == Taken(Unspent(k), used, v)
           IN  \E F \in SUBSET Unspent(k) :
                   /\ tk.sum \in Nat /\ tk.sum = SumValues({t \in F : t.id \notin used})
                   /\ v \in Nat /\ tk.sum < v => F = Unspent(k)
                   /\ ~ (tk.sum < v) => tk.input = {t.id : t \in F}
                   /\ tk.input \subseteq {t.id : t \in F}
<1> DEFINE outs == Unspent(k)
           worth(S) == SumValues({t \in S : t.id \notin used})
           before(t) == {s \in outs : Before(s, t)}
           first == {t \in outs : worth(before(t)) < v}
           tk == Taken(outs, used, v)
<1>1. tk.sum = worth(first) /\ tk.input = IF worth(first) < v THEN {} ELSE {t.id : t \in first}
    BY DEF Taken
<1>2. outs \in SUBSET ledger /\ first \in SUBSET outs
    BY DEF Unspent
<1> HIDE DEF outs, tk
<1>3. ASSUME NEW S \in SUBSET outs
      PROVE  worth(S) \in Nat /\ Valued({t \in S : t.id \notin used})
    <2>1. {t \in S : t.id \notin used} \in SUBSET ledger
        BY <1>2
    <2>2. QED
        BY <2>1, LedgerValued, SumType
<1>4. ASSUME NEW S \in SUBSET outs, NEW R \in SUBSET S
      PROVE  worth(R) <= worth(S)
    <2>1. {t \in R : t.id \notin used} \in SUBSET {t \in S : t.id \notin used}
        OBVIOUS
    <2>2. QED
        BY <1>3, <2>1, SumSplit
<1> HIDE DEF worth
<1>5. ASSUME v \in Nat, worth(first) < v, first # outs
      PROVE  FALSE
    <2> DEFINE N == {Cardinality(before(t)) : t \in outs \ first}
    <2>1. \A t \in outs : IsFiniteSet(before(t)) /\ Cardinality(before(t)) \in Nat
        <3>1. \A t \in outs : before(t) \in SUBSET ledger
            BY <1>2
        <3>2. QED
            BY <3>1, FS_Subset, FS_CardinalityType DEF TypeOK
    <2>2. N \in SUBSET Nat /\ N # {}
        BY <1>2, <1>5, <2>1
    <2>3. PICK n \in N : \A m \in N : n <= m
        <3> HIDE DEF N
        <3>1. QED
            BY <2>2, LeastNatural
    <2>4. PICK t \in outs \ first : n = Cardinality(before(t))
        OBVIOUS
    <2>5. ASSUME NEW s \in before(t) PROVE s \in first
        <3> SUFFICES ASSUME s \notin first PROVE FALSE
            OBVIOUS
        <3>1. s \in outs /\ Before(s, t)
            OBVIOUS
        <3>2. Cardinality(before(t)) <= Cardinality(before(s))
            BY <2>3, <2>4, <3>1
        <3>3. before(s) \subseteq before(t) /\ s \notin before(s)
            BY <1>2, <3>1, BeforeOrder
        <3>4. before(s) \in SUBSET before(t) /\ before(s) # before(t)
            BY <3>3
        <3> HIDE DEF before
        <3>5. Cardinality(before(s)) <= Cardinality(before(t))
              /\ (Cardinality(before(t)) = Cardinality(before(s)) => before(s) = before(t))
            BY <2>1, <3>4, FS_Subset
        <3>6. Cardinality(before(s)) \in Nat /\ Cardinality(before(t)) \in Nat
            BY <2>1, <3>1
        <3>7. QED
            BY <3>2, <3>4, <3>5, <3>6
    <2>6. worth(before(t)) <= worth(first)
        <3>1. first \in SUBSET outs /\ before(t) \in SUBSET first
            BY <1>2, <2>5
        <3> HIDE DEF before, first
        <3>2. QED
            BY <1>4, <3>1
    <2>7. worth(before(t)) \in Nat /\ worth(first) \in Nat
        <3>1. before(t) \in SUBSET outs /\ first \in SUBSET outs
            OBVIOUS
        <3> HIDE DEF before, first
        <3>2. QED
            BY <1>3, <3>1
    <2>8. worth(before(t)) < v
        BY <1>5, <2>6, <2>7
    <2>9. QED
        BY <2>4, <2>8
<1> HIDE DEF first
<1>6. /\ tk.sum \in Nat /\ tk.sum = worth(first)
      /\ v \in Nat /\ tk.sum < v => first = outs
      /\ ~ (tk.sum < v) => tk.input = {t.id : t \in first}
      /\ tk.input \subseteq {t.id : t \in first}
    BY <1>1, <1>2, <1>3, <1>5
<1>7. QED
    BY <1>2, <1>6 DEF worth, tk, outs

-----------------------------------------------------------------------------
(* One round of the loop.                                                  *)

\* The payment only passes: into the pool, or out of it.
Passes(acc, r) == r.rows = acc.rows /\ r.used = acc.used /\ r.changes = acc.changes

\* The payment becomes a row that spends "in", with "new" outputs used and
\* entry c in the changes.
Takes(acc, r, p, in, c, new) ==
    /\ r.rows = acc.rows \cup {RowOf(p, height + 1, in)}
    /\ r.used = acc.used \cup new
    /\ r.pool = Append(acc.pool, p)
    /\ r.changes = [acc.changes EXCEPT ![p.from] = c]

TakenFor(acc, p) ==
    Taken(Unspent(p.from), acc.used, p.value - acc.changes[p.from].left)

\* The fields of a state of the loop.
LEMMA AccFields ==
    ASSUME NEW acc \in Accs, NEW k \in Keys
    PROVE  /\ acc.rows \in SUBSET Rows /\ acc.used \in SUBSET Ids /\ acc.pool \in Seq(Payments)
           /\ acc.skip \in BOOLEAN /\ acc.changes \in Changes
           /\ acc.changes[k].left \in Nat /\ acc.changes[k].input \in SUBSET Ids
<1>1. /\ acc.rows \in SUBSET Rows /\ acc.used \in SUBSET Ids /\ acc.pool \in Seq(Payments)
      /\ acc.skip \in BOOLEAN /\ acc.changes \in Changes
    BY DEF Accs
<1>2. acc.changes[k] \in [left : Nat, input : SUBSET Ids]
    BY <1>1 DEF Changes
<1>3. QED
    BY <1>1, <1>2

\* A state of the loop, field by field.
LEMMA Membership ==
    ASSUME NEW rows \in SUBSET Rows, NEW used \in SUBSET Ids, NEW pool \in Seq(Payments),
           NEW skip \in BOOLEAN, NEW changes \in Changes
    PROVE  [rows |-> rows, used |-> used, pool |-> pool, skip |-> skip, changes |-> changes] \in Accs
BY DEF Accs

\* The five ways of a round.
RoundOf(acc, p, r) ==
    \/ /\ acc.skip
       /\ Passes(acc, r) /\ r.pool = Append(acc.pool, p)
    \/ /\ ~ acc.skip /\ Stored(p.id)
       /\ Passes(acc, r) /\ r.pool = acc.pool
    \/ /\ ~ acc.skip /\ ~ Stored(p.id)
       /\ acc.changes[p.from].left + TakenFor(acc, p).sum < p.value
       /\ acc.changes[p.from].left < p.value
       /\ Passes(acc, r) /\ r.pool = acc.pool
    \/ /\ ~ acc.skip /\ ~ Stored(p.id)
       /\ acc.changes[p.from].left >= p.value
       /\ \E c \in [left : Nat, input : SUBSET Ids] :
              /\ c.left = acc.changes[p.from].left - p.value
              /\ c.input \subseteq acc.changes[p.from].input
              /\ Takes(acc, r, p, acc.changes[p.from].input, c, {})
    \/ /\ ~ acc.skip /\ ~ Stored(p.id)
       /\ acc.changes[p.from].left < p.value
       /\ acc.changes[p.from].left + TakenFor(acc, p).sum >= p.value
       /\ \E c \in [left : Nat, input : SUBSET Ids] :
              /\ c.left = acc.changes[p.from].left + TakenFor(acc, p).sum - p.value
              /\ c.input \subseteq TakenFor(acc, p).input
              /\ Takes(acc, r, p,
                       IF acc.changes[p.from].left > 0 THEN acc.changes[p.from].input
                       ELSE TakenFor(acc, p).input, c, TakenFor(acc, p).input)

\* What is taken for a payment has a type.
LEMMA TakenType ==
    ASSUME TypeOK, Named, NEW acc \in Accs, NEW p \in Payments
    PROVE  TakenFor(acc, p).sum \in Nat /\ TakenFor(acc, p).input \in SUBSET Ids
<1>1. PICK F \in SUBSET Unspent(p.from) :
          TakenFor(acc, p).sum \in Nat /\ TakenFor(acc, p).input \subseteq {t.id : t \in F}
    BY TakenFacts DEF TakenFor
<1>2. \A t \in F : t.id \in Ids
    BY DEF Unspent, TypeOK, Rows
<1>3. QED
    BY <1>1, <1>2

\* What Select makes of a state of the loop.
LEMMA Selected ==
    ASSUME NEW acc \in Accs, NEW p \in Payments, height \in Nat, NEW in \in SUBSET Ids,
           NEW c \in [left : Nat, input : SUBSET Ids], NEW new \in SUBSET Ids,
           NEW r, \/ r = Select(acc, p, in, c) /\ new = {}
                  \/ r = [Select(acc, p, in, c) EXCEPT !.used = @ \cup new]
    PROVE  r \in Accs /\ Takes(acc, r, p, in, c, new)
<1> DEFINE rows == acc.rows \cup {RowOf(p, height + 1, in)}
           pool == Append(acc.pool, p)
           changes == [acc.changes EXCEPT ![p.from] = c]
<1>1. p.from \in Keys
    BY DEF Payments
<1>2. /\ acc.rows \in SUBSET Rows /\ acc.used \in SUBSET Ids /\ acc.pool \in Seq(Payments)
      /\ acc.skip \in BOOLEAN /\ acc.changes \in Changes
    BY <1>1, AccFields
<1>3. rows \in SUBSET Rows
    <2>1. RowOf(p, height + 1, in) \in Rows
        BY DEF RowOf, Rows, Payments, Someone
    <2>2. QED
        BY <1>2, <2>1
<1>4. pool \in Seq(Payments)
    BY <1>2
<1>5. changes \in Changes
    BY <1>1, <1>2 DEF Changes
<1> DEFINE s == Select(acc, p, in, c)
<1>6. /\ s \in Accs
      /\ s.rows = rows /\ s.used = acc.used /\ s.pool = pool /\ s.changes = changes
    <2>1. s = [acc EXCEPT !.rows = rows, !.pool = pool, !.changes = changes]
        BY Zenon DEF Select
    <2> DEFINE A == SUBSET Rows
               B == SUBSET Ids
               C == Seq(Payments)
    <2>2. rows \in A /\ pool \in C /\ changes \in Changes
        BY <1>3, <1>4, <1>5
    <2>3. Accs = [rows : A, used : B, pool : C, skip : BOOLEAN, changes : Changes]
        BY DEF Accs
    <2> HIDE DEF rows, pool, changes, s, A, B, C
    <2>4. QED
        BY <2>1, <2>2, <2>3
<1>7. CASE r = s /\ new = {}
    <2> HIDE DEF rows, pool, changes, s
    <2>1. r.used = acc.used \cup new
        BY <1>6, <1>7
    <2>2. QED
        BY <1>6, <1>7, <2>1 DEF Takes, rows, pool, changes
<1>8. CASE r = [s EXCEPT !.used = @ \cup new]
    <2> HIDE DEF rows, pool, changes, s
    <2>1. s.used \cup new \in SUBSET Ids
        BY <1>2, <1>6
    <2>2. r = [s EXCEPT !.used = s.used \cup new]
        BY <1>8
    <2>3. /\ r \in Accs /\ r.rows = s.rows /\ r.used = s.used \cup new /\ r.pool = s.pool
          /\ r.changes = s.changes
        BY <1>6, <2>1, <2>2 DEF Accs
    <2>4. QED
        BY <1>6, <2>3 DEF Takes, rows, pool, changes
<1>9. QED
    BY <1>7, <1>8

\* Every round is one of the five.
LEMMA ConsiderRound ==
    ASSUME TypeOK, Named, NEW acc \in Accs, NEW p \in Payments
    PROVE  Consider(acc, p) \in Accs /\ RoundOf(acc, p, Consider(acc, p))
<1> DEFINE r == Consider(acc, p)
           change == acc.changes[p.from]
           taken == TakenFor(acc, p)
           rest == change.left + taken.sum - p.value
<1>1. p.from \in Keys /\ p.value \in Nat /\ height \in Nat
    BY DEF Payments, TypeOK
<1>2. /\ acc.rows \in SUBSET Rows /\ acc.used \in SUBSET Ids /\ acc.pool \in Seq(Payments)
      /\ acc.skip \in BOOLEAN /\ acc.changes \in Changes
      /\ change.left \in Nat /\ change.input \in SUBSET Ids
    BY <1>1, AccFields
<1>3. change \in [left : Nat, input : SUBSET Ids]
    BY <1>1, <1>2 DEF Changes
<1>4. taken.sum \in Nat /\ taken.input \in SUBSET Ids
    BY TakenType
<1>5. acc = [rows |-> acc.rows, used |-> acc.used, pool |-> acc.pool, skip |-> acc.skip,
             changes |-> acc.changes]
    BY DEF Accs
<1> DEFINE c1 == IF change.left = p.value THEN NoChange ELSE [change EXCEPT !.left = @ - p.value]
           c2 == IF rest = 0 THEN NoChange ELSE [left |-> rest, input |-> taken.input]
           in2 == IF change.left > 0 THEN change.input ELSE taken.input
<1>6. r = IF acc.skip
          THEN [acc EXCEPT !.skip = FALSE, !.pool = Append(@, p)]
          ELSE IF Stored(p.id)
          THEN [acc EXCEPT !.skip = TRUE]
          ELSE IF change.left >= p.value
          THEN Select(acc, p, change.input, c1)
          ELSE IF rest < 0
          THEN acc
          ELSE [Select(acc, p, in2, c2) EXCEPT !.used = @ \cup taken.input]
    BY Zenon DEF Consider, TakenFor
<1>7. CASE acc.skip
    <2>1. r = [rows |-> acc.rows, used |-> acc.used, pool |-> Append(acc.pool, p), skip |-> FALSE,
               changes |-> acc.changes]
        BY <1>5, <1>6, <1>7
    <2>2. Append(acc.pool, p) \in Seq(Payments)
        BY <1>2
    <2>3. r \in Accs
        BY <1>2, <2>1, <2>2, Membership
    <2>4. r.rows = acc.rows /\ r.used = acc.used /\ r.changes = acc.changes
          /\ r.pool = Append(acc.pool, p)
        BY <2>1
    <2> HIDE DEF r
    <2>5. QED
        BY <1>7, <2>3, <2>4 DEF RoundOf, Passes, r
<1>8. CASE ~ acc.skip /\ Stored(p.id)
    <2>1. r = [rows |-> acc.rows, used |-> acc.used, pool |-> acc.pool, skip |-> TRUE,
               changes |-> acc.changes]
        BY <1>5, <1>6, <1>8
    <2>2. r \in Accs
        BY <1>2, <2>1, Membership
    <2>3. r.rows = acc.rows /\ r.used = acc.used /\ r.changes = acc.changes /\ r.pool = acc.pool
        BY <2>1
    <2> HIDE DEF r
    <2>4. QED
        BY <1>8, <2>2, <2>3 DEF RoundOf, Passes, r
<1>9. CASE ~ acc.skip /\ ~ Stored(p.id) /\ change.left >= p.value
    <2>1. r = Select(acc, p, change.input, c1)
        BY <1>6, <1>9
    <2>2. c1 \in [left : Nat, input : SUBSET Ids] /\ c1.left = change.left - p.value
          /\ c1.input \subseteq change.input
        <3>1. CASE change.left = p.value
            BY <1>1, <1>2, <3>1 DEF NoChange
        <3>2. CASE change.left # p.value
            <4>1. change = [left |-> change.left, input |-> change.input]
                BY <1>3
            <4>2. c1 = [left |-> change.left - p.value, input |-> change.input]
                BY <3>2, <4>1
            <4>3. change.left - p.value \in Nat
                BY <1>1, <1>2, <1>9
            <4>4. QED
                BY <1>2, <4>2, <4>3
        <3>3. QED
            BY <3>1, <3>2
    <2> HIDE DEF r, c1
    <2>3. r \in Accs /\ Takes(acc, r, p, change.input, c1, {})
        BY <1>1, <1>2, <2>1, <2>2, Selected
    <2>4. QED
        BY <1>9, <2>2, <2>3 DEF RoundOf, r
<1>10. CASE ~ acc.skip /\ ~ Stored(p.id) /\ ~ (change.left >= p.value) /\ rest < 0
    <2>1. r = acc
        BY <1>6, <1>10
    <2>2. change.left < p.value /\ change.left + taken.sum < p.value
        BY <1>1, <1>2, <1>4, <1>10, SMTT(30)
    <2> HIDE DEF r
    <2>3. QED
        BY <1>10, <2>1, <2>2 DEF RoundOf, Passes, r
<1>11. CASE ~ acc.skip /\ ~ Stored(p.id) /\ ~ (change.left >= p.value) /\ ~ (rest < 0)
    <2>1. r = [Select(acc, p, in2, c2) EXCEPT !.used = @ \cup taken.input]
        BY <1>6, <1>11, Zenon
    <2>2. change.left < p.value /\ change.left + taken.sum >= p.value /\ rest \in Nat
        BY <1>1, <1>2, <1>4, <1>11
    <2>3. c2 \in [left : Nat, input : SUBSET Ids] /\ c2.left = rest /\ c2.input \subseteq taken.input
        <3> HIDE DEF rest, taken
        <3>1. QED
            BY <1>4, <2>2 DEF NoChange
    <2>4. in2 \in SUBSET Ids
        BY <1>2, <1>4
    <2> HIDE DEF r, c2, in2
    <2>5. r \in Accs /\ Takes(acc, r, p, in2, c2, taken.input)
        BY <1>1, <1>4, <2>1, <2>3, <2>4, Selected
    <2>6. QED
        BY <1>11, <2>2, <2>3, <2>5 DEF RoundOf, r, in2
<1>12. QED
    BY <1>7, <1>8, <1>9, <1>10, <1>11

-----------------------------------------------------------------------------
(* The invariant of the loop: what it holds after the first i payments.    *)

ChangeRow(changes, k) ==
    [id |-> OwnId(height + 1, k), block |-> height + 1, from |-> k, to |-> k,
     value |-> changes[k].left, inputs |-> changes[k].input]

\* The change transactions of the keys in J, the outputs to them that are
\* used, and the rows that they pay.
ChangeRows(changes, J) == {ChangeRow(changes, k) : k \in {j \in J : changes[j].left > 0}}
UsedOf(used, J) == {t \in ledger : t.to \in J /\ t.id \in used}
RowsOf(rows, J) == {r \in rows : r.from \in J}

\* What is used of the keys in J is worth what they pay and get back.
Balanced(acc) ==
    \A J \in SUBSET Keys :
        SumValues(UsedOf(acc.used, J))
            = SumValues(RowsOf(acc.rows, J)) + SumValues(ChangeRows(acc.changes, J))

\* No payer has two rows.
Single(rows) == \A r, s \in rows : r.from = s.from => r = s

\* The rows are payments of the mempool that are not in the chain.
Drawn(acc, i) ==
    /\ \A r \in acc.rows : /\ ~ Stored(r.id)
                           /\ \E j \in 1 .. i : r = RowOf(mempool[j], height + 1, r.inputs)
    /\ \A r, s \in acc.rows : r.id = s.id => r = s

\* Everything they spend is used, and what is used is unspent money of keys.
Spends(acc) ==
    /\ \A r \in acc.rows : r.inputs \subseteq acc.used
    /\ \A k \in Keys : acc.changes[k].input \subseteq acc.used
    /\ acc.used \subseteq {t.id : t \in {o \in ledger : o.to \in Keys /\ o.id \notin Spent}}

\* Change is of a payer with a row; if none has two, what is used is listed.
Listed(acc) ==
    /\ \A k \in Keys : acc.changes[k].left > 0 => \E r \in acc.rows : r.from = k
    /\ Single(acc.rows) => acc.used \subseteq UNION {r.inputs : r \in acc.rows}

Books(acc, i) ==
    /\ acc \in Accs
    /\ IsFiniteSet(acc.rows) /\ IsFiniteSet(ChangeRows(acc.changes, Keys))
    /\ Drawn(acc, i) /\ Spends(acc) /\ Balanced(acc) /\ Listed(acc)

\* Outputs F of k are used as well, those that gain were not before.
Grows(used, grown, F, gain, k) ==
    /\ F \in SUBSET Unspent(k)
    /\ grown = used \cup {t.id : t \in F}
    /\ gain = {t \in F : t.id \notin used}

\* Only what is used of k grows, by the gain.
LEMMA UsedGrows ==
    ASSUME Named, NEW k, NEW used, NEW grown, NEW F, NEW gain, Grows(used, grown, F, gain, k), NEW J
    PROVE  /\ k \in J => /\ UsedOf(grown, J) = UsedOf(used, J) \cup gain
                         /\ UsedOf(used, J) \cap gain = {}
           /\ k \notin J => UsedOf(grown, J) = UsedOf(used, J)
<1>1. \A t \in F : t \in ledger /\ t.to = k
    BY DEF Unspent, Grows
<1>2. \A t \in ledger : t.id \in {s.id : s \in F} <=> t \in F
    BY <1>1 DEF Named
<1>3. QED
    BY <1>1, <1>2 DEF UsedOf, Grows

\* Change transactions have values.
LEMMA ChangesValued ==
    ASSUME NEW changes \in Changes, IsFiniteSet(ChangeRows(changes, Keys)), NEW J \in SUBSET Keys
    PROVE  Valued(ChangeRows(changes, J))
<1>1. ChangeRows(changes, J) \in SUBSET ChangeRows(changes, Keys)
    BY DEF ChangeRows
<1>2. \A r \in ChangeRows(changes, J) : r.value \in Nat
    <2> SUFFICES ASSUME NEW k \in J PROVE ChangeRow(changes, k).value \in Nat
        BY DEF ChangeRows
    <2>1. changes[k] \in [left : Nat, input : SUBSET Ids]
        BY DEF Changes
    <2>2. QED
        BY <2>1 DEF ChangeRow
<1>3. QED
    BY <1>1, <1>2, FS_Subset DEF Valued

\* The change transaction of one key, apart from the others.
LEMMA ChangeOf ==
    ASSUME NEW changes \in Changes, IsFiniteSet(ChangeRows(changes, Keys)), NEW J \in SUBSET Keys,
           NEW k \in J
    PROVE  SumValues(ChangeRows(changes, J))
             = SumValues(ChangeRows(changes, J \ {k})) + changes[k].left
<1> DEFINE others == ChangeRows(changes, J \ {k})
<1>1. changes[k].left \in Nat
    <2>1. changes[k] \in [left : Nat, input : SUBSET Ids]
        BY DEF Changes
    <2>2. QED
        BY <2>1
<1>2. Valued(others)
    BY ChangesValued, J \ {k} \in SUBSET Keys
<1>3. ChangeRow(changes, k) \notin others /\ ChangeRow(changes, k).value = changes[k].left
    BY DEF ChangeRows, ChangeRow
<1>4. ChangeRows(changes, J) = IF changes[k].left > 0 THEN others \cup {ChangeRow(changes, k)}
                               ELSE others
    <2>1. CASE changes[k].left > 0
        BY <2>1 DEF ChangeRows
    <2>2. CASE ~ (changes[k].left > 0)
        BY <2>2 DEF ChangeRows
    <2>3. QED
        BY <2>1, <2>2
<1> HIDE DEF others
<1>5. CASE changes[k].left > 0
    <2>1. ChangeRow(changes, k).value \in Nat
        BY <1>1, <1>3
    <2>2. SumValues(others \cup {ChangeRow(changes, k)}) = SumValues(others) + ChangeRow(changes, k).value
        BY <1>2, <1>3, <2>1, SumAdd
    <2>3. QED
        BY <1>3, <1>4, <1>5, <2>2 DEF others
<1>6. CASE ~ (changes[k].left > 0)
    BY <1>1, <1>2, <1>4, <1>6, SumType DEF others
<1>7. QED
    BY <1>5, <1>6

\* An entry of changes says nothing of the other keys.
LEMMA OtherChanges ==
    ASSUME NEW changes \in Changes, NEW k \in Keys, NEW c, NEW J \in SUBSET Keys, k \notin J
    PROVE  ChangeRows([changes EXCEPT ![k] = c], J) = ChangeRows(changes, J)
<1> DEFINE new == [changes EXCEPT ![k] = c]
<1>1. \A j \in J : new[j] = changes[j]
    BY DEF Changes
<1> HIDE DEF new
<1>2. \A j \in J : ChangeRow(new, j) = ChangeRow(changes, j)
    BY <1>1 DEF ChangeRow
<1>3. ChangeRows(new, J) = ChangeRows(changes, J)
    BY <1>1, <1>2 DEF ChangeRows
<1>4. QED
    BY <1>3 DEF new

\* The change transactions remain finitely many.
LEMMA ChangesFinite ==
    ASSUME NEW changes \in Changes, IsFiniteSet(ChangeRows(changes, Keys)), NEW k \in Keys,
           NEW c \in [left : Nat, input : SUBSET Ids]
    PROVE  IsFiniteSet(ChangeRows([changes EXCEPT ![k] = c], Keys))
<1> DEFINE new == [changes EXCEPT ![k] = c]
<1>1. ChangeRows(new, Keys \ {k}) = ChangeRows(changes, Keys \ {k})
    BY OtherChanges, Keys \ {k} \in SUBSET Keys
<1> HIDE DEF new
<1>2. ChangeRows(changes, Keys \ {k}) \in SUBSET ChangeRows(changes, Keys)
    BY DEF ChangeRows
<1>3. ChangeRows(new, Keys) \in SUBSET (ChangeRows(new, Keys \ {k}) \cup {ChangeRow(new, k)})
    BY DEF ChangeRows
<1>4. IsFiniteSet(ChangeRows(changes, Keys \ {k}) \cup {ChangeRow(new, k)})
    BY <1>2, FS_Subset, FS_AddElement
<1>5. IsFiniteSet(ChangeRows(new, Keys))
    <2> DEFINE S == ChangeRows(changes, Keys \ {k}) \cup {ChangeRow(new, k)}
    <2>1. ChangeRows(new, Keys) \in SUBSET S /\ IsFiniteSet(S)
        BY <1>1, <1>3, <1>4
    <2> HIDE DEF S
    <2>2. QED
        BY <2>1, FS_Subset
<1>6. QED
    BY <1>5 DEF new

\* Rows have values.
LEMMA RowsValued ==
    ASSUME NEW rows \in SUBSET Rows, IsFiniteSet(rows), NEW S \in SUBSET rows
    PROVE  Valued(S) /\ \A r \in S : r.value > 0
<1>1. \A r \in S : r.value \in Nat /\ r.value > 0
    BY DEF Rows
<1>2. QED
    BY <1>1, FS_Subset DEF Valued

-----------------------------------------------------------------------------
(* One payment is taken.  F are the outputs that it uses; "in" is what its *)
(* row lists, c the payer's new entry in changes.                          *)

Take(acc, r, p, in, c, F) ==
    /\ Takes(acc, r, p, in, c, {t.id : t \in F})
    /\ in \subseteq acc.used \cup {t.id : t \in F}
    /\ c \in [left : Nat, input : SUBSET Ids] /\ c.input \subseteq acc.used \cup {t.id : t \in F}
    /\ c.left + p.value = acc.changes[p.from].left + SumValues({t \in F : t.id \notin acc.used})
    /\ acc.changes[p.from].left > 0 \/ in = {t.id : t \in F}

\* The row is a payment of the mempool that is not in the chain, and a new one.
LEMMA TakeDraws ==
    ASSUME TypeOK, Queued, NEW i \in Nat, i + 1 <= Len(mempool), NEW acc, Drawn(acc, i),
           NEW r, NEW in, r.rows = acc.rows \cup {RowOf(mempool[i + 1], height + 1, in)},
           ~ Stored(mempool[i + 1].id)
    PROVE  /\ Drawn(r, i + 1)
           /\ RowOf(mempool[i + 1], height + 1, in) \notin acc.rows
<1> DEFINE p == mempool[i + 1]
           new == RowOf(p, height + 1, in)
<1>1. /\ new.id = p.id /\ new.inputs = in /\ i + 1 \in 1 .. Len(mempool)
      /\ \A j \in 1 .. i : j \in 1 .. Len(mempool) /\ j # i + 1
    BY DEF RowOf, TypeOK
<1>2. ASSUME NEW x \in acc.rows PROVE x.id # p.id
    <2>1. PICK j \in 1 .. i : x = RowOf(mempool[j], height + 1, x.inputs)
        BY DEF Drawn
    <2>2. x.id = mempool[j].id
        BY <2>1 DEF RowOf
    <2>3. QED
        BY <1>1, <2>2 DEF Queued, Distinct
<1>3. ASSUME NEW x \in r.rows
      PROVE  ~ Stored(x.id) /\ \E j \in 1 .. i + 1 : x = RowOf(mempool[j], height + 1, x.inputs)
    <2>1. CASE x \in acc.rows
        <3>1. PICK j \in 1 .. i : x = RowOf(mempool[j], height + 1, x.inputs)
            BY <2>1 DEF Drawn
        <3>2. j \in 1 .. i + 1
            OBVIOUS
        <3>3. QED
            BY <2>1, <3>1, <3>2 DEF Drawn
    <2>2. CASE x = new
        <3>1. i + 1 \in 1 .. i + 1
            OBVIOUS
        <3>2. ~ Stored(x.id) /\ x = RowOf(mempool[i + 1], height + 1, x.inputs)
            <4> HIDE DEF new
            <4>1. ~ Stored(x.id)
                BY <1>1, <2>2
            <4>2. QED
                BY <1>1, <2>2, <4>1 DEF new
        <3>3. QED
            BY <3>1, <3>2
    <2>3. QED
        BY <2>1, <2>2
<1> HIDE DEF new, p
<1>4. r.rows = acc.rows \cup {new}
    BY DEF new, p
<1>5. \A x, y \in r.rows : x.id = y.id => x = y
    BY <1>1, <1>2, <1>4 DEF Drawn
<1>6. new \notin acc.rows
    BY <1>1, <1>2
<1>7. QED
    BY <1>3, <1>5, <1>6 DEF Drawn, new, p

\* The row and the change spend what is used.
LEMMA TakeSpends ==
    ASSUME TypeOK, NEW acc \in Accs, Spends(acc), NEW p \in Payments, NEW r, NEW in, NEW c,
           NEW F \in SUBSET Unspent(p.from), Take(acc, r, p, in, c, F)
    PROVE  Spends(r)
<1> DEFINE new == {t.id : t \in F}
<1>1. p.from \in Keys
    BY DEF Payments
<1>2. new \subseteq {t.id : t \in {o \in ledger : o.to \in Keys /\ o.id \notin Spent}}
    BY <1>1 DEF Unspent
<1>3. /\ r.rows = acc.rows \cup {RowOf(p, height + 1, in)} /\ r.used = acc.used \cup new
      /\ r.changes = [acc.changes EXCEPT ![p.from] = c]
      /\ in \subseteq acc.used \cup new /\ c.input \subseteq acc.used \cup new
    BY DEF Take, Takes
<1> HIDE DEF new
<1>4. \A x \in r.rows : x.inputs \subseteq r.used
    <2>1. RowOf(p, height + 1, in).inputs = in
        BY DEF RowOf
    <2>2. QED
        BY <1>3, <2>1 DEF Spends
<1>5. \A k \in Keys : r.changes[k].input \subseteq r.used
    <2> SUFFICES ASSUME NEW k \in Keys PROVE r.changes[k].input \subseteq r.used
        OBVIOUS
    <2>1. acc.changes \in Changes
        BY <1>1, AccFields
    <2>2. r.changes[k] = IF k = p.from THEN c ELSE acc.changes[k]
        BY <1>1, <1>3, <2>1 DEF Changes
    <2>3. QED
        BY <1>3, <2>2 DEF Spends
<1>6. r.used \subseteq {t.id : t \in {o \in ledger : o.to \in Keys /\ o.id \notin Spent}}
    BY <1>2, <1>3 DEF Spends
<1>7. QED
    BY <1>4, <1>5, <1>6 DEF Spends

\* The arithmetic of a payment.
LEMMA TakeSums ==
    ASSUME NEW v \in Nat, NEW left \in Nat, NEW old \in Nat, NEW g \in Nat, left + v = old + g,
           NEW used, NEW rows \in Nat, NEW others \in Nat, used = rows + (others + old)
    PROVE  used + g = (rows + v) + (others + left)
OBVIOUS

\* What is used is still worth what is paid and given back.
LEMMA TakeBalances ==
    ASSUME TypeOK, Named, NEW acc \in Accs, IsFiniteSet(acc.rows),
           IsFiniteSet(ChangeRows(acc.changes, Keys)), Balanced(acc), NEW p \in Payments,
           NEW r \in Accs, NEW in, NEW c, NEW F \in SUBSET Unspent(p.from),
           Take(acc, r, p, in, c, F), RowOf(p, height + 1, in) \notin acc.rows
    PROVE  /\ IsFiniteSet(r.rows) /\ IsFiniteSet(ChangeRows(r.changes, Keys))
           /\ Balanced(r)
<1> DEFINE k == p.from
           new == RowOf(p, height + 1, in)
           gain == {t \in F : t.id \notin acc.used}
<1>1. k \in Keys /\ p.value \in Nat /\ new.from = k /\ new.value = p.value
    BY DEF Payments, RowOf
<1>2. /\ r.rows = acc.rows \cup {new} /\ r.used = acc.used \cup {t.id : t \in F}
      /\ r.changes = [acc.changes EXCEPT ![k] = c]
      /\ c \in [left : Nat, input : SUBSET Ids]
      /\ c.left + p.value = acc.changes[k].left + SumValues(gain)
    BY DEF Take, Takes
<1>3. acc.changes \in Changes /\ acc.changes[k].left \in Nat /\ acc.rows \in SUBSET Rows
      /\ r.changes \in Changes /\ r.rows \in SUBSET Rows /\ c.left \in Nat
    BY <1>1, <1>2, AccFields
<1>4. Valued(gain) /\ SumValues(gain) \in Nat
    <2>1. gain \in SUBSET ledger
        BY DEF Unspent
    <2> HIDE DEF gain
    <2>2. QED
        BY <2>1, LedgerValued, SumType
<1>5. new \notin acc.rows
    OBVIOUS
<1>6. Grows(acc.used, r.used, F, gain, k)
    BY <1>2 DEF Grows
<1> HIDE DEF k, new, gain
<1>7. IsFiniteSet(r.rows)
    BY <1>2, FS_AddElement
<1>8. IsFiniteSet(ChangeRows(r.changes, Keys))
    BY <1>1, <1>2, <1>3, ChangesFinite
<1>9. ASSUME NEW J \in SUBSET Keys
      PROVE  SumValues(UsedOf(r.used, J))
                = SumValues(RowsOf(r.rows, J)) + SumValues(ChangeRows(r.changes, J))
    <2>1. SumValues(UsedOf(acc.used, J))
              = SumValues(RowsOf(acc.rows, J)) + SumValues(ChangeRows(acc.changes, J))
        BY DEF Balanced
    <2>2. CASE k \notin J
        <3>1. UsedOf(r.used, J) = UsedOf(acc.used, J)
            BY <1>6, <2>2, UsedGrows
        <3>2. RowsOf(r.rows, J) = RowsOf(acc.rows, J)
            BY <1>1, <1>2, <2>2 DEF RowsOf
        <3>3. ChangeRows(r.changes, J) = ChangeRows(acc.changes, J)
            <4>1. ChangeRows([acc.changes EXCEPT ![k] = c], J) = ChangeRows(acc.changes, J)
                BY <1>1, <1>3, <2>2, OtherChanges
            <4>2. QED
                BY <1>2, <4>1, Zenon
        <3>4. QED
            BY <2>1, <3>1, <3>2, <3>3
    <2>3. CASE k \in J
        <3>1. UsedOf(r.used, J) = UsedOf(acc.used, J) \cup gain
              /\ UsedOf(acc.used, J) \cap gain = {}
            BY <1>6, <2>3, UsedGrows
        <3>2. Valued(UsedOf(acc.used, J))
            BY LedgerValued, UsedOf(acc.used, J) \in SUBSET ledger DEF UsedOf
        <3>3. SumValues(UsedOf(r.used, J)) = SumValues(UsedOf(acc.used, J)) + SumValues(gain)
            BY <1>4, <3>1, <3>2, SumUnion
        <3>4. RowsOf(r.rows, J) = RowsOf(acc.rows, J) \cup {new} /\ new \notin RowsOf(acc.rows, J)
            BY <1>1, <1>2, <1>5, <2>3 DEF RowsOf
        <3>5. Valued(RowsOf(acc.rows, J))
            BY <1>3, RowsValued, RowsOf(acc.rows, J) \in SUBSET acc.rows DEF RowsOf
        <3>6. SumValues(RowsOf(r.rows, J)) = SumValues(RowsOf(acc.rows, J)) + p.value
            <4>1. new.value \in Nat
                BY <1>1
            <4>2. QED
                BY <1>1, <3>4, <3>5, <4>1, SumAdd
        <3> DEFINE others == ChangeRows(acc.changes, J \ {k})
        <3>7. ChangeRows(r.changes, J \ {k}) = others
            <4>1. J \ {k} \in SUBSET Keys /\ k \notin J \ {k}
                OBVIOUS
            <4>2. QED
                <5>1. ChangeRows([acc.changes EXCEPT ![k] = c], J \ {k}) = others
                    BY <1>1, <1>3, <4>1, OtherChanges, SMTT(30)
                <5>2. QED
                    BY <1>2, <5>1, Zenon
        <3>8. r.changes[k].left = c.left
            BY <1>1, <1>2, <1>3 DEF Changes
        <3> HIDE DEF others
        <3>9. SumValues(ChangeRows(r.changes, J)) = SumValues(others) + c.left
            BY <1>3, <1>8, <2>3, <3>7, <3>8, ChangeOf
        <3>10. SumValues(ChangeRows(acc.changes, J)) = SumValues(others) + acc.changes[k].left
            BY <1>3, <2>3, ChangeOf DEF others
        <3>11. SumValues(others) \in Nat
            BY <1>3, ChangesValued, SumType, J \ {k} \in SUBSET Keys DEF others
        <3>12. SumValues(RowsOf(acc.rows, J)) \in Nat
            BY <3>5, SumType
        <3>13. SumValues(UsedOf(acc.used, J))
                  = SumValues(RowsOf(acc.rows, J)) + (SumValues(others) + acc.changes[k].left)
            BY <2>1, <3>10
        <3>14. SumValues(UsedOf(acc.used, J)) + SumValues(gain)
                  = (SumValues(RowsOf(acc.rows, J)) + p.value) + (SumValues(others) + c.left)
            BY <1>1, <1>2, <1>3, <1>4, <3>11, <3>12, <3>13, TakeSums
        <3>15. QED
            BY <3>3, <3>6, <3>9, <3>14
    <2>4. QED
        BY <2>2, <2>3
<1>10. QED
    BY <1>7, <1>8, <1>9 DEF Balanced

\* A payer without change has listed what it uses.
LEMMA TakeLists ==
    ASSUME NEW acc \in Accs, NEW p \in Payments, Listed(acc), NEW r, NEW in, NEW c, NEW F,
           Take(acc, r, p, in, c, F), RowOf(p, height + 1, in) \notin acc.rows
    PROVE  Listed(r)
<1> DEFINE new == RowOf(p, height + 1, in)
           out == {t.id : t \in F}
<1>1. p.from \in Keys /\ new.from = p.from /\ new.inputs = in
    BY DEF Payments, RowOf
<1>2. /\ r.rows = acc.rows \cup {new} /\ r.used = acc.used \cup out
      /\ r.changes = [acc.changes EXCEPT ![p.from] = c]
      /\ acc.changes[p.from].left > 0 \/ in = out
    BY DEF Take, Takes
<1>3. new \notin acc.rows
    OBVIOUS
<1> HIDE DEF new, out
<1>4. \A k \in Keys : r.changes[k].left > 0 => \E x \in r.rows : x.from = k
    <2> SUFFICES ASSUME NEW k \in Keys, r.changes[k].left > 0 PROVE \E x \in r.rows : x.from = k
        OBVIOUS
    <2>1. acc.changes \in Changes
        BY <1>1, AccFields
    <2>2. CASE k = p.from
        BY <1>1, <1>2, <2>2
    <2>3. CASE k # p.from
        <3>1. r.changes[k] = acc.changes[k]
            BY <1>1, <1>2, <2>1, <2>3 DEF Changes
        <3>2. QED
            BY <1>2, <3>1 DEF Listed
    <2>4. QED
        BY <2>2, <2>3
<1>5. ASSUME Single(r.rows)
      PROVE  r.used \subseteq UNION {x.inputs : x \in r.rows}
    <2>1. Single(acc.rows)
        BY <1>2, <1>5 DEF Single
    <2>2. acc.used \subseteq UNION {x.inputs : x \in acc.rows}
        BY <2>1 DEF Listed
    <2>3. ~ (acc.changes[p.from].left > 0)
        <3> SUFFICES ASSUME acc.changes[p.from].left > 0 PROVE FALSE
            OBVIOUS
        <3>1. PICK x \in acc.rows : x.from = p.from
            BY <1>1 DEF Listed
        <3>2. x = new
            BY <1>1, <1>2, <1>5, <3>1 DEF Single
        <3>3. QED
            BY <1>3, <3>2
    <2>4. QED
        BY <1>1, <1>2, <2>2, <2>3
<1>6. QED
    BY <1>4, <1>5 DEF Listed

\* A round that takes a payment keeps the books.
LEMMA BooksTake ==
    ASSUME TypeOK, Named, Queued, NEW i \in Nat, i + 1 <= Len(mempool), NEW acc, Books(acc, i),
           NEW r \in Accs, NEW in, NEW c, NEW F \in SUBSET Unspent(mempool[i + 1].from),
           Take(acc, r, mempool[i + 1], in, c, F), ~ Stored(mempool[i + 1].id)
    PROVE  Books(r, i + 1)
<1> DEFINE p == mempool[i + 1]
<1>1. p \in Payments
    BY DEF TypeOK
<1>2. /\ acc \in Accs /\ IsFiniteSet(acc.rows) /\ IsFiniteSet(ChangeRows(acc.changes, Keys))
      /\ Drawn(acc, i) /\ Spends(acc) /\ Balanced(acc) /\ Listed(acc)
    BY DEF Books
<1>3. r.rows = acc.rows \cup {RowOf(p, height + 1, in)}
    BY DEF Take, Takes
<1>4. Drawn(r, i + 1) /\ RowOf(p, height + 1, in) \notin acc.rows
    BY <1>2, <1>3, TakeDraws
<1> HIDE DEF p
<1>5. Take(acc, r, p, in, c, F) /\ F \in SUBSET Unspent(p.from)
    BY DEF p
<1>6. Spends(r)
    BY <1>1, <1>2, <1>5, TakeSpends
<1>7. IsFiniteSet(r.rows) /\ IsFiniteSet(ChangeRows(r.changes, Keys)) /\ Balanced(r)
    BY <1>1, <1>2, <1>4, <1>5, TakeBalances
<1>8. Listed(r)
    BY <1>1, <1>2, <1>4, <1>5, TakeLists
<1>9. QED
    BY <1>4, <1>6, <1>7, <1>8 DEF Books

-----------------------------------------------------------------------------
(* The loop keeps its books.                                               *)

\* They are kept before the first payment.
LEMMA StartBooks ==
    ASSUME TypeOK
    PROVE  Start \in Accs /\ Books(Start, 0) /\ Start.pool = <<>> /\ ~ Start.skip
<1> DEFINE none == [k \in Keys |-> [left |-> 0, input |-> {}]]
<1>1. Start = [rows |-> {}, used |-> {}, pool |-> <<>>, skip |-> FALSE, changes |-> none]
    BY DEF Start
<1>2. none \in Changes /\ \A k \in Keys : none[k].left = 0 /\ none[k].input = {}
    BY DEF Changes
<1> HIDE DEF none
<1>3. <<>> \in Seq(Payments) /\ FALSE \in BOOLEAN
    OBVIOUS
<1>4. Start \in Accs
    BY <1>1, <1>2, <1>3, Membership
<1>5. Start.rows = {} /\ Start.used = {} /\ Start.changes = none
    BY <1>1
<1>6. Start.pool = <<>> /\ ~ Start.skip
    BY <1>1
<1> HIDE DEF Start
<1>7. \A J \in SUBSET Keys : /\ UsedOf(Start.used, J) = {}
                             /\ RowsOf(Start.rows, J) = {}
                             /\ ChangeRows(Start.changes, J) = {}
    BY <1>2, <1>5 DEF UsedOf, RowsOf, ChangeRows
<1>8. Balanced(Start)
    BY <1>7, SumEmpty DEF Balanced
<1>9. IsFiniteSet(Start.rows) /\ IsFiniteSet(ChangeRows(Start.changes, Keys))
    BY <1>5, <1>7, FS_EmptySet
<1>10. Drawn(Start, 0) /\ Spends(Start) /\ Listed(Start)
    BY <1>2, <1>5 DEF Drawn, Spends, Listed
<1>11. QED
    BY <1>4, <1>6, <1>8, <1>9, <1>10 DEF Books

\* A round that only passes a payment keeps them.
LEMMA BooksPass ==
    ASSUME NEW i \in Nat, NEW acc, Books(acc, i), NEW r \in Accs, Passes(acc, r)
    PROVE  Books(r, i + 1)
<1>1. \A j \in 1 .. i : j \in 1 .. i + 1
    OBVIOUS
<1>2. r.rows = acc.rows /\ r.used = acc.used /\ r.changes = acc.changes
    BY DEF Passes
<1>3. Drawn(r, i + 1)
    <2>1. Drawn(acc, i)
        BY DEF Books
    <2>2. QED
        BY <1>1, <1>2, <2>1 DEF Drawn
<1>4. Spends(r) /\ Balanced(r) /\ Listed(r)
    BY <1>2 DEF Books, Spends, Balanced, Listed
<1>5. QED
    BY <1>2, <1>3, <1>4 DEF Books

\* What is taken for payment p: outputs F of its sender, all of them when
\* they do not suffice.
FromOutputs(F, acc, p, tk) ==
    /\ tk.sum \in Nat /\ tk.sum = SumValues({t \in F : t.id \notin acc.used})
    /\ p.value - acc.changes[p.from].left \in Nat /\ tk.sum < p.value - acc.changes[p.from].left
       => F = Unspent(p.from)
    /\ ~ (tk.sum < p.value - acc.changes[p.from].left) => tk.input = {t.id : t \in F}

\* Such outputs exist.
LEMMA TakenForFacts ==
    ASSUME TypeOK, Named, NEW acc, NEW p
    PROVE  \E F \in SUBSET Unspent(p.from) : FromOutputs(F, acc, p, TakenFor(acc, p))
<1> DEFINE v == p.value - acc.changes[p.from].left
           tk == Taken(Unspent(p.from), acc.used, v)
           From(F) ==
               /\ tk.sum \in Nat /\ tk.sum = SumValues({t \in F : t.id \notin acc.used})
               /\ v \in Nat /\ tk.sum < v => F = Unspent(p.from)
               /\ ~ (tk.sum < v) => tk.input = {t.id : t \in F}
               /\ tk.input \subseteq {t.id : t \in F}
<1>1. PICK F \in SUBSET Unspent(p.from) : From(F)
    <2> HIDE DEF v
    <2>1. QED
        BY TakenFacts, Zenon
<1>2. TakenFor(acc, p) = tk
    BY DEF TakenFor
<1> HIDE DEF tk
<1>3. FromOutputs(F, acc, p, tk)
    BY <1>1 DEF FromOutputs
<1>4. QED
    BY <1>2, <1>3

\* The arithmetic of what is left.
LEMMA RestOf ==
    ASSUME NEW left \in Nat, NEW sum \in Nat, NEW value \in Nat, left + sum >= value
    PROVE  ~ (sum < value - left) /\ left + sum - value + value = left + sum
OBVIOUS

\* Every round keeps the books.
LEMMA BooksStep ==
    ASSUME TypeOK, Named, Queued, NEW i \in Nat, i + 1 <= Len(mempool), NEW acc, Books(acc, i)
    PROVE  Books(Consider(acc, mempool[i + 1]), i + 1)
<1> DEFINE p == mempool[i + 1]
           r == Consider(acc, p)
           left == acc.changes[p.from].left
           taken == TakenFor(acc, p)
<1>1. p \in Payments /\ acc \in Accs
    BY DEF TypeOK, Books
<1>2. r \in Accs /\ RoundOf(acc, p, r)
    BY <1>1, ConsiderRound
<1>3. p.from \in Keys /\ p.value \in Nat /\ p.value > 0
    BY <1>1 DEF Payments
<1>4. left \in Nat /\ acc.changes[p.from].input \subseteq acc.used
    BY <1>1, <1>3, AccFields DEF Books, Spends
<1>5. ASSUME NEW in, NEW c, NEW F \in SUBSET Unspent(p.from), Take(acc, r, p, in, c, F),
             ~ Stored(p.id)
      PROVE  Books(r, i + 1)
    <2> HIDE DEF r
    <2>1. QED
        BY <1>2, <1>5, BooksTake
<1>6. Passes(acc, r) => Books(r, i + 1)
    BY <1>2, BooksPass
<1> SUFFICES Books(r, i + 1)
    OBVIOUS
<1> HIDE DEF r, p
<1>7. CASE Passes(acc, r)
    BY <1>7, <1>6
<1>8. CASE /\ ~ Stored(p.id)
           /\ left >= p.value
           /\ \E c \in [left : Nat, input : SUBSET Ids] :
                  /\ c.left = left - p.value
                  /\ c.input \subseteq acc.changes[p.from].input
                  /\ Takes(acc, r, p, acc.changes[p.from].input, c, {})
    <2> DEFINE in == acc.changes[p.from].input
    <2>1. PICK c \in [left : Nat, input : SUBSET Ids] :
              /\ c.left = left - p.value
              /\ c.input \subseteq in
              /\ Takes(acc, r, p, in, c, {})
        BY <1>8
    <2>2. {t.id : t \in {}} = {} /\ {t \in {} : t.id \notin acc.used} = {}
        OBVIOUS
    <2>3. c.left + p.value = left + 0 /\ left > 0
        BY <1>3, <1>4, <1>8, <2>1
    <2>4. c.left + p.value = left + SumValues({t \in {} : t.id \notin acc.used})
        BY <2>2, <2>3, SumEmpty, Zenon
    <2>5. Takes(acc, r, p, in, c, {t.id : t \in {}})
        BY <2>1, <2>2, Zenon
    <2>6. in \subseteq acc.used \cup {t.id : t \in {}} /\ c.input \subseteq acc.used \cup {t.id : t \in {}}
        BY <1>4, <2>1, <2>2
    <2> HIDE DEF in
    <2>7. Take(acc, r, p, in, c, {})
        BY <2>1, <2>3, <2>4, <2>5, <2>6 DEF Take
    <2>8. QED
        BY <1>5, <1>8, <2>7, {} \in SUBSET Unspent(p.from)
<1>9. CASE /\ ~ Stored(p.id)
           /\ left < p.value
           /\ left + taken.sum >= p.value
           /\ \E c \in [left : Nat, input : SUBSET Ids] :
                  /\ c.left = left + taken.sum - p.value
                  /\ c.input \subseteq taken.input
                  /\ Takes(acc, r, p,
                           IF left > 0 THEN acc.changes[p.from].input ELSE taken.input,
                           c, taken.input)
    <2> DEFINE in == IF left > 0 THEN acc.changes[p.from].input ELSE taken.input
    <2>1. PICK c \in [left : Nat, input : SUBSET Ids] :
              /\ c.left = left + taken.sum - p.value
              /\ c.input \subseteq taken.input
              /\ Takes(acc, r, p, in, c, taken.input)
        BY <1>9
    <2>2. PICK F \in SUBSET Unspent(p.from) : FromOutputs(F, acc, p, taken)
        BY TakenForFacts
    <2> HIDE DEF taken
    <2>3. /\ taken.sum \in Nat /\ taken.sum = SumValues({t \in F : t.id \notin acc.used})
          /\ ~ (taken.sum < p.value - left) => taken.input = {t.id : t \in F}
        BY <2>2 DEF FromOutputs
    <2>4. ~ (taken.sum < p.value - left) /\ c.left + p.value = left + taken.sum
        <3>1. taken.sum \in Nat /\ left + taken.sum >= p.value /\ c.left = left + taken.sum - p.value
            BY <1>9, <2>1, <2>3 DEF taken
        <3> HIDE DEF left
        <3>2. QED
            BY <1>3, <1>4, <3>1, RestOf
    <2>5. taken.input = {t.id : t \in F}
        BY <2>3, <2>4
    <2>6. left > 0 \/ in = {t.id : t \in F}
        BY <2>5
    <2>7. /\ in \subseteq acc.used \cup {t.id : t \in F}
          /\ c.input \subseteq acc.used \cup {t.id : t \in F}
        BY <1>4, <2>1, <2>5
    <2>8. c.left + p.value = left + SumValues({t \in F : t.id \notin acc.used})
        BY <2>3, <2>4, Zenon
    <2>9. Takes(acc, r, p, in, c, {t.id : t \in F})
        BY <2>1, <2>5, Zenon
    <2> HIDE DEF in
    <2>10. Take(acc, r, p, in, c, F)
        BY <2>1, <2>6, <2>7, <2>8, <2>9 DEF Take
    <2>11. QED
        BY <1>5, <1>9, <2>10
<1>10. QED
    BY <1>2, <1>7, <1>8, <1>9 DEF RoundOf

-----------------------------------------------------------------------------
(* What the pool keeps.                                                    *)

KeptPool(acc, i) ==
    /\ \A x \in 1 .. Len(acc.pool) : \E j \in 1 .. i : acc.pool[x] = mempool[j]
    /\ Distinct(acc.pool)
    /\ \A j \in 1 .. i :
           \/ Stored(mempool[j].id)
           \/ \E x \in 1 .. Len(acc.pool) : acc.pool[x] = mempool[j]
           \/ Balance(mempool[j].from) < SumValues(Waiting(mempool[j].from, j))

AsPayment(r) == [id |-> r.id, from |-> r.from, to |-> r.to, value |-> r.value]

\* The row of a payment names the payment.
LEMMA PaymentOfRow ==
    ASSUME NEW p \in Payments, NEW b, NEW in
    PROVE  AsPayment(RowOf(p, b, in)) = p
<1>1. p = [id |-> p.id, from |-> p.from, to |-> p.to, value |-> p.value]
    BY DEF Payments
<1>2. QED
    BY <1>1 DEF AsPayment, RowOf

\* The payments that wait have values.
LEMMA WaitingValued ==
    ASSUME TypeOK, NEW k, NEW j \in Nat, j <= Len(mempool)
    PROVE  Valued(Waiting(k, j))
<1> DEFINE S == {n \in 1 .. j : mempool[n].from = k /\ ~ Stored(mempool[n].id)}
<1>1. IsFiniteSet(S)
    <2>1. IsFiniteSet(1 .. j)
        BY FS_Interval
    <2>2. S \in SUBSET (1 .. j)
        OBVIOUS
    <2> HIDE DEF S
    <2>3. QED
        BY <2>1, <2>2, FS_Subset
<1>2. \A n \in S : mempool[n] \in Payments
    BY DEF TypeOK
<1>3. Waiting(k, j) = {mempool[n] : n \in S}
    BY Zenon DEF Waiting
<1> HIDE DEF S
<1>4. \A p \in Waiting(k, j) : p.value \in Nat
    BY <1>2, <1>3 DEF Payments
<1>5. IsFiniteSet(Waiting(k, j))
    <2> DEFINE f == [n \in S |-> mempool[n]]
               R == {f[n] : n \in S}
    <2>1. f \in Surjection(S, R)
        BY DEF Surjection
    <2>2. R = {mempool[n] : n \in S}
        OBVIOUS
    <2> HIDE DEF f, R
    <2>3. IsFiniteSet(R)
        BY <1>1, <2>1, FS_Surjection
    <2>4. QED
        BY <1>3, <2>2, <2>3
<1>6. QED
    BY <1>4, <1>5 DEF Valued

\* The rows of a payer and its next payment are payments that wait.
LEMMA RowsWait ==
    ASSUME TypeOK, Queued, NEW i \in Nat, i + 1 <= Len(mempool), NEW acc, Books(acc, i),
           ~ Stored(mempool[i + 1].id)
    PROVE  /\ SumValues(RowsOf(acc.rows, {mempool[i + 1].from})) \in Nat
           /\ SumValues(Waiting(mempool[i + 1].from, i + 1)) \in Nat
           /\ SumValues(RowsOf(acc.rows, {mempool[i + 1].from})) + mempool[i + 1].value
                 <= SumValues(Waiting(mempool[i + 1].from, i + 1))
<1> DEFINE p == mempool[i + 1]
           k == p.from
           R == RowsOf(acc.rows, {k})
           W == Waiting(k, i + 1)
           f == [r \in R |-> AsPayment(r)]
           I == {f[r] : r \in R}
<1>1. p \in Payments /\ i + 1 \in 1 .. i + 1 /\ i + 1 \in Nat
    BY DEF TypeOK
<1>2. /\ acc \in Accs /\ IsFiniteSet(acc.rows)
      /\ \A r \in acc.rows : ~ Stored(r.id) /\ \E j \in 1 .. i : r = RowOf(mempool[j], height + 1, r.inputs)
      /\ \A r, s \in acc.rows : r.id = s.id => r = s
    BY DEF Books, Drawn
<1>3. Valued(R)
    <2>1. R \in SUBSET acc.rows
        BY DEF RowsOf
    <2> HIDE DEF R
    <2>2. acc.rows \in SUBSET Rows
        BY <1>1, <1>2, AccFields DEF Payments
    <2>3. QED
        BY <1>2, <2>1, <2>2, RowsValued
<1>4. \A r \in R : f[r].value = r.value /\ f[r].id = r.id
    BY DEF AsPayment
<1>5. \A x, y \in R : f[x] = f[y] => x = y
    <2> SUFFICES ASSUME NEW x \in R, NEW y \in R, f[x] = f[y] PROVE x = y
        OBVIOUS
    <2>1. f[x].id = f[y].id
        OBVIOUS
    <2> HIDE DEF f
    <2>2. x.id = y.id
        BY <1>4, <2>1
    <2>3. QED
        BY <1>2, <2>2 DEF RowsOf
<1>6. ASSUME NEW r \in R PROVE f[r] \in W /\ f[r] # p
    <2>1. PICK j \in 1 .. i : r = RowOf(mempool[j], height + 1, r.inputs)
        BY <1>2 DEF RowsOf
    <2>2. j \in 1 .. Len(mempool) /\ mempool[j] \in Payments /\ j \in 1 .. i + 1 /\ j # i + 1
          /\ i + 1 \in 1 .. Len(mempool)
        BY DEF TypeOK
    <2>3. AsPayment(RowOf(mempool[j], height + 1, r.inputs)) = mempool[j]
        BY <2>2, PaymentOfRow
    <2>4. f[r] = mempool[j]
        BY <2>1, <2>3
    <2>5. mempool[j].from = k /\ mempool[j].id = r.id
        BY <2>1 DEF RowsOf, RowOf
    <2>6. ~ Stored(mempool[j].id)
        BY <1>2, <2>5 DEF RowsOf
    <2> HIDE DEF f, R, k
    <2>7. mempool[j] \in W
        BY <2>2, <2>5, <2>6 DEF Waiting
    <2>8. mempool[j] # p
        BY <2>2 DEF Queued, Distinct
    <2>9. QED
        BY <2>4, <2>7, <2>8
<1>7. p \in W
    BY <1>1 DEF Waiting
<1> HIDE DEF f, R
<1>8. Valued(I) /\ SumValues(I) = SumValues(R)
    BY <1>3, <1>4, <1>5, SumImage
<1>9. I \cup {p} \in SUBSET W /\ p \notin I
    BY <1>6, <1>7
<1> HIDE DEF I
<1>10. Valued(W)
    BY <1>1, WaitingValued
<1>11. p.value \in Nat
    BY <1>1 DEF Payments
<1>12. SumValues(I \cup {p}) = SumValues(I) + p.value
    BY <1>8, <1>9, <1>11, SumAdd
<1> HIDE DEF W, p
<1>13. SumValues(I \cup {p}) <= SumValues(W) /\ SumValues(W) \in Nat
    BY <1>9, <1>10, SumSplit, SumType
<1>14. SumValues(R) \in Nat
    BY <1>3, SumType
<1>15. SumValues(R) + p.value <= SumValues(W)
    BY <1>8, <1>12, <1>13
<1>16. QED
    BY <1>13, <1>14, <1>15 DEF R, W, p, k

\* The arithmetic of a balance.
LEMMA ShareOf ==
    ASSUME NEW rows \in Nat, NEW left \in Nat, NEW others, others = 0, NEW changes,
           changes = others + left, NEW used, used = rows + changes,
           NEW sum \in Nat, NEW all, all = used + sum
    PROVE  all = rows + (left + sum)
OBVIOUS

\* Of a key's balance, what its rows pay, the money left and what is not used.
LEMMA BalanceOf ==
    ASSUME TypeOK, Named, UnspentIsBalance, NEW i \in Nat, NEW acc, Books(acc, i), NEW k \in Keys
    PROVE  /\ Balance(k) = SumValues(RowsOf(acc.rows, {k}))
                           + (acc.changes[k].left
                              + SumValues({t \in Unspent(k) : t.id \notin acc.used}))
           /\ SumValues(RowsOf(acc.rows, {k})) \in Nat
           /\ SumValues({t \in Unspent(k) : t.id \notin acc.used}) \in Nat
<1> DEFINE U == UsedOf(acc.used, {k})
           G == {t \in Unspent(k) : t.id \notin acc.used}
           R == RowsOf(acc.rows, {k})
           C == ChangeRows(acc.changes, {k})
<1>1. /\ acc \in Accs /\ IsFiniteSet(acc.rows) /\ IsFiniteSet(ChangeRows(acc.changes, Keys))
      /\ acc.used \subseteq {t.id : t \in {o \in ledger : o.to \in Keys /\ o.id \notin Spent}}
      /\ \A J \in SUBSET Keys : SumValues(UsedOf(acc.used, J))
             = SumValues(RowsOf(acc.rows, J)) + SumValues(ChangeRows(acc.changes, J))
    BY DEF Books, Spends, Balanced
<1>2. acc.rows \in SUBSET Rows /\ acc.changes \in Changes /\ acc.changes[k].left \in Nat
    BY <1>1, AccFields
<1>3. \A t \in U : t \in Unspent(k)
    <2> SUFFICES ASSUME NEW t \in U PROVE t \in Unspent(k)
        OBVIOUS
    <2>1. t \in ledger /\ t.to = k /\ t.id \in acc.used
        BY DEF UsedOf
    <2>2. PICK o \in ledger : o.id \notin Spent /\ t.id = o.id
        BY <1>1, <2>1
    <2>3. QED
        BY <2>1, <2>2 DEF Unspent
<1>4. U \cup G = Unspent(k) /\ U \cap G = {}
    <2>1. \A t \in Unspent(k) : t \in U \/ t \in G
        BY DEF UsedOf, Unspent
    <2>2. \A t \in G : t \notin U
        BY DEF UsedOf
    <2> HIDE DEF U
    <2>3. QED
        BY <1>3, <2>1, <2>2
<1>5. Unspent(k) = {t \in ledger : t.to = k /\ t.id \notin Spent}
    BY DEF Unspent
<1>6. SumValues(Unspent(k)) = Balance(k)
    BY <1>5, Zenon DEF UnspentIsBalance
<1>7. U \in SUBSET ledger /\ G \in SUBSET ledger
    BY DEF UsedOf, Unspent
<1>8. R \in SUBSET acc.rows
    BY DEF RowsOf
<1> HIDE DEF U, G, R
<1>9. Valued(U) /\ Valued(G) /\ Valued(R)
    BY <1>1, <1>2, <1>7, <1>8, LedgerValued, RowsValued
<1>10. SumValues(Unspent(k)) = SumValues(U) + SumValues(G)
    BY <1>4, <1>9, SumUnion
<1>11. SumValues(U) = SumValues(R) + SumValues(C)
    BY <1>1, {k} \in SUBSET Keys DEF U, R
<1>12. SumValues(C) = SumValues(ChangeRows(acc.changes, {k} \ {k})) + acc.changes[k].left
    BY <1>1, <1>2, {k} \in SUBSET Keys, k \in {k}, ChangeOf
<1>13. SumValues(ChangeRows(acc.changes, {k} \ {k})) = 0
    BY SumEmpty, ChangeRows(acc.changes, {k} \ {k}) = {} DEF ChangeRows
<1>14. SumValues(G) \in Nat /\ SumValues(R) \in Nat
    BY <1>9, SumType
<1> HIDE DEF C
<1>15. Balance(k) = SumValues(R) + (acc.changes[k].left + SumValues(G))
    <2> DEFINE rows == SumValues(R)
               left == acc.changes[k].left
               others == SumValues(ChangeRows(acc.changes, {k} \ {k}))
               changes == SumValues(C)
               used == SumValues(U)
               sum == SumValues(G)
               all == SumValues(Unspent(k))
    <2>1. /\ rows \in Nat /\ left \in Nat /\ sum \in Nat /\ others = 0 /\ changes = others + left
          /\ used = rows + changes /\ all = used + sum /\ Balance(k) = all
        BY <1>2, <1>6, <1>10, <1>11, <1>12, <1>13, <1>14, Zenon
    <2> HIDE DEF rows, left, others, changes, used, sum, all
    <2>2. all = rows + (left + sum)
        BY <2>1, ShareOf
    <2>3. QED
        BY <2>1, <2>2, Zenon DEF rows, left, sum
<1>16. QED
    BY <1>14, <1>15 DEF R, G

\* The arithmetic of a payment that is not covered.
LEMMA Uncovered ==
    ASSUME NEW balance, NEW rows \in Nat, NEW left \in Nat, NEW sum \in Nat, NEW value \in Nat,
           balance = rows + (left + sum), left + sum < value,
           NEW waiting \in Nat, rows + value <= waiting
    PROVE  balance < waiting
OBVIOUS

\* A payment is rejected only when its payer cannot cover it after those before it.
LEMMA Rejected ==
    ASSUME TypeOK, Named, Queued, UnspentIsBalance, NEW i \in Nat, i + 1 <= Len(mempool),
           NEW acc, Books(acc, i), NEW p, p = mempool[i + 1], ~ Stored(p.id),
           acc.changes[p.from].left < p.value,
           acc.changes[p.from].left + TakenFor(acc, p).sum < p.value
    PROVE  Balance(p.from) < SumValues(Waiting(p.from, i + 1))
<1> DEFINE k == p.from
           left == acc.changes[k].left
           tk == TakenFor(acc, p)
<1>1. p \in Payments /\ k \in Keys /\ p.value \in Nat /\ acc \in Accs
    <2>1. i + 1 \in 1 .. Len(mempool) /\ mempool \in Seq(Payments)
        BY DEF TypeOK
    <2>2. p \in Payments
        BY <2>1
    <2>3. QED
        BY <2>2 DEF Payments, Books
<1>2. left \in Nat
    BY <1>1, AccFields
<1>3. PICK F \in SUBSET Unspent(k) : FromOutputs(F, acc, p, tk)
    BY TakenForFacts
<1>4. tk.sum \in Nat /\ tk.sum = SumValues({t \in F : t.id \notin acc.used})
    BY <1>3 DEF FromOutputs
<1>5. left < p.value /\ left + tk.sum < p.value
    OBVIOUS
<1> HIDE DEF tk
<1>6. p.value - left \in Nat /\ tk.sum < p.value - left
    BY <1>1, <1>2, <1>4, <1>5, SMTT(30)
<1>7. F = Unspent(k)
    BY <1>3, <1>6 DEF FromOutputs
<1>8. tk.sum = SumValues({t \in Unspent(k) : t.id \notin acc.used})
    BY <1>4, <1>7, Zenon
<1> DEFINE rows == SumValues(RowsOf(acc.rows, {k}))
           waiting == SumValues(Waiting(k, i + 1))
<1>9. rows \in Nat /\ waiting \in Nat /\ rows + p.value <= waiting
    BY RowsWait
<1>10. Balance(k) = rows + (left + SumValues({t \in Unspent(k) : t.id \notin acc.used}))
    BY <1>1, BalanceOf
<1>11. Balance(k) = rows + (left + tk.sum)
    BY <1>8, <1>10, Zenon
<1> HIDE DEF left, rows, waiting
<1>12. Balance(k) < waiting
    BY <1>1, <1>2, <1>4, <1>5, <1>9, <1>11, Uncovered
<1>13. QED
    BY <1>12 DEF waiting, k

\* The payment that is considered enters the pool.
LEMMA PoolGrows ==
    ASSUME TypeOK, Queued, NEW i \in Nat, i + 1 <= Len(mempool), NEW acc \in Accs,
           KeptPool(acc, i), NEW r, r.pool = Append(acc.pool, mempool[i + 1])
    PROVE  KeptPool(r, i + 1)
<1> DEFINE p == mempool[i + 1]
           q == acc.pool
           s == r.pool
<1>1. i + 1 \in 1 .. Len(mempool) /\ \A j \in 1 .. i + 1 : j \in 1 .. i \/ j = i + 1
    OBVIOUS
<1>2. \A j \in 1 .. i : j \in 1 .. i + 1 /\ j \in 1 .. Len(mempool) /\ j # i + 1
    BY DEF TypeOK
<1>3. p \in Payments /\ q \in Seq(Payments)
    BY <1>1 DEF TypeOK, Accs
<1>4. s = Append(q, p)
    OBVIOUS
<1>5. /\ \A x \in 1 .. Len(q) : \E j \in 1 .. i : q[x] = mempool[j]
      /\ Distinct(q)
      /\ \A j \in 1 .. i : \/ Stored(mempool[j].id)
                           \/ \E x \in 1 .. Len(q) : q[x] = mempool[j]
                           \/ Balance(mempool[j].from) < SumValues(Waiting(mempool[j].from, j))
    BY DEF KeptPool
<1> HIDE DEF q, s
<1>6. PICK l \in Nat : l = Len(q)
    BY <1>3
<1>7. Len(s) = l + 1 /\ s[l + 1] = p /\ \A x \in 1 .. l : s[x] = q[x]
    BY <1>3, <1>4, <1>6
<1>8. /\ \A x \in 1 .. Len(s) : x \in 1 .. l \/ x = l + 1
      /\ \A x \in 1 .. l : x \in 1 .. Len(s)
      /\ l + 1 \in 1 .. Len(s)
    BY <1>6, <1>7
<1>9. \A x \in 1 .. Len(s) : \E j \in 1 .. i + 1 : s[x] = mempool[j]
    <2> SUFFICES ASSUME NEW x \in 1 .. Len(s) PROVE \E j \in 1 .. i + 1 : s[x] = mempool[j]
        OBVIOUS
    <2>1. CASE x \in 1 .. l
        BY <1>2, <1>5, <1>6, <1>7, <2>1
    <2>2. CASE x = l + 1
        BY <1>7, <2>2, i + 1 \in 1 .. i + 1
    <2>3. QED
        BY <1>8, <2>1, <2>2
<1>10. Distinct(s)
    <2>1. \A x \in 1 .. l : s[x].id # p.id
        BY <1>1, <1>2, <1>5, <1>6, <1>7 DEF Queued, Distinct
    <2>2. \A x, y \in 1 .. l : s[x].id = s[y].id => x = y
        BY <1>5, <1>6, <1>7 DEF Distinct
    <2>3. QED
        BY <1>7, <1>8, <2>1, <2>2 DEF Distinct
<1>11. \A j \in 1 .. i + 1 :
           \/ Stored(mempool[j].id)
           \/ \E x \in 1 .. Len(s) : s[x] = mempool[j]
           \/ Balance(mempool[j].from) < SumValues(Waiting(mempool[j].from, j))
    <2>1. \E x \in 1 .. Len(s) : s[x] = mempool[i + 1]
        BY <1>7, <1>8
    <2>2. ASSUME NEW j \in 1 .. i, NEW x \in 1 .. Len(q), q[x] = mempool[j]
          PROVE  \E y \in 1 .. Len(s) : s[y] = mempool[j]
        BY <1>6, <1>7, <1>8, <2>2
    <2>3. QED
        BY <1>1, <1>5, <2>1, <2>2
<1>12. QED
    BY <1>9, <1>10, <1>11 DEF KeptPool, s

\* It does not enter the pool.
LEMMA PoolStays ==
    ASSUME NEW i \in Nat, i + 1 <= Len(mempool), NEW acc, KeptPool(acc, i),
           NEW r, r.pool = acc.pool,
           \/ Stored(mempool[i + 1].id)
           \/ Balance(mempool[i + 1].from) < SumValues(Waiting(mempool[i + 1].from, i + 1))
    PROVE  KeptPool(r, i + 1)
<1>1. \A j \in 1 .. i + 1 : j \in 1 .. i \/ j = i + 1
    OBVIOUS
<1>2. \A j \in 1 .. i : j \in 1 .. i + 1
    OBVIOUS
<1>3. QED
    BY <1>1, <1>2 DEF KeptPool

\* Every round keeps what the pool must.
LEMMA PoolStep ==
    ASSUME TypeOK, Named, Queued, UnspentIsBalance, NEW i \in Nat, i + 1 <= Len(mempool),
           NEW acc, Books(acc, i), KeptPool(acc, i)
    PROVE  KeptPool(Consider(acc, mempool[i + 1]), i + 1)
<1> DEFINE p == mempool[i + 1]
           r == Consider(acc, p)
<1>1. p \in Payments /\ acc \in Accs
    <2>1. i + 1 \in 1 .. Len(mempool) /\ mempool \in Seq(Payments)
        BY DEF TypeOK
    <2>2. QED
        BY <2>1 DEF Books
<1>2. RoundOf(acc, p, r)
    BY <1>1, ConsiderRound
<1> SUFFICES KeptPool(r, i + 1)
    OBVIOUS
<1>3. p = mempool[i + 1]
    OBVIOUS
<1> HIDE DEF r, p
<1>4. CASE r.pool = Append(acc.pool, p)
    BY <1>1, <1>3, <1>4, PoolGrows
<1>5. CASE r.pool = acc.pool /\ Stored(p.id)
    BY <1>3, <1>5, PoolStays
<1>6. CASE /\ r.pool = acc.pool /\ ~ Stored(p.id)
           /\ acc.changes[p.from].left + TakenFor(acc, p).sum < p.value
           /\ acc.changes[p.from].left < p.value
    <2>1. Balance(p.from) < SumValues(Waiting(p.from, i + 1))
        BY <1>3, <1>6, Rejected
    <2>2. QED
        BY <1>3, <1>6, <2>1, PoolStays
<1>7. QED
    BY <1>2, <1>4, <1>5, <1>6 DEF RoundOf, Takes

\* What putTxInBlock returns.
LEMMA LoopKeeps ==
    ASSUME LedgerInv
    PROVE  Books(PutTxInBlock, Len(mempool)) /\ KeptPool(PutTxInBlock, Len(mempool))
<1>1. TypeOK /\ Named /\ Queued /\ UnspentIsBalance
    BY DEF LedgerInv
<1>2. Start \in Accs /\ Books(Start, 0) /\ Start.pool = <<>>
    BY <1>1, StartBooks
<1>3. PICK h : Rounds(h)
    <2>1. \A acc \in Accs, p \in Payments : Consider(acc, p) \in Accs
        BY <1>1, ConsiderRound
    <2>2. QED
        BY <1>1, <1>2, <2>1, RoundsExist DEF TypeOK
<1>4. PICK n \in Nat : n = Len(mempool)
    BY <1>1 DEF TypeOK
<1> DEFINE T == {i \in Nat : i <= n => Books(h[i], i) /\ KeptPool(h[i], i)}
<1>5. 0 \in T
    <2>1. h[0] = Start
        BY <1>3 DEF Rounds
    <2>2. KeptPool(Start, 0)
        BY <1>2 DEF KeptPool, Distinct
    <2>3. QED
        BY <1>2, <2>1, <2>2
<1>6. ASSUME NEW i \in T PROVE i + 1 \in T
    <2> SUFFICES ASSUME i + 1 <= n PROVE Books(h[i + 1], i + 1) /\ KeptPool(h[i + 1], i + 1)
        OBVIOUS
    <2>1. i \in Nat /\ i + 1 \in 1 .. n /\ (i + 1) - 1 = i /\ Books(h[i], i) /\ KeptPool(h[i], i)
        OBVIOUS
    <2>2. h[i + 1] = Consider(h[i], mempool[i + 1])
        BY <1>3, <1>4, <2>1 DEF Rounds
    <2> HIDE DEF T
    <2>3. Books(Consider(h[i], mempool[i + 1]), i + 1)
        BY <1>1, <1>4, <2>1, BooksStep
    <2>4. KeptPool(Consider(h[i], mempool[i + 1]), i + 1)
        BY <1>1, <1>4, <2>1, PoolStep
    <2>5. QED
        BY <2>2, <2>3, <2>4
<1>7. T = Nat
    <2> HIDE DEF T
    <2>1. T \subseteq Nat
        BY DEF T
    <2>2. QED
        BY <1>5, <1>6, <2>1, InductiveSet
<1>8. Books(h[n], n) /\ KeptPool(h[n], n)
    BY <1>7
<1>9. PutTxInBlock = h[n]
    BY <1>3, <1>4 DEF Rounds
<1>10. QED
    BY <1>4, <1>8, <1>9

-----------------------------------------------------------------------------
(* The block that is built.                                                *)

RewardRow(m) ==
    [id |-> OwnId(height + 1, Nobody), block |-> height + 1, from |-> Nobody, to |-> m,
     value |-> Reward, inputs |-> {}]

\* A row for a payment, and one of the block's own.
ForPayment(acc, r) ==
    /\ r \in Rows /\ r.block = height + 1 /\ r.id \in Paid /\ r.from \in Keys /\ r.to \in Keys
    /\ r.inputs \subseteq acc.used /\ ~ Stored(r.id)
OfBlock(acc, r) ==
    /\ r \in Rows /\ r.block = height + 1 /\ r.id = OwnId(height + 1, r.from)
    /\ r.inputs \subseteq acc.used /\ r.from \in Someone

\* The hashes of payments and of the rows of blocks differ.
LEMMA IdsApart ==
    /\ \A n, b, k : PaymentId(n) # OwnId(b, k)
    /\ \A b, k, c, l : OwnId(b, k) = OwnId(c, l) => b = c /\ k = l
<1>1. \A n, b, k : PaymentId(n) # OwnId(b, k)
    <2> SUFFICES ASSUME NEW n, NEW b, NEW k, <<n>> = <<b, k>> PROVE FALSE
        BY DEF PaymentId, OwnId
    <2>1. Len(<<n>>) = 1 /\ Len(<<b, k>>) = 2
        OBVIOUS
    <2>2. QED
        BY <2>1
<1>2. \A b, k, c, l : OwnId(b, k) = OwnId(c, l) => b = c /\ k = l
    BY DEF OwnId
<1>3. QED
    BY <1>1, <1>2

\* A block is its payments, its change and its reward.
LEMMA BlockParts ==
    ASSUME NEW acc, NEW m
    PROVE  BlockOf(acc, m) = acc.rows \cup ChangeRows(acc.changes, Keys) \cup {RewardRow(m)}
BY Zenon DEF BlockOf, ChangeRows, ChangeRow, RewardRow

\* The rows of the loop are payments.
LEMMA PaymentRows ==
    ASSUME TypeOK, Queued, NEW acc, Books(acc, Len(mempool)), NEW r \in acc.rows
    PROVE  ForPayment(acc, r)
<1>1. ~ Stored(r.id) /\ r.inputs \subseteq acc.used
    BY DEF Books, Drawn, Spends
<1>2. PICK j \in 1 .. Len(mempool) : r = RowOf(mempool[j], height + 1, r.inputs)
    BY DEF Books, Drawn
<1>3. mempool[j] \in Payments /\ mempool[j].id \in Paid
    BY DEF TypeOK, Queued
<1>4. r.block = height + 1 /\ r.id = mempool[j].id /\ r.from = mempool[j].from /\ r.to = mempool[j].to
    BY <1>2 DEF RowOf
<1>5. r \in Rows
    BY DEF Books, Accs
<1>6. QED
    BY <1>1, <1>3, <1>4, <1>5 DEF ForPayment, Payments

\* The change and the reward are rows of the block.
LEMMA OwnRows ==
    ASSUME TypeOK, NEW acc, Books(acc, Len(mempool)), NEW m \in Keys
    PROVE  /\ \A r \in ChangeRows(acc.changes, Keys) :
                  OfBlock(acc, r) /\ r.from \in Keys /\ r.to = r.from
           /\ OfBlock(acc, RewardRow(m))
<1>1. height \in Nat /\ height + 1 \in Nat
    BY DEF TypeOK
<1>2. ASSUME NEW k \in Keys, acc.changes[k].left > 0
      PROVE  OfBlock(acc, ChangeRow(acc.changes, k))
    <2>1. acc.changes[k].left \in Nat \ {0} /\ acc.changes[k].input \in SUBSET Ids
        BY <1>2, AccFields DEF Books
    <2>2. acc.changes[k].input \subseteq acc.used
        BY DEF Books, Spends
    <2>3. OwnId(height + 1, k) \in Ids /\ k \in Someone
        BY <1>1 DEF Ids, Someone
    <2> DEFINE left == acc.changes[k].left
               in == acc.changes[k].input
               id == OwnId(height + 1, k)
               row == ChangeRow(acc.changes, k)
    <2>4. row = [id |-> id, block |-> height + 1, from |-> k, to |-> k, value |-> left, inputs |-> in]
        BY DEF ChangeRow
    <2>5. left \in Nat \ {0} /\ in \in SUBSET Ids /\ in \subseteq acc.used /\ id \in Ids
        BY <2>1, <2>2, <2>3
    <2> HIDE DEF left, in, id, row
    <2>6. row \in Rows
        BY <1>1, <2>3, <2>4, <2>5 DEF Rows
    <2>7. row.block = height + 1 /\ row.id = id /\ row.from = k /\ row.inputs = in
        BY <2>4
    <2>8. OfBlock(acc, row)
        BY <2>3, <2>5, <2>6, <2>7 DEF OfBlock, id
    <2>9. QED
        BY <2>8 DEF row
<1>3. ASSUME NEW r \in ChangeRows(acc.changes, Keys)
      PROVE  OfBlock(acc, r) /\ r.from \in Keys /\ r.to = r.from
    <2>1. PICK k \in Keys : acc.changes[k].left > 0 /\ r = ChangeRow(acc.changes, k)
        BY DEF ChangeRows
    <2>2. r.from = k /\ r.to = k
        BY <2>1 DEF ChangeRow
    <2>3. QED
        BY <1>2, <2>1, <2>2
<1>4. OfBlock(acc, RewardRow(m))
    <2>1. OwnId(height + 1, Nobody) \in Ids /\ Nobody \in Someone /\ m \in Someone
        BY <1>1 DEF Ids, Someone
    <2> DEFINE row == RewardRow(m)
               id == OwnId(height + 1, Nobody)
    <2>2. row = [id |-> id, block |-> height + 1, from |-> Nobody, to |-> m, value |-> Reward,
                 inputs |-> {}]
        BY DEF RewardRow
    <2>3. id \in Ids /\ Reward \in Nat \ {0} /\ {} \in SUBSET Ids
        BY <2>1, LedgerAssumption
    <2> HIDE DEF row, id
    <2>4. row \in Rows
        BY <1>1, <2>1, <2>2, <2>3 DEF Rows
    <2>5. row.block = height + 1 /\ row.id = id /\ row.from = Nobody /\ row.inputs = {}
        BY <2>2
    <2>6. OfBlock(acc, row)
        BY <2>1, <2>4, <2>5 DEF OfBlock, id
    <2>7. QED
        BY <2>6 DEF row
<1>5. QED
    BY <1>3, <1>4

\* The rows of a block: its payments, its change and the reward, apart from
\* each other and from the chain.
Rowed(acc, m, B) ==
    LET P == acc.rows
        C == ChangeRows(acc.changes, Keys)
    IN  /\ B = P \cup C \cup {RewardRow(m)}
        /\ Valued(P) /\ Valued(C) /\ Valued(B)
        /\ P \cap C = {} /\ RewardRow(m) \notin P \cup C
        /\ \A r \in P : ForPayment(acc, r)
        /\ \A r \in C : OfBlock(acc, r) /\ r.from \in Keys /\ r.to = r.from
        /\ OfBlock(acc, RewardRow(m))
        /\ \A r, s \in B : r.id = s.id => r = s
        /\ \A r \in B : ~ Stored(r.id)

\* buildNewBlock makes such a block.
LEMMA BlockRowed ==
    ASSUME TypeOK, Named, Queued, NEW acc, Books(acc, Len(mempool)), NEW m \in Keys
    PROVE  Rowed(acc, m, BlockOf(acc, m))
<1> DEFINE P == acc.rows
           C == ChangeRows(acc.changes, Keys)
           w == RewardRow(m)
           B == BlockOf(acc, m)
<1>1. /\ acc \in Accs /\ IsFiniteSet(P) /\ IsFiniteSet(C)
      /\ \A r, s \in P : r.id = s.id => r = s
    BY DEF Books, Drawn
<1>2. B = P \cup C \cup {w}
    BY BlockParts
<1>3. \A r \in P : ForPayment(acc, r)
    BY PaymentRows
<1>4. /\ \A r \in C : OfBlock(acc, r) /\ r.from \in Keys /\ r.to = r.from
      /\ OfBlock(acc, w)
    BY OwnRows
<1>5. w.from = Nobody /\ w.value = Reward
    BY DEF RewardRow
<1>6. \A r, s \in C : r.from = s.from => r = s
    BY DEF ChangeRows, ChangeRow
<1> HIDE DEF C, w, B
<1>7. \A r \in Rows : r.value \in Nat
    BY DEF Rows
<1>8. Valued(P) /\ Valued(C)
    BY <1>1, <1>3, <1>4, <1>7 DEF Valued, ForPayment, OfBlock
<1>9. \A r \in P : \A b, k : r.id # OwnId(b, k)
    BY <1>3, IdsApart DEF ForPayment, Paid
<1>10. P \cap C = {} /\ w \notin P
    BY <1>4, <1>9 DEF OfBlock
<1>11. w \notin C
    BY <1>4, <1>5, LedgerAssumption
<1>12. Valued(B)
    <2>1. w.value \in Nat
        BY <1>5, LedgerAssumption
    <2>2. IsFiniteSet(B)
        BY <1>1, <1>2, FS_Union, FS_AddElement
    <2>3. QED
        BY <1>2, <1>8, <2>1, <2>2 DEF Valued
<1>13. \A r, s \in B : r.id = s.id => r = s
    <2> SUFFICES ASSUME NEW r \in B, NEW s \in B, r.id = s.id PROVE r = s
        OBVIOUS
    <2>1. CASE r \in P \/ s \in P
        BY <1>1, <1>2, <1>4, <1>9, <2>1 DEF OfBlock
    <2>2. CASE r \in C \cup {w} /\ s \in C \cup {w}
        <3>1. r.id = OwnId(height + 1, r.from) /\ s.id = OwnId(height + 1, s.from)
            BY <1>4, <2>2 DEF OfBlock
        <3>2. OwnId(height + 1, r.from) = OwnId(height + 1, s.from)
            BY <3>1, Zenon
        <3>3. r.from = s.from
            BY <3>2, IdsApart, ZenonT(60)
        <3>4. QED
            BY <1>4, <1>5, <1>6, <2>2, <3>3, LedgerAssumption
    <2>3. QED
        BY <1>2, <2>1, <2>2
<1>14. \A r \in B : ~ Stored(r.id)
    <2>1. \A r \in P : ~ Stored(r.id)
        BY <1>3 DEF ForPayment
    <2>2. ASSUME NEW k, Stored(OwnId(height + 1, k)) PROVE FALSE
        <3>1. PICK t \in ledger : t.id = OwnId(height + 1, k)
            BY <2>2 DEF Stored
        <3>2. t.id \notin Paid
            BY <3>1, IdsApart DEF Paid
        <3>3. OwnId(t.block, t.from) = OwnId(height + 1, k) /\ t.block <= height
            BY <3>1, <3>2 DEF Named
        <3>4. t.block = height + 1 /\ height \in Nat
            BY <3>3, IdsApart DEF TypeOK
        <3>5. QED
            BY <3>3, <3>4
    <2>3. QED
        BY <1>2, <1>4, <2>1, <2>2 DEF OfBlock
<1>15. QED
    BY <1>2, <1>3, <1>4, <1>8, <1>10, <1>11, <1>12, <1>13, <1>14 DEF Rowed, C, w, B

-----------------------------------------------------------------------------
(* The money of a key after a block is stored.                             *)

Earned(L, k) == {t \in L : t.to = k /\ t.from # k}
Given(L, k)  == {t \in L : t.from = k /\ t.to # k}

\* A set of rows in two parts.
LEMMA EarnedOf ==
    ASSUME NEW L, Valued(L), NEW B, Valued(B), L \cap B = {}, NEW k
    PROVE  /\ SumValues(Earned(L \cup B, k)) = SumValues(Earned(L, k)) + SumValues(Earned(B, k))
           /\ SumValues(Given(L \cup B, k)) = SumValues(Given(L, k)) + SumValues(Given(B, k))
           /\ SumValues(Earned(L, k)) \in Nat /\ SumValues(Earned(B, k)) \in Nat
           /\ SumValues(Given(L, k)) \in Nat /\ SumValues(Given(B, k)) \in Nat
<1>1. /\ Earned(L \cup B, k) = Earned(L, k) \cup Earned(B, k)
      /\ Given(L \cup B, k) = Given(L, k) \cup Given(B, k)
    BY DEF Earned, Given
<1>2. /\ Earned(L, k) \in SUBSET L /\ Given(L, k) \in SUBSET L
      /\ Earned(B, k) \in SUBSET B /\ Given(B, k) \in SUBSET B
    BY DEF Earned, Given
<1>3. /\ Valued(Earned(L, k)) /\ Valued(Given(L, k))
      /\ Valued(Earned(B, k)) /\ Valued(Given(B, k))
    BY <1>2, SubsetValued
<1>4. Earned(L, k) \cap Earned(B, k) = {} /\ Given(L, k) \cap Given(B, k) = {}
    BY <1>2
<1>5. QED
    BY <1>1, <1>3, <1>4, SumUnion, SumType

\* What a block takes from a key and what it gives it.
FromKey(B, k) == {t \in B : t.from = k}
ToKey(B, k)   == {t \in B : t.to = k}

\* What a key sends to itself is on both sides.
LEMMA KeyRows ==
    ASSUME NEW B, Valued(B), NEW k
    PROVE  /\ SumValues(ToKey(B, k)) + SumValues(Given(B, k))
                = SumValues(FromKey(B, k)) + SumValues(Earned(B, k))
           /\ SumValues(ToKey(B, k)) \in Nat /\ SumValues(FromKey(B, k)) \in Nat
<1> DEFINE self == {t \in B : t.from = k /\ t.to = k}
<1>1. /\ ToKey(B, k) = self \cup Earned(B, k) /\ self \cap Earned(B, k) = {}
      /\ FromKey(B, k) = self \cup Given(B, k) /\ self \cap Given(B, k) = {}
    BY DEF ToKey, FromKey, Earned, Given
<1>2. self \in SUBSET B /\ Earned(B, k) \in SUBSET B /\ Given(B, k) \in SUBSET B
    BY DEF Earned, Given
<1> HIDE DEF self
<1>3. Valued(self) /\ Valued(Earned(B, k)) /\ Valued(Given(B, k))
    BY <1>2, SubsetValued
<1>4. /\ SumValues(ToKey(B, k)) = SumValues(self) + SumValues(Earned(B, k))
      /\ SumValues(FromKey(B, k)) = SumValues(self) + SumValues(Given(B, k))
    BY <1>1, <1>3, SumUnion
<1>5. SumValues(self) \in Nat /\ SumValues(Earned(B, k)) \in Nat /\ SumValues(Given(B, k)) \in Nat
    BY <1>3, SumType
<1>6. QED
    BY <1>4, <1>5

\* A payer's rows and its change cost what is used of its outputs.
LEMMA CostOf ==
    ASSUME TypeOK, Queued, NEW acc, Books(acc, Len(mempool)), NEW m, NEW B, Rowed(acc, m, B),
           NEW J \in SUBSET Keys
    PROVE  /\ SumValues(RowsOf(B, J)) = SumValues(UsedOf(acc.used, J))
           /\ RowsOf(B, J) = RowsOf(acc.rows, J) \cup ChangeRows(acc.changes, J)
<1> DEFINE R == RowsOf(acc.rows, J)
           C == ChangeRows(acc.changes, J)
           S == RowsOf(B, J)
<1>1. /\ B = acc.rows \cup ChangeRows(acc.changes, Keys) \cup {RewardRow(m)}
      /\ Valued(acc.rows) /\ Valued(ChangeRows(acc.changes, Keys))
      /\ acc.rows \cap ChangeRows(acc.changes, Keys) = {}
    BY DEF Rowed
<1>2. RewardRow(m).from \notin J
    BY LedgerAssumption DEF RewardRow
<1>3. C = {r \in ChangeRows(acc.changes, Keys) : r.from \in J}
    BY DEF ChangeRows, ChangeRow
<1>4. R \in SUBSET acc.rows /\ C \in SUBSET ChangeRows(acc.changes, Keys)
    BY <1>3 DEF RowsOf
<1>5. S = R \cup C /\ R \cap C = {}
    BY <1>1, <1>2, <1>3 DEF RowsOf
<1> HIDE DEF R, C, S
<1>6. Valued(R) /\ Valued(C)
    BY <1>1, <1>4, SubsetValued
<1>7. SumValues(S) = SumValues(R) + SumValues(C)
    BY <1>5, <1>6, SumUnion
<1>8. SumValues(UsedOf(acc.used, J)) = SumValues(R) + SumValues(C)
    BY DEF Books, Balanced, R, C
<1>9. QED
    BY <1>5, <1>7, <1>8 DEF R, C, S

\* The outputs that a block spends, and the block's payments and change.
Inputs(B) == UNION {r.inputs : r \in B}

\* A block spends only what is used, and that was unspent.
LEMMA SpentUsed ==
    ASSUME TypeOK, Named, Queued, NEW acc, Books(acc, Len(mempool)), NEW m, NEW B,
           Rowed(acc, m, B)
    PROVE  /\ Inputs(B) \subseteq acc.used
           /\ {t \in ledger : t.id \in Inputs(B)} \in SUBSET UsedOf(acc.used, Keys)
           /\ \A t \in ledger : t.id \in acc.used => t.to \in Keys /\ t.id \notin Spent
<1>1. \A r \in B : r.inputs \subseteq acc.used
    BY DEF Rowed, ForPayment, OfBlock
<1>2. Inputs(B) \subseteq acc.used
    BY <1>1 DEF Inputs
<1>3. \A t \in ledger : t.id \in acc.used => t.to \in Keys /\ t.id \notin Spent
    <2> SUFFICES ASSUME NEW t \in ledger, t.id \in acc.used PROVE t.to \in Keys /\ t.id \notin Spent
        OBVIOUS
    <2>1. acc.used \subseteq {o.id : o \in {o \in ledger : o.to \in Keys /\ o.id \notin Spent}}
        BY DEF Books, Spends
    <2>2. PICK o \in ledger : o.id = t.id /\ o.to \in Keys /\ o.id \notin Spent
        BY <2>1
    <2>3. QED
        BY <2>2 DEF Named
<1>4. QED
    BY <1>2, <1>3 DEF UsedOf

\* When inputs and outputs match, the block spends everything that is used.
LEMMA MatchedSpends ==
    ASSUME TypeOK, Named, Queued, NEW acc, Books(acc, Len(mempool)), NEW m, NEW B,
           Rowed(acc, m, B), InputsMatch(B)
    PROVE  {t \in ledger : t.id \in Inputs(B)} = UsedOf(acc.used, Keys)
<1> DEFINE S == RowsOf(B, Keys)
           w == RewardRow(m)
           I == {t \in ledger : t.id \in Inputs(B)}
           U == UsedOf(acc.used, Keys)
<1>1. /\ Valued(B) /\ w \in B /\ \A r \in B : r # w => r.from \in Keys
    BY DEF Rowed, ForPayment
<1>2. w.from \notin Keys /\ w.value = Reward /\ Reward \in Nat
    BY LedgerAssumption DEF RewardRow
<1>3. B = S \cup {w} /\ w \notin S /\ S \in SUBSET B
    BY <1>1, <1>2 DEF RowsOf
<1>4. SumValues(S) = SumValues(U)
    <2>1. Keys \in SUBSET Keys
        OBVIOUS
    <2>2. QED
        BY <2>1, CostOf, Zenon
<1>5. I \in SUBSET U
    BY SpentUsed
<1>6. U \in SUBSET ledger
    BY DEF UsedOf
<1>7. SumValues(I) + Reward = SumValues(B)
    BY DEF InputsMatch, InputSum, Inputs
<1> HIDE DEF S, w, I, U
<1>8. Valued(S)
    BY <1>1, <1>3, SubsetValued
<1>9. SumValues(B) = SumValues(S) + Reward
    BY <1>2, <1>3, <1>8, SumAdd
<1>10. Valued(U) /\ \A t \in U : t.value > 0
    BY <1>6, LedgerValued
<1>11. SumValues(I) \in Nat /\ SumValues(S) \in Nat
    BY <1>5, <1>8, <1>10, SubsetValued, SumType
<1>12. SumValues(I) = SumValues(U)
    BY <1>2, <1>4, <1>7, <1>9, <1>11
<1>13. I = U
    BY <1>5, <1>10, <1>12, SumAll
<1>14. QED
    BY <1>13 DEF I, U

\* Used outputs of a key are unspent outputs of it.
LEMMA UsedUnspent ==
    ASSUME TypeOK, Named, Queued, NEW acc, Books(acc, Len(mempool)), NEW m, NEW B,
           Rowed(acc, m, B), NEW k \in Keys
    PROVE  UsedOf(acc.used, {k}) \in SUBSET Unspent(k)
<1>1. \A t \in ledger : t.id \in acc.used => t.id \notin Spent
    BY SpentUsed
<1>2. QED
    BY <1>1 DEF UsedOf, Unspent

\* The outputs of a key that are unspent with the block stored.
Grown(L, B) == L = ledger \cup B
UnspentIn(L, k) == {t \in L : t.to = k /\ t.id \notin Inputs(L)}

\* What is left of the outputs, and what the block gives.
LEMMA UnspentAfter ==
    ASSUME TypeOK, Named, Queued, NEW acc, Books(acc, Len(mempool)), NEW m, NEW B,
           Rowed(acc, m, B), InputsMatch(B), NEW k \in Keys, NEW L, Grown(L, B)
    PROVE  /\ UnspentIn(L, k) = (Unspent(k) \ UsedOf(acc.used, {k})) \cup ToKey(B, k)
           /\ ledger \cap B = {}
<1>1. Inputs(L) = Spent \cup Inputs(B)
    BY DEF Inputs, Spent, Grown
<1>2. \A r \in B : \A t \in ledger : t.id # r.id
    BY DEF Rowed, Stored
<1>3. ledger \cap B = {}
    BY <1>2
<1>4. \A t \in ledger : t.id \in Inputs(B) <=> t \in UsedOf(acc.used, Keys)
    <2>1. {t \in ledger : t.id \in Inputs(B)} = UsedOf(acc.used, Keys)
        BY MatchedSpends
    <2>2. QED
        BY <2>1
<1>5. \A t \in ledger : t.to = k => (t.id \in Inputs(B) <=> t \in UsedOf(acc.used, {k}))
    BY <1>4 DEF UsedOf
<1>6. ASSUME NEW r \in B PROVE r.id \notin Inputs(L)
    <2>1. Inputs(B) \subseteq acc.used
        BY SpentUsed
    <2>2. acc.used \subseteq {t.id : t \in {o \in ledger : o.to \in Keys /\ o.id \notin Spent}}
        BY DEF Books, Spends
    <2>3. Spent \subseteq {t.id : t \in ledger}
        BY DEF Named
    <2>4. acc.used \subseteq {t.id : t \in ledger}
        BY <2>2
    <2>5. Inputs(L) \subseteq {t.id : t \in ledger}
        BY <1>1, <2>1, <2>3, <2>4
    <2>6. QED
        BY <1>2, <2>5
<1>7. \A t \in ledger : t.to = k /\ t.id \notin Inputs(L)
                        <=> t \in Unspent(k) /\ t \notin UsedOf(acc.used, {k})
    BY <1>1, <1>5 DEF Unspent
<1>8. \A r \in B : r.to = k /\ r.id \notin Inputs(L) <=> r \in ToKey(B, k)
    BY <1>6 DEF ToKey
<1>9. Unspent(k) \in SUBSET ledger /\ ToKey(B, k) \in SUBSET B
    BY DEF Unspent, ToKey
<1>10. UnspentIn(L, k) = (Unspent(k) \ UsedOf(acc.used, {k})) \cup ToKey(B, k)
    BY <1>7, <1>8, <1>9 DEF UnspentIn, Grown
<1>11. QED
    BY <1>3, <1>10

\* The arithmetic of a block: what is unspent, earned and given by the chain
\* and by the block, what the block takes and what it gives.
LEMMA BlockSums ==
    ASSUME NEW rest \in Nat, NEW used \in Nat, NEW to \in Nat, NEW from \in Nat,
           NEW earned \in Nat, NEW given \in Nat, NEW earnedNew \in Nat, NEW givenNew \in Nat,
           used + rest = earned - given, used = from, to + givenNew = from + earnedNew
    PROVE  rest + to = (earned + earnedNew) - (given + givenNew)
OBVIOUS

\* With the block stored, unspent outputs and balance still agree.
LEMMA BlockBalance ==
    ASSUME TypeOK, Named, Queued, UnspentIsBalance, NEW acc, Books(acc, Len(mempool)), NEW m,
           NEW B, Rowed(acc, m, B), InputsMatch(B), NEW k \in Keys, NEW L, Grown(L, B)
    PROVE  SumValues(UnspentIn(L, k)) = SumValues(Earned(L, k)) - SumValues(Given(L, k))
<1> DEFINE U == UsedOf(acc.used, {k})
           rest == Unspent(k) \ U
<1>1. /\ UnspentIn(L, k) = rest \cup ToKey(B, k)
      /\ ledger \cap B = {}
    <2>1. /\ UnspentIn(L, k) = (Unspent(k) \ UsedOf(acc.used, {k})) \cup ToKey(B, k)
          /\ ledger \cap B = {}
        BY UnspentAfter
    <2>2. QED
        BY <2>1
<1>2. U \in SUBSET Unspent(k)
    BY UsedUnspent
<1>3. Unspent(k) \in SUBSET ledger /\ ToKey(B, k) \in SUBSET B
    BY DEF Unspent, ToKey
<1>4. Valued(B) /\ Valued(ledger) /\ Valued(Unspent(k))
    BY <1>3, LedgerValued DEF Rowed
<1>5. Valued(ToKey(B, k))
    BY <1>3, <1>4, SubsetValued
<1>6. SumValues(Unspent(k)) = SumValues(U) + SumValues(rest) /\ SumValues(U) \in Nat
      /\ SumValues(rest) \in Nat /\ Valued(rest)
    <2> HIDE DEF U
    <2>1. rest \in SUBSET Unspent(k)
        OBVIOUS
    <2>2. QED
        BY <1>2, <1>4, <2>1, SumSplit, SubsetValued
<1>7. SumValues(Unspent(k)) = SumValues(Earned(ledger, k)) - SumValues(Given(ledger, k))
    <2>1. Unspent(k) = {t \in ledger : t.to = k /\ t.id \notin Spent}
        BY DEF Unspent
    <2>2. SumValues(Unspent(k)) = Balance(k)
        BY <2>1, Zenon DEF UnspentIsBalance
    <2>3. QED
        BY <2>2, Zenon DEF Balance, Earned, Given
<1>8. SumValues(U) = SumValues(FromKey(B, k))
    <2>1. {k} \in SUBSET Keys
        OBVIOUS
    <2>2. SumValues(RowsOf(B, {k})) = SumValues(U)
        BY <2>1, CostOf, Zenon
    <2>3. RowsOf(B, {k}) = FromKey(B, k)
        BY DEF FromKey, RowsOf
    <2>4. QED
        BY <2>2, <2>3, Zenon
<1> HIDE DEF U, rest
<1>9. SumValues(rest \cup ToKey(B, k)) = SumValues(rest) + SumValues(ToKey(B, k))
    <2>1. rest \cap ToKey(B, k) = {}
        BY <1>1, <1>3 DEF rest
    <2>2. QED
        BY <1>5, <1>6, <2>1, SumUnion
<1>10. /\ SumValues(Earned(L, k)) = SumValues(Earned(ledger, k)) + SumValues(Earned(B, k))
       /\ SumValues(Given(L, k)) = SumValues(Given(ledger, k)) + SumValues(Given(B, k))
       /\ SumValues(Earned(ledger, k)) \in Nat /\ SumValues(Earned(B, k)) \in Nat
       /\ SumValues(Given(ledger, k)) \in Nat /\ SumValues(Given(B, k)) \in Nat
    BY <1>1, <1>4, EarnedOf DEF Grown
<1>11. /\ SumValues(ToKey(B, k)) + SumValues(Given(B, k))
             = SumValues(FromKey(B, k)) + SumValues(Earned(B, k))
       /\ SumValues(ToKey(B, k)) \in Nat /\ SumValues(FromKey(B, k)) \in Nat
    BY <1>4, KeyRows
<1> DEFINE ru == SumValues(rest)
           us == SumValues(U)
           to == SumValues(ToKey(B, k))
           from == SumValues(FromKey(B, k))
           el == SumValues(Earned(ledger, k))
           gl == SumValues(Given(ledger, k))
           eb == SumValues(Earned(B, k))
           gb == SumValues(Given(B, k))
<1>12. /\ ru \in Nat /\ us \in Nat /\ to \in Nat /\ from \in Nat
       /\ el \in Nat /\ gl \in Nat /\ eb \in Nat /\ gb \in Nat
       /\ us + ru = el - gl /\ us = from /\ to + gb = from + eb
    BY <1>6, <1>7, <1>8, <1>10, <1>11, Zenon
<1>13. /\ SumValues(UnspentIn(L, k)) = ru + to
       /\ SumValues(Earned(L, k)) = el + eb /\ SumValues(Given(L, k)) = gl + gb
    BY <1>1, <1>9, <1>10, Zenon
<1> HIDE DEF ru, us, to, from, el, gl, eb, gb
<1>14. ru + to = (el + eb) - (gl + gb)
    BY <1>12, BlockSums
<1>15. QED
    BY <1>13, <1>14, Zenon

-----------------------------------------------------------------------------
(* The invariant holds.                                                    *)

\* The parts of the invariant that a set of rows decides.
LEMMA RowsNamed ==
    ASSUME TypeOK, Named, Queued, NEW acc, Books(acc, Len(mempool)), NEW m, NEW B,
           Rowed(acc, m, B), NEW L, L = ledger \cup B
    PROVE  /\ IsFiniteSet(L) /\ L \subseteq Rows
           /\ \A t \in L : \/ t.id \in Paid /\ t.from \in Keys /\ t.to \in Keys
                           \/ t.id = OwnId(t.block, t.from) /\ t.block <= height + 1
           /\ \A s, t \in L : s.id = t.id => s = t
           /\ Inputs(L) \subseteq {t.id : t \in L}
<1>1. /\ B = acc.rows \cup ChangeRows(acc.changes, Keys) \cup {RewardRow(m)}
      /\ \A r \in B : ForPayment(acc, r) \/ OfBlock(acc, r)
      /\ IsFiniteSet(B)
      /\ \A r, s \in B : r.id = s.id => r = s
      /\ \A r \in B : ~ Stored(r.id)
    BY DEF Rowed, Valued
<1>2. IsFiniteSet(L) /\ L \subseteq Rows
    <2>1. B \subseteq Rows
        BY <1>1 DEF ForPayment, OfBlock
    <2>2. QED
        BY <1>1, <2>1, FS_Union DEF TypeOK
<1>3. height \in Nat
    BY DEF TypeOK
<1>4. ASSUME NEW t \in L
      PROVE  \/ t.id \in Paid /\ t.from \in Keys /\ t.to \in Keys
             \/ t.id = OwnId(t.block, t.from) /\ t.block <= height + 1
    <2>1. CASE t \in ledger
        <3>1. t.block \in Nat
            BY <2>1 DEF TypeOK, Rows
        <3>2. CASE t.id \in Paid /\ t.from \in Keys /\ t.to \in Keys
            BY <3>2
        <3>3. CASE t.id = OwnId(t.block, t.from) /\ t.block <= height
            BY <1>3, <3>1, <3>3
        <3>4. QED
            BY <2>1, <3>2, <3>3 DEF Named
    <2>2. CASE ForPayment(acc, t)
        BY <2>2 DEF ForPayment
    <2>3. CASE OfBlock(acc, t)
        <3>1. t.block = height + 1 /\ t.id = OwnId(height + 1, t.from)
            BY <2>3 DEF OfBlock
        <3>2. t.id = OwnId(t.block, t.from)
            BY <3>1, Zenon
        <3>3. QED
            BY <1>3, <3>1, <3>2
    <2>4. QED
        BY <1>1, <2>1, <2>2, <2>3
<1>5. \A s, t \in L : s.id = t.id => s = t
    BY <1>1 DEF Named, Stored
<1>6. Inputs(L) \subseteq {t.id : t \in L}
    <2>1. Inputs(B) \subseteq acc.used
        BY SpentUsed
    <2>2. acc.used \subseteq {t.id : t \in {o \in ledger : o.to \in Keys /\ o.id \notin Spent}}
        BY DEF Books, Spends
    <2>3. acc.used \subseteq {t.id : t \in L}
        BY <2>2
    <2>4. Spent \subseteq {t.id : t \in L}
        BY DEF Named
    <2>5. Inputs(L) = Spent \cup Inputs(B)
        BY DEF Inputs, Spent
    <2>6. QED
        BY <2>1, <2>3, <2>4, <2>5
<1>7. QED
    BY <1>2, <1>4, <1>5, <1>6

\* The parts that the mempool decides.
LEMMA PoolQueued ==
    ASSUME TypeOK, Queued, NEW acc, Books(acc, Len(mempool)), KeptPool(acc, Len(mempool)), NEW B
    PROVE  /\ acc.pool \in Seq(Payments) /\ Distinct(acc.pool)
           /\ \A x \in 1 .. Len(acc.pool) : acc.pool[x].id \in Paid
           /\ Without(acc.pool, B) \in Seq(Payments) /\ Distinct(Without(acc.pool, B))
           /\ \A x \in 1 .. Len(Without(acc.pool, B)) : Without(acc.pool, B)[x].id \in Paid
<1>1. acc.pool \in Seq(Payments)
    BY DEF Books, Accs
<1>2. Distinct(acc.pool) /\ \A x \in 1 .. Len(acc.pool) : acc.pool[x].id \in Paid
    BY DEF KeptPool, Queued
<1> DEFINE q == Without(acc.pool, B)
<1>3. Filtered(q, acc.pool, B, Len(acc.pool))
    BY <1>1, WithoutFilters
<1> HIDE DEF q
<1>4. q \in Seq(Payments) /\ Distinct(q) /\ \A x \in 1 .. Len(q) : q[x].id \in Paid
    BY <1>2, <1>3 DEF Filtered
<1>5. QED
    BY <1>1, <1>2, <1>4 DEF q

\* It holds for the genesis block.
LEMMA InitInv ==
    ASSUME Init
    PROVE  LedgerInv
<1> DEFINE id == OwnId(1, Nobody)
           g == [id |-> id, block |-> 1, from |-> Nobody, to |-> Nobody, value |-> Reward,
                 inputs |-> {}]
<1>1. ledger = {g} /\ height = 1 /\ mempool = <<>> /\ paid = 0
    BY DEF Init
<1>2. id \in Ids /\ Nobody \in Someone /\ Reward \in Nat \ {0} /\ {} \in SUBSET Ids
    BY LedgerAssumption DEF Ids, Someone
<1> HIDE DEF id
<1>3. g \in Rows
    BY <1>2 DEF Rows
<1>4. g.id = id /\ g.block = 1 /\ g.from = Nobody /\ g.to = Nobody /\ g.inputs = {}
    OBVIOUS
<1> HIDE DEF g
<1>5. TypeOK
    <2>1. IsFiniteSet(ledger)
        BY <1>1, FS_Singleton
    <2>2. mempool \in Seq(Payments)
        BY <1>1
    <2>3. QED
        BY <1>1, <1>3, <2>1, <2>2 DEF TypeOK
<1>6. Named
    <2>1. Spent = {}
        BY <1>1, <1>4 DEF Spent
    <2>2. g.id = OwnId(g.block, g.from) /\ g.block <= height
        BY <1>1, <1>4 DEF id
    <2>3. QED
        BY <1>1, <2>1, <2>2 DEF Named
<1>7. Queued
    BY <1>1 DEF Queued, Distinct
<1>8. UnspentIsBalance
    <2> SUFFICES ASSUME NEW k \in Keys
                 PROVE  SumValues({t \in ledger : t.to = k /\ t.id \notin Spent}) = Balance(k)
        BY DEF UnspentIsBalance
    <2>1. Nobody # k
        BY LedgerAssumption
    <2>2. /\ {t \in ledger : t.to = k /\ t.id \notin Spent} = {}
          /\ {t \in ledger : t.to = k /\ t.from # k} = {}
          /\ {t \in ledger : t.from = k /\ t.to # k} = {}
        BY <1>1, <1>4, <2>1
    <2>3. Balance(k) = 0 - 0
        BY <2>2, SumEmpty, Zenon DEF Balance
    <2>4. QED
        BY <2>2, <2>3, SumEmpty
<1>9. QED
    BY <1>5, <1>6, <1>7, <1>8 DEF LedgerInv

\* A round of the miner whose block is stored.
LEMMA StoreInv ==
    ASSUME LedgerInv, NEW m \in Keys, NEW acc, Books(acc, Len(mempool)),
           KeptPool(acc, Len(mempool)), NEW B, Rowed(acc, m, B), Accounted(B),
           ledger' = ledger \cup B, height' = height + 1, mempool' = Without(acc.pool, B),
           paid' = paid
    PROVE  LedgerInv'
<1>1. TypeOK /\ Named /\ Queued /\ UnspentIsBalance /\ InputsMatch(B)
    BY DEF LedgerInv, Accounted
<1>2. PICK L : L = ledger'
    OBVIOUS
<1>3. L = ledger \cup B /\ Grown(L, B)
    BY <1>2 DEF Grown
<1>4. /\ IsFiniteSet(L) /\ L \subseteq Rows
      /\ \A t \in L : \/ t.id \in Paid /\ t.from \in Keys /\ t.to \in Keys
                      \/ t.id = OwnId(t.block, t.from) /\ t.block <= height + 1
      /\ \A s, t \in L : s.id = t.id => s = t
      /\ Inputs(L) \subseteq {t.id : t \in L}
    BY <1>1, <1>3, RowsNamed, ZenonT(60)
<1>5. /\ mempool' \in Seq(Payments) /\ Distinct(mempool')
      /\ \A x \in 1 .. Len(mempool') : mempool'[x].id \in Paid
    BY <1>1, PoolQueued
<1>6. \A k \in Keys : SumValues(UnspentIn(L, k)) = SumValues(Earned(L, k)) - SumValues(Given(L, k))
    BY <1>1, <1>3, BlockBalance
<1>7. Paid' = Paid
    BY DEF Paid
<1>8. Spent' = Inputs(L)
    BY <1>2 DEF Spent, Inputs
<1>9. TypeOK'
    BY <1>1, <1>2, <1>4, <1>5 DEF TypeOK
<1>10. Named'
    BY <1>2, <1>4, <1>7, <1>8 DEF Named
<1>11. Queued'
    BY <1>5, <1>7 DEF Queued
<1>12. UnspentIsBalance'
    <2> SUFFICES ASSUME NEW k \in Keys
                 PROVE  SumValues({t \in ledger' : t.to = k /\ t.id \notin Spent'}) = Balance(k)'
        BY DEF UnspentIsBalance
    <2>1. {t \in ledger' : t.to = k /\ t.id \notin Spent'} = UnspentIn(L, k)
        BY <1>2, <1>8 DEF UnspentIn
    <2>2. Balance(k)' = SumValues(Earned(L, k)) - SumValues(Given(L, k))
        BY <1>2, Zenon DEF Balance, Earned, Given
    <2>3. SumValues(UnspentIn(L, k)) = SumValues(Earned(L, k)) - SumValues(Given(L, k))
        BY <1>6
    <2>4. QED
        BY <2>1, <2>2, <2>3, Zenon
<1>13. QED
    BY <1>9, <1>10, <1>11, <1>12 DEF LedgerInv

\* The chain does not change.
LEMMA SameChain ==
    ASSUME LedgerInv, UNCHANGED <<ledger, height>>, paid' \in Nat, paid' >= paid,
           mempool' \in Seq(Payments), Distinct(mempool'),
           \A x \in 1 .. Len(mempool') : mempool'[x].id \in Paid'
    PROVE  LedgerInv'
<1>1. TypeOK /\ Named /\ UnspentIsBalance
    BY DEF LedgerInv
<1>2. TypeOK'
    BY <1>1 DEF TypeOK
<1>3. Paid \subseteq Paid'
    <2>1. \A n \in 1 .. paid : n \in 1 .. paid'
        BY <1>1 DEF TypeOK
    <2>2. QED
        BY <2>1 DEF Paid
<1>4. Spent' = Spent
    BY DEF Spent
<1>5. Named'
    BY <1>1, <1>3, <1>4 DEF Named
<1>6. Queued'
    BY DEF Queued
<1>7. UnspentIsBalance'
    <2> SUFFICES ASSUME NEW k \in Keys
                 PROVE  SumValues({t \in ledger' : t.to = k /\ t.id \notin Spent'}) = Balance(k)'
        BY DEF UnspentIsBalance
    <2>1. ledger' = ledger
        OBVIOUS
    <2>2. Balance(k)' = Balance(k)
        BY <2>1, Zenon DEF Balance
    <2>3. {t \in ledger' : t.to = k /\ t.id \notin Spent'} = {t \in ledger : t.to = k /\ t.id \notin Spent}
        BY <1>4, <2>1
    <2>4. SumValues({t \in ledger : t.to = k /\ t.id \notin Spent}) = Balance(k)
        BY <1>1, Zenon DEF UnspentIsBalance
    <2>5. QED
        BY <2>2, <2>3, <2>4, Zenon
<1>8. QED
    BY <1>2, <1>5, <1>6, <1>7 DEF LedgerInv

\* A payment that the mempool does not hold is appended to it.
LEMMA AppendInv ==
    ASSUME LedgerInv, UNCHANGED <<ledger, height>>, paid' \in Nat, paid' >= paid,
           NEW p \in Payments, p.id \in Paid', mempool' = Append(mempool, p),
           \A j \in 1 .. Len(mempool) : mempool[j].id # p.id
    PROVE  LedgerInv'
<1>1. TypeOK /\ Queued
    BY DEF LedgerInv
<1>2. PICK n \in Nat : n = Len(mempool)
    BY <1>1 DEF TypeOK
<1>3. mempool' \in Seq(Payments) /\ Len(mempool') = n + 1 /\ mempool'[n + 1] = p
      /\ \A j \in 1 .. n : mempool'[j] = mempool[j]
    BY <1>1, <1>2 DEF TypeOK
<1>4. \A j \in 1 .. Len(mempool') : j \in 1 .. n \/ j = n + 1
    BY <1>3
<1>5. Paid \subseteq Paid'
    <2>1. \A j \in 1 .. paid : j \in 1 .. paid'
        BY <1>1 DEF TypeOK
    <2>2. QED
        BY <2>1 DEF Paid
<1>6. \A j \in 1 .. Len(mempool') : mempool'[j].id \in Paid'
    BY <1>1, <1>2, <1>3, <1>4, <1>5 DEF Queued
<1>7. Distinct(mempool')
    <2>1. \A i, j \in 1 .. n : mempool'[i].id = mempool'[j].id => i = j
        BY <1>1, <1>2, <1>3 DEF Queued, Distinct
    <2>2. \A i \in 1 .. n : mempool'[i].id # mempool'[n + 1].id
        BY <1>2, <1>3
    <2>3. QED
        BY <1>4, <2>1, <2>2 DEF Distinct
<1>8. QED
    BY <1>3, <1>6, <1>7, SameChain

\* A user pays.
LEMMA PayInv ==
    ASSUME LedgerInv, NEW k \in Keys, NEW to \in Keys, NEW v \in Values, Pay(k, to, v)
    PROVE  LedgerInv'
<1> DEFINE p == Payment(paid + 1, k, to, v)
<1>1. paid' = paid + 1 /\ mempool' = Append(mempool, p) /\ UNCHANGED <<ledger, height>>
    BY DEF Pay
<1>2. paid \in Nat /\ paid + 1 \in Nat /\ Queued
    BY DEF LedgerInv, TypeOK
<1>3. v \in Nat \ {0} /\ PaymentId(paid + 1) \in Ids
    BY <1>2, LedgerAssumption DEF Ids
<1>4. p \in Payments /\ p.id = PaymentId(paid + 1)
    BY <1>3 DEF Payment, Payments
<1> HIDE DEF p
<1>5. p.id \in Paid'
    <2>1. paid + 1 \in 1 .. paid'
        BY <1>1, <1>2
    <2>2. QED
        BY <1>4, <2>1 DEF Paid
<1>6. PaymentId(paid + 1) \notin Paid
    <2> SUFFICES ASSUME NEW n \in 1 .. paid, PaymentId(paid + 1) = PaymentId(n) PROVE FALSE
        BY DEF Paid
    <2>1. paid + 1 = n
        BY DEF PaymentId
    <2>2. QED
        BY <1>2, <2>1
<1>7. \A j \in 1 .. Len(mempool) : mempool[j].id # p.id
    BY <1>2, <1>4, <1>6 DEF Queued
<1>8. paid' \in Nat /\ paid' >= paid
    BY <1>1, <1>2
<1>9. QED
    BY <1>1, <1>4, <1>5, <1>7, <1>8, AppendInv

\* A payment of the chain arrives again.
LEMMA PayAgainInv ==
    ASSUME LedgerInv, NEW t \in ledger, PayAgain(t)
    PROVE  LedgerInv'
<1> DEFINE p == [id |-> t.id, from |-> t.from, to |-> t.to, value |-> t.value]
<1>1. /\ Len(t.id) = 1 /\ mempool' = Append(mempool, p) /\ UNCHANGED <<ledger, height, paid>>
      /\ \A j \in 1 .. Len(mempool) : mempool[j].id # t.id
    BY DEF PayAgain
<1>2. TypeOK /\ Named
    BY DEF LedgerInv
<1>3. t.id \in Paid /\ t.from \in Keys /\ t.to \in Keys
    <2>1. t.id # OwnId(t.block, t.from)
        <3>1. Len(<<t.block, t.from>>) = 2
            OBVIOUS
        <3>2. Len(OwnId(t.block, t.from)) = 2
            BY <3>1, Zenon DEF OwnId
        <3>3. QED
            <4> SUFFICES ASSUME t.id = OwnId(t.block, t.from) PROVE FALSE
                OBVIOUS
            <4>1. Len(t.id) = 2
                BY <3>2, Zenon
            <4>2. Len(t.id) = 1
                BY <1>1, Zenon
            <4>3. QED
                BY <4>1, <4>2
    <2>2. QED
        BY <1>2, <2>1 DEF Named
<1>4. t.id \in Ids /\ t.value \in Nat \ {0}
    BY <1>2 DEF TypeOK, Rows
<1>5. p \in Payments /\ p.id = t.id
    BY <1>3, <1>4 DEF Payments
<1> HIDE DEF p
<1>6. Paid' = Paid
    BY <1>1 DEF Paid
<1>7. paid' \in Nat /\ paid' >= paid
    BY <1>1, <1>2 DEF TypeOK
<1>8. p.id \in Paid' /\ \A j \in 1 .. Len(mempool) : mempool[j].id # p.id
    BY <1>1, <1>3, <1>5, <1>6
<1>9. QED
    BY <1>1, <1>5, <1>7, <1>8, AppendInv

\* A round of the miner.
LEMMA MineInv ==
    ASSUME LedgerInv, NEW m \in Keys, Mine(m)
    PROVE  LedgerInv'
<1> DEFINE acc == PutTxInBlock
           B == BlockOf(acc, m)
<1>1. TypeOK /\ Named /\ Queued
    BY DEF LedgerInv
<1>2. Books(acc, Len(mempool)) /\ KeptPool(acc, Len(mempool))
    BY LoopKeeps
<1>3. \/ /\ Accounted(B) /\ ledger' = ledger \cup B /\ height' = height + 1
         /\ mempool' = Without(acc.pool, B)
      \/ mempool' = acc.pool /\ UNCHANGED <<ledger, height>>
    BY DEF Mine
<1>4. paid' = paid
    BY DEF Mine
<1> HIDE DEF acc
<1>5. Rowed(acc, m, B)
    BY <1>1, <1>2, BlockRowed
<1> HIDE DEF B
<1>6. CASE /\ Accounted(B) /\ ledger' = ledger \cup B /\ height' = height + 1
           /\ mempool' = Without(acc.pool, B)
    BY <1>2, <1>4, <1>5, <1>6, StoreInv
<1>7. CASE mempool' = acc.pool /\ UNCHANGED <<ledger, height>>
    <2>1. /\ acc.pool \in Seq(Payments) /\ Distinct(acc.pool)
          /\ \A x \in 1 .. Len(acc.pool) : acc.pool[x].id \in Paid
        BY <1>1, <1>2, PoolQueued
    <2>2. Paid' = Paid
        BY <1>4 DEF Paid
    <2>3. paid' \in Nat /\ paid' >= paid
        BY <1>1, <1>4 DEF TypeOK
    <2>4. /\ mempool' \in Seq(Payments) /\ Distinct(mempool')
          /\ \A x \in 1 .. Len(mempool') : mempool'[x].id \in Paid'
        BY <1>7, <2>1, <2>2
    <2>5. QED
        BY <1>7, <2>3, <2>4, SameChain
<1>8. QED
    BY <1>3, <1>6, <1>7

\* Every step keeps the invariant.
LEMMA StepInv ==
    ASSUME LedgerInv, [Next]_vars
    PROVE  LedgerInv'
<1>1. CASE \E k, to \in Keys, v \in Values : Pay(k, to, v)
    BY <1>1, PayInv
<1>2. CASE \E t \in ledger : PayAgain(t)
    BY <1>2, PayAgainInv
<1>3. CASE \E m \in Keys : Mine(m)
    BY <1>3, MineInv
<1>4. CASE UNCHANGED vars
    <2>1. UNCHANGED <<ledger, height, mempool, paid>>
        BY <1>4 DEF vars
    <2>2. TypeOK /\ Queued /\ Paid' = Paid
        BY <2>1 DEF LedgerInv, Paid
    <2>3. paid' \in Nat /\ paid' >= paid /\ mempool' \in Seq(Payments)
        BY <2>1, <2>2 DEF TypeOK
    <2>4. Distinct(mempool') /\ \A x \in 1 .. Len(mempool') : mempool'[x].id \in Paid'
        BY <2>1, <2>2 DEF Queued
    <2>5. QED
        BY <2>1, <2>3, <2>4, SameChain
<1>5. QED
    BY <1>1, <1>2, <1>3, <1>4 DEF Next

\* The ledger has hashes of its own, spends what it has, and counts a key's
\* money in two ways that agree; the mempool has a payment once.
THEOREM LedgerInvAlways == Spec => []LedgerInv
<1>1. Init => LedgerInv
    BY InitInv
<1>2. LedgerInv /\ [Next]_vars => LedgerInv'
    BY StepInv
<1>3. QED
    BY <1>1, <1>2, PTL DEF Spec

\* The two ways the code counts a key's money agree, always.
THEOREM UnspentIsBalanceAlways == Spec => []UnspentIsBalance
<1>1. LedgerInv => UnspentIsBalance
    BY DEF LedgerInv
<1>2. QED
    BY <1>1, LedgerInvAlways, PTL

-----------------------------------------------------------------------------
(* A block and verifyBlock.                                                *)

\* What a block is worth.
LEMMA WorthOf ==
    ASSUME TypeOK, Queued, NEW acc, Books(acc, Len(mempool)), NEW m, NEW B, Rowed(acc, m, B)
    PROVE  SumValues(B) = SumValues(UsedOf(acc.used, Keys)) + Reward
<1> DEFINE S == RowsOf(B, Keys)
           w == RewardRow(m)
<1>1. /\ Valued(B) /\ w \in B /\ \A r \in B : r # w => r.from \in Keys
    BY DEF Rowed, ForPayment
<1>2. w.from \notin Keys /\ w.value = Reward /\ Reward \in Nat
    BY LedgerAssumption DEF RewardRow
<1>3. B = S \cup {w} /\ w \notin S /\ S \in SUBSET B
    BY <1>1, <1>2 DEF RowsOf
<1>4. SumValues(S) = SumValues(UsedOf(acc.used, Keys))
    <2>1. Keys \in SUBSET Keys
        OBVIOUS
    <2>2. QED
        BY <2>1, CostOf, Zenon
<1> HIDE DEF S, w
<1>5. Valued(S)
    BY <1>1, <1>3, SubsetValued
<1>6. SumValues(S \cup {w}) = SumValues(S) + Reward
    BY <1>2, <1>3, <1>5, SumAdd
<1>7. QED
    BY <1>3, <1>4, <1>6, Zenon

\* What a block takes from a payer is money of the payer.
LEMMA CostCovered ==
    ASSUME LedgerInv, NEW acc, Books(acc, Len(mempool)), NEW m, NEW B, Rowed(acc, m, B),
           NEW k \in Keys
    PROVE  /\ SumValues(RowsOf(B, {k})) <= Balance(k)
           /\ Valued(RowsOf(B, {k})) /\ Balance(k) \in Nat
<1> DEFINE U == UsedOf(acc.used, {k})
<1>1. TypeOK /\ Named /\ Queued /\ UnspentIsBalance
    BY DEF LedgerInv
<1>2. U \in SUBSET Unspent(k)
    BY <1>1, UsedUnspent
<1>3. Valued(Unspent(k))
    BY <1>1, LedgerValued, Unspent(k) \in SUBSET ledger DEF Unspent
<1>4. SumValues(Unspent(k)) = Balance(k)
    <2>1. Unspent(k) = {t \in ledger : t.to = k /\ t.id \notin Spent}
        BY DEF Unspent
    <2>2. QED
        BY <1>1, <2>1, Zenon DEF UnspentIsBalance
<1>5. SumValues(RowsOf(B, {k})) = SumValues(U)
    <2>1. {k} \in SUBSET Keys
        OBVIOUS
    <2>2. QED
        BY <1>1, <2>1, CostOf, Zenon
<1>6. Valued(RowsOf(B, {k}))
    <2>1. Valued(B) /\ RowsOf(B, {k}) \in SUBSET B
        BY DEF Rowed, RowsOf
    <2>2. QED
        BY <2>1, SubsetValued
<1> HIDE DEF U
<1>7. SumValues(U) <= SumValues(Unspent(k)) /\ SumValues(Unspent(k)) \in Nat
    BY <1>2, <1>3, SumSplit, SumType
<1>8. QED
    BY <1>4, <1>5, <1>6, <1>7

\* The block of payers with one payment each passes verifyBlock.
LEMMA SinglesFit ==
    ASSUME LedgerInv, NEW acc, Books(acc, Len(mempool)), NEW m, NEW B, Rowed(acc, m, B),
           Single(acc.rows), \A k \in Keys : ForkBalance(k) = Balance(k)
    PROVE  Accounted(B)
<1> DEFINE I == {t \in ledger : t.id \in Inputs(B)}
           U == UsedOf(acc.used, Keys)
<1>1. TypeOK /\ Named /\ Queued
    BY DEF LedgerInv
<1>2. /\ B = acc.rows \cup ChangeRows(acc.changes, Keys) \cup {RewardRow(m)}
      /\ \A r \in B : ~ Stored(r.id)
      /\ \A r \in B : r = RewardRow(m) \/ r.from \in Keys
    BY DEF Rowed, ForPayment
<1>3. RewardRow(m).from = Nobody
    BY DEF RewardRow
<1>4. PayersCovered(B)
    <2> SUFFICES ASSUME NEW r \in B, r.from # Nobody
                 PROVE  ForkBalance(r.from) >= r.value
        BY DEF PayersCovered
    <2> DEFINE k == r.from
               R == RowsOf(B, {k})
    <2>1. k \in Keys /\ r \in R
        BY <1>2, <1>3 DEF RowsOf
    <2>2. SumValues(R) <= Balance(k) /\ Valued(R) /\ Balance(k) \in Nat
        BY <2>1, CostCovered
    <2>3. ForkBalance(k) = Balance(k)
        BY <2>1
    <2> HIDE DEF R
    <2>4. SumValues(R) = r.value + SumValues(R \ {r})
        BY <2>1, <2>2, SumRemove
    <2>5. SumValues(R \ {r}) \in Nat /\ r.value \in Nat
        <3>1. R \ {r} \in SUBSET R
            OBVIOUS
        <3>2. Valued(R \ {r}) /\ r.value \in Nat
            BY <2>1, <2>2, <3>1, SubsetValued DEF Valued
        <3>3. QED
            BY <3>2, SumType
    <2>6. QED
        BY <2>2, <2>3, <2>4, <2>5
<1>5. InputsMatch(B)
    <2>1. I \subseteq U
        BY <1>1, SpentUsed
    <2>2. acc.used \subseteq UNION {r.inputs : r \in acc.rows}
        BY DEF Books, Listed
    <2>3. acc.used \subseteq Inputs(B)
        BY <1>2, <2>2 DEF Inputs
    <2>4. U \subseteq I
        BY <2>3 DEF UsedOf
    <2>5. I = U
        BY <2>1, <2>4
    <2>6. SumValues(B) = SumValues(U) + Reward
        BY <1>1, WorthOf
    <2>7. InputSum(B) = SumValues(I)
        BY Zenon DEF InputSum, Inputs
    <2>8. QED
        BY <2>5, <2>6, <2>7, Zenon DEF InputsMatch
<1>6. QED
    BY <1>2, <1>4, <1>5 DEF Accounted

\* When each payer has one payment in it, what putTxInBlock makes passes.
THEOREM SinglePaymentsFitAlways == Spec => []SinglePaymentsFit
<1>1. ASSUME LedgerInv PROVE SinglePaymentsFit
    <2> DEFINE acc == PutTxInBlock
    <2>1. Books(acc, Len(mempool))
        BY <1>1, LoopKeeps
    <2>2. TypeOK /\ Named /\ Queued
        BY <1>1 DEF LedgerInv
    <2>3. ASSUME Single(acc.rows), \A k \in Keys : ForkBalance(k) = Balance(k), NEW m \in Keys
          PROVE  Accounted(BlockOf(acc, m))
        <3> HIDE DEF acc
        <3>1. Rowed(acc, m, BlockOf(acc, m))
            BY <2>1, <2>2, BlockRowed
        <3>2. QED
            BY <1>1, <2>1, <2>3, <3>1, SinglesFit
    <2>4. QED
        BY <2>3 DEF SinglePaymentsFit, Single
<1>2. QED
    BY <1>1, LedgerInvAlways, PTL

-----------------------------------------------------------------------------
(* The mempool.                                                            *)

\* A payment that leaves the mempool in a round of the miner.
LEMMA MineDrops ==
    ASSUME LedgerInv, NEW m \in Keys, Mine(m), NEW j \in 1 .. Len(mempool),
           NEW p, p = mempool[j], ~ Stored(p.id), ~ Stored(p.id)',
           \A i \in 1 .. Len(mempool') : mempool'[i].id # p.id
    PROVE  Balance(p.from) < SumValues(Waiting(p.from, j))
<1> DEFINE acc == PutTxInBlock
           B == BlockOf(acc, m)
<1>1. KeptPool(acc, Len(mempool)) /\ acc.pool \in Seq(Payments)
    BY LoopKeeps DEF Books, Accs
<1>2. \/ Accounted(B) /\ ledger' = ledger \cup B /\ mempool' = Without(acc.pool, B)
      \/ mempool' = acc.pool
    BY DEF Mine
<1> HIDE DEF acc, B
<1> SUFFICES ASSUME NEW x \in 1 .. Len(acc.pool), acc.pool[x] = p PROVE FALSE
    BY <1>1 DEF KeptPool
<1>3. CASE mempool' = acc.pool
    BY <1>3
<1>4. CASE ledger' = ledger \cup B /\ mempool' = Without(acc.pool, B)
    <2> DEFINE q == Without(acc.pool, B)
    <2>1. Filtered(q, acc.pool, B, Len(acc.pool))
        BY <1>1, WithoutFilters
    <2>2. mempool' = q
        BY <1>4
    <2> HIDE DEF q
    <2>3. InBlock(B, p)
        BY <2>1, <2>2, ZenonT(60) DEF Filtered
    <2>4. PICK r \in B : r.id = p.id
        BY <2>3 DEF InBlock
    <2>5. Stored(p.id)'
        BY <1>4, <2>4 DEF Stored
    <2>6. QED
        BY <2>5
<1>5. QED
    BY <1>2, <1>3, <1>4

\* The mempool loses a payment without storing it only when its payer cannot
\* cover it after the payments that came before it.
THEOREM CoveredPaymentKeptAlways == Spec => CoveredPaymentKept
<1> DEFINE Kept == \A j \in 1 .. Len(mempool) : \A p \in {mempool[j]} :
                       /\ ~ Stored(p.id) /\ ~ Stored(p.id)'
                       /\ \A i \in 1 .. Len(mempool') : mempool'[i].id # p.id
                       => Balance(p.from) < SumValues(Waiting(p.from, j))
<1>1. ASSUME LedgerInv, [Next]_vars PROVE [Kept]_vars
    <2>1. ASSUME NEW j \in 1 .. Len(mempool), NEW p, p = mempool[j],
                 ~ Stored(p.id), ~ Stored(p.id)',
                 \A i \in 1 .. Len(mempool') : mempool'[i].id # p.id, ~ UNCHANGED vars
          PROVE  Balance(p.from) < SumValues(Waiting(p.from, j))
        <3>1. mempool \in Seq(Payments)
            BY <1>1 DEF LedgerInv, TypeOK
        <3>2. ASSUME NEW q, mempool' = Append(mempool, q) PROVE FALSE
            <4>1. j \in 1 .. Len(mempool') /\ mempool'[j] = mempool[j]
                BY <3>1, <3>2
            <4>2. QED
                BY <2>1, <4>1
        <3>3. CASE \E k, to \in Keys, v \in Values : Pay(k, to, v)
            BY <3>2, <3>3 DEF Pay
        <3>4. CASE \E t \in ledger : PayAgain(t)
            BY <3>2, <3>4 DEF PayAgain
        <3>5. CASE \E m \in Keys : Mine(m)
            BY <1>1, <2>1, <3>5, MineDrops
        <3>6. QED
            BY <1>1, <2>1, <3>3, <3>4, <3>5 DEF Next
    <2>2. QED
        BY <2>1
<1>2. QED
    BY <1>1, LedgerInvAlways, PTL DEF Spec, CoveredPaymentKept

-----------------------------------------------------------------------------
(* The account book.                                                       *)

\* The account book sums as the ledger does.
LEMMA TotalIsSum == \A S : Book!Total(S) = SumValues(S)
BY Zenon DEF Book!Total, SumValues, MapThenSumSet, Book!MapThenSumSet, MapThenFoldSet, Book!MapThenFoldSet

\* The payments among rows, as the account book names them.
PaymentsIn(L) == {AsPayment(t) : t \in {r \in L : Len(r.id) = 1}}
AsPayments(P) == {AsPayment(r) : r \in P}

\* What is given and earned by payments is so by their rows.
LEMMA SameMoney ==
    ASSUME NEW P, Valued(P), \A r, s \in P : r.id = s.id => r = s, NEW k
    PROVE  /\ SumValues(Given(AsPayments(P), k)) = SumValues(Given(P, k))
           /\ SumValues(Earned(AsPayments(P), k)) = SumValues(Earned(P, k))
<1> DEFINE f == [r \in P |-> AsPayment(r)]
<1>1. \A r \in P : /\ f[r] = AsPayment(r) /\ f[r].value = r.value
                   /\ f[r].id = r.id /\ f[r].from = r.from /\ f[r].to = r.to
    BY DEF AsPayment
<1>2. AsPayments(P) = {f[r] : r \in P}
    BY <1>1 DEF AsPayments
<1> HIDE DEF f
<1>3. \A r, s \in P : f[r] = f[s] => r = s
    <2> SUFFICES ASSUME NEW r \in P, NEW s \in P, f[r] = f[s] PROVE r = s
        OBVIOUS
    <2>1. r.id = f[s].id
        BY <1>1
    <2>2. QED
        BY <1>1, <2>1
<1>4. ASSUME NEW S \in SUBSET P
      PROVE  SumValues({f[r] : r \in S}) = SumValues(S)
    <2>1. Valued(S)
        BY SubsetValued
    <2>2. (\A x \in S : f[x].value = x.value) /\ (\A x, y \in S : f[x] = f[y] => x = y)
        BY <1>1, <1>3
    <2>3. QED
        BY <2>1, <2>2, SumImage
<1>5. /\ Given(AsPayments(P), k) = {f[r] : r \in Given(P, k)}
      /\ Earned(AsPayments(P), k) = {f[r] : r \in Earned(P, k)}
    BY <1>1, <1>2 DEF Given, Earned
<1>6. Given(P, k) \in SUBSET P /\ Earned(P, k) \in SUBSET P
    BY DEF Given, Earned
<1>7. QED
    BY <1>4, <1>5, <1>6

\* The payments that a block adds.
LEMMA BlockSettles ==
    ASSUME NEW acc, NEW m, NEW B, Rowed(acc, m, B), NEW L, Grown(L, B)
    PROVE  /\ PaymentsIn(ledger) \subseteq PaymentsIn(L)
           /\ PaymentsIn(L) \ PaymentsIn(ledger) = AsPayments(acc.rows)
<1> DEFINE P == acc.rows
<1>1. /\ B = P \cup ChangeRows(acc.changes, Keys) \cup {RewardRow(m)}
      /\ \A r \in P : r.id \in Paid /\ ~ Stored(r.id)
      /\ \A r \in ChangeRows(acc.changes, Keys) \cup {RewardRow(m)} : r.id = OwnId(height + 1, r.from)
    BY DEF Rowed, ForPayment, OfBlock
<1>2. \A r \in P : Len(r.id) = 1
    <2>1. \A n \in 1 .. paid : Len(PaymentId(n)) = 1
        BY DEF PaymentId
    <2>2. QED
        BY <1>1, <2>1 DEF Paid
<1>3. \A r \in ChangeRows(acc.changes, Keys) \cup {RewardRow(m)} : Len(r.id) = 2
    <2>1. \A k : Len(OwnId(height + 1, k)) = 2
        BY DEF OwnId
    <2>2. QED
        BY <1>1, <2>1
<1>4. {r \in L : Len(r.id) = 1} = {r \in ledger : Len(r.id) = 1} \cup P
    BY <1>1, <1>2, <1>3 DEF Grown
<1>5. \A r : AsPayment(r).id = r.id
    BY DEF AsPayment
<1>6. PaymentsIn(L) = PaymentsIn(ledger) \cup AsPayments(P)
    BY <1>4 DEF PaymentsIn, AsPayments
<1>7. \A p \in AsPayments(P) : p \notin PaymentsIn(ledger)
    <2> SUFFICES ASSUME NEW r \in P, NEW t \in ledger, AsPayment(r) = AsPayment(t) PROVE FALSE
        BY DEF AsPayments, PaymentsIn
    <2>1. r.id = t.id
        BY <1>5
    <2>2. QED
        BY <1>1, <2>1 DEF Stored
<1>8. QED
    BY <1>6, <1>7

\* What a block gives and earns: its payments, and the reward.
LEMMA BlockMoney ==
    ASSUME NEW acc, NEW m \in Keys, NEW B, Rowed(acc, m, B), NEW k \in Keys
    PROVE  /\ Given(B, k) = Given(acc.rows, k)
           /\ SumValues(Earned(B, k)) = SumValues(Earned(acc.rows, k)) + IF k = m THEN Reward ELSE 0
           /\ SumValues(Earned(acc.rows, k)) \in Nat
<1> DEFINE P == acc.rows
           w == RewardRow(m)
<1>1. /\ B = P \cup ChangeRows(acc.changes, Keys) \cup {w}
      /\ Valued(P) /\ w \notin P
      /\ \A r \in ChangeRows(acc.changes, Keys) : r.to = r.from
    BY DEF Rowed
<1>2. w.from = Nobody /\ w.to = m /\ w.value = Reward /\ Reward \in Nat /\ Nobody # k
    BY LedgerAssumption DEF RewardRow
<1> HIDE DEF w
<1>3. Given(B, k) = Given(P, k)
    BY <1>1, <1>2 DEF Given
<1>4. Earned(B, k) = Earned(P, k) \cup IF k = m THEN {w} ELSE {}
    BY <1>1, <1>2 DEF Earned
<1>5. Valued(Earned(P, k)) /\ w \notin Earned(P, k)
    <2>1. Earned(P, k) \in SUBSET P
        BY DEF Earned
    <2>2. QED
        BY <1>1, <2>1, SubsetValued
<1>6. SumValues(Earned(P, k)) \in Nat
    BY <1>5, SumType
<1>7. CASE k = m
    <2>1. SumValues(Earned(P, k) \cup {w}) = SumValues(Earned(P, k)) + Reward
        BY <1>2, <1>5, SumAdd
    <2>2. QED
        BY <1>3, <1>4, <1>6, <1>7, <2>1
<1>8. CASE k # m
    <2>1. Earned(B, k) = Earned(P, k)
        BY <1>4, <1>8
    <2>2. QED
        BY <1>3, <1>6, <1>8, <2>1
<1>9. QED
    BY <1>7, <1>8

\* The arithmetic of an account.
LEMMA AccountOf ==
    ASSUME NEW earned \in Nat, NEW given \in Nat, NEW got \in Nat, NEW sent \in Nat,
           NEW reward \in Nat, NEW balance, balance = earned - given
    PROVE  (earned + (got + reward)) - (given + sent) = balance - sent + got + reward
OBVIOUS

\* What each key has after a block, in the words of the account book.
LEMMA BookMoney ==
    ASSUME LedgerInv, NEW acc, Books(acc, Len(mempool)), NEW m \in Keys, NEW B, Rowed(acc, m, B),
           NEW k \in Keys, NEW L, Grown(L, B)
    PROVE  /\ SumValues(Given(AsPayments(acc.rows), k)) <= Balance(k)
           /\ SumValues(Earned(L, k)) - SumValues(Given(L, k))
                = Balance(k) - SumValues(Given(AsPayments(acc.rows), k))
                  + SumValues(Earned(AsPayments(acc.rows), k))
                  + IF k = m THEN Reward ELSE 0
<1> DEFINE P == acc.rows
<1>1. /\ Valued(P) /\ Valued(B)
      /\ \A r \in B : ~ Stored(r.id)
    BY DEF Rowed
<1>2. \A r, s \in P : r.id = s.id => r = s
    BY DEF Books, Drawn
<1>3. /\ SumValues(Given(AsPayments(P), k)) = SumValues(Given(P, k))
      /\ SumValues(Earned(AsPayments(P), k)) = SumValues(Earned(P, k))
    BY <1>1, <1>2, SameMoney
<1>4. /\ Given(B, k) = Given(P, k)
      /\ SumValues(Earned(B, k)) = SumValues(Earned(P, k)) + IF k = m THEN Reward ELSE 0
      /\ SumValues(Earned(P, k)) \in Nat
    BY BlockMoney
<1>5. Valued(ledger) /\ ledger \cap B = {}
    <2>1. Valued(ledger)
        BY LedgerValued DEF LedgerInv
    <2>2. QED
        BY <1>1, <2>1 DEF Stored
<1>6. L = ledger \cup B
    BY DEF Grown
<1>7. /\ SumValues(Earned(ledger \cup B, k)) = SumValues(Earned(ledger, k)) + SumValues(Earned(B, k))
      /\ SumValues(Given(ledger \cup B, k)) = SumValues(Given(ledger, k)) + SumValues(Given(B, k))
      /\ SumValues(Earned(ledger, k)) \in Nat /\ SumValues(Given(ledger, k)) \in Nat
      /\ SumValues(Given(B, k)) \in Nat
    BY <1>1, <1>5, EarnedOf
<1>8. Balance(k) = SumValues(Earned(ledger, k)) - SumValues(Given(ledger, k))
    BY Zenon DEF Balance, Earned, Given
<1>9. SumValues(Given(P, k)) <= Balance(k)
    <2>1. SumValues(RowsOf(B, {k})) <= Balance(k) /\ Valued(RowsOf(B, {k})) /\ Balance(k) \in Nat
        BY CostCovered
    <2>2. Given(B, k) \in SUBSET RowsOf(B, {k})
        BY DEF Given, RowsOf
    <2>3. SumValues(Given(B, k)) <= SumValues(RowsOf(B, {k})) /\ SumValues(RowsOf(B, {k})) \in Nat
        BY <2>1, <2>2, SumSplit, SumType
    <2>4. QED
        BY <1>4, <1>7, <2>1, <2>3
<1> DEFINE earned == SumValues(Earned(ledger, k))
           given == SumValues(Given(ledger, k))
           got == SumValues(Earned(P, k))
           sent == SumValues(Given(P, k))
           reward == IF k = m THEN Reward ELSE 0
           earnedNew == SumValues(Earned(L, k))
           givenNew == SumValues(Given(L, k))
<1>10. reward \in Nat
    BY LedgerAssumption
<1>11. /\ earned \in Nat /\ given \in Nat /\ got \in Nat /\ sent \in Nat
       /\ earnedNew = earned + (got + reward) /\ givenNew = given + sent
    BY <1>4, <1>6, <1>7, Zenon
<1>12. Balance(k) = earned - given
    BY <1>8, Zenon
<1> HIDE DEF earned, given, got, sent, reward, earnedNew, givenNew
<1>13. earnedNew - givenNew = Balance(k) - sent + got + reward
    BY <1>10, <1>11, <1>12, AccountOf
<1>14. QED
    BY <1>3, <1>9, <1>13, Zenon DEF sent, got, reward, earnedNew, givenNew

\* The account book starts empty.
LEMMA BookStarts ==
    ASSUME Init
    PROVE  Book!BookInit
<1> DEFINE g == [id |-> OwnId(1, Nobody), block |-> 1, from |-> Nobody, to |-> Nobody,
                 value |-> Reward, inputs |-> {}]
<1>1. ledger = {g} /\ g.id = OwnId(1, Nobody) /\ g.from = Nobody /\ g.to = Nobody
    BY DEF Init
<1> HIDE DEF g
<1>2. Settled = {}
    <2>1. Len(OwnId(1, Nobody)) = 2
        BY DEF OwnId
    <2>2. Len(g.id) # 1
        BY <1>1, <2>1
    <2>3. QED
        BY <1>1, <2>2 DEF Settled
<1>3. \A k \in Keys : Balance(k) = 0
    <2> SUFFICES ASSUME NEW k \in Keys PROVE Balance(k) = 0
        OBVIOUS
    <2>1. Nobody # k
        BY LedgerAssumption
    <2>2. {t \in ledger : t.to = k /\ t.from # k} = {} /\ {t \in ledger : t.from = k /\ t.to # k} = {}
        BY <1>1, <2>1
    <2>3. Balance(k) = 0 - 0
        BY <2>2, SumEmpty, Zenon DEF Balance
    <2>4. QED
        BY <2>3
<1>4. QED
    BY <1>2, <1>3 DEF Book!BookInit

\* A stored block is a step of the account book.
LEMMA BookMines ==
    ASSUME LedgerInv, NEW m \in Keys, NEW acc, Books(acc, Len(mempool)), NEW B, Rowed(acc, m, B),
           ledger' = ledger \cup B
    PROVE  Book!Settle(m)
<1> DEFINE N == AsPayments(acc.rows)
<1>1. PICK L : L = ledger'
    OBVIOUS
<1>2. Grown(L, B)
    BY <1>1 DEF Grown
<1>3. Settled = PaymentsIn(ledger) /\ Settled' = PaymentsIn(L)
    BY <1>1, Zenon DEF Settled, PaymentsIn, AsPayment
<1>4. Settled \subseteq Settled' /\ Settled' \ Settled = N
    BY <1>2, <1>3, BlockSettles
<1>5. ASSUME NEW k \in Keys
      PROVE  /\ SumValues(Given(N, k)) <= Balance(k)
             /\ Balance(k)' = Balance(k) - SumValues(Given(N, k)) + SumValues(Earned(N, k))
                              + IF k = m THEN Reward ELSE 0
    <2>1. Balance(k)' = SumValues(Earned(L, k)) - SumValues(Given(L, k))
        BY <1>1, Zenon DEF Balance, Earned, Given
    <2>2. QED
        BY <1>2, <2>1, BookMoney
<1> HIDE DEF N
<1>6. \A k : /\ Book!Total({p \in N : p.from = k /\ p.to # k}) = SumValues(Given(N, k))
             /\ Book!Total({p \in N : p.to = k /\ p.from # k}) = SumValues(Earned(N, k))
    BY TotalIsSum, Zenon DEF Given, Earned
<1> DEFINE sent(k) == SumValues(Given(N, k))
           got(k) == SumValues(Earned(N, k))
<1>7. \A k \in Keys : /\ sent(k) <= [j \in Keys |-> Balance(j)][k]
                      /\ Balance(k)' = [j \in Keys |-> Balance(j)][k] - sent(k) + got(k)
                                       + IF k = m THEN Reward ELSE 0
    BY <1>5
<1>8. [k \in Keys |-> Balance(k)]'
          = [k \in Keys |-> [j \in Keys |-> Balance(j)][k] - sent(k) + got(k)
                            + IF k = m THEN Reward ELSE 0]
    BY <1>7
<1>9. QED
    BY <1>4, <1>6, <1>7, <1>8 DEF Book!Settle

\* putTxInBlock and verifyBlock together implement the account book.
THEOREM ImplementsAccountBookAlways == Spec => ImplementsAccountBook
<1> DEFINE money == [k \in Keys |-> Balance(k)]
<1>1. Init => Book!BookInit
    BY BookStarts
<1>2. ASSUME LedgerInv, [Next]_vars
      PROVE  (\E m \in Keys : Book!Settle(m)) \/ UNCHANGED <<money, Settled>>
    <2>1. CASE ledger' = ledger
        <3>1. Settled' = Settled
            BY <2>1 DEF Settled
        <3>2. \A k \in Keys : Balance(k)' = Balance(k)
            BY <2>1, Zenon DEF Balance
        <3>3. money' = money
            BY <3>2
        <3>4. QED
            BY <3>1, <3>3
    <2>2. CASE \E m \in Keys : Mine(m)
        <3>1. PICK m \in Keys : Mine(m)
            BY <2>2
        <3> DEFINE acc == PutTxInBlock
                   B == BlockOf(acc, m)
        <3>2. ledger' = ledger \cup B \/ ledger' = ledger
            BY <3>1 DEF Mine
        <3>3. Books(acc, Len(mempool))
            BY <1>2, LoopKeeps
        <3> HIDE DEF acc
        <3>4. Rowed(acc, m, B)
            BY <1>2, <3>3, BlockRowed DEF LedgerInv
        <3> HIDE DEF B
        <3>5. CASE ledger' = ledger \cup B
            BY <1>2, <3>3, <3>4, <3>5, BookMines
        <3>6. QED
            BY <2>1, <3>2, <3>5
    <2>3. QED
        BY <1>2, <2>1, <2>2 DEF Next, Pay, PayAgain, vars
<1>3. QED
    BY <1>1, <1>2, LedgerInvAlways, PTL DEF Spec, ImplementsAccountBook, Book!BookSpec
=============================================================================
