------------------------------ MODULE EngineProofs ------------------------------
(***************************************************************************)
(* The two indexes of Engine follow the documents of the store: what the   *)
(* operations of VectorIndex and TextIndex do to an index, the invariant   *)
(* that relates both to the store at every step of a call, of a stop and   *)
(* of the rebuild on open, and the theorems it gives.                      *)
(***************************************************************************)
EXTENDS Engine, SequenceTheorems, FiniteSetTheorems, WellFoundedInduction, TLAPS

---------------------------------------------------------------------------
(* Naturals *)

\* Induction up to n, with the set of the numbers that have the property.
LEMMA UpTo ==
    ASSUME NEW n \in Nat, NEW S, 0 \in S, \A i \in 0 .. n - 1 : i \in S => i + 1 \in S
    PROVE  \A i \in 0 .. n : i \in S
<1> DEFINE T == {i \in 0 .. n : i \notin S}
           R == {ss \in Nat \X Nat : ss[1] < ss[2]}
<1>1. IsWellFoundedOn(R, Nat)
    BY NatLessThanWellFounded DEF OpToRel
<1>2. T \subseteq Nat
    OBVIOUS
<1>3. ASSUME T # {} PROVE FALSE
    <2>1. PICK m \in T : \A y \in T : ~ (<<y, m>> \in R)
        <3> HIDE DEF R, T
        <3> QED BY <1>1, <1>2, <1>3, WFMin
    <2>2. m \in 1 .. n
        OBVIOUS
    <2>3. m - 1 \in 0 .. n - 1 /\ <<m - 1, m>> \in R
        BY <2>2
    <2>4. m - 1 \in 0 .. n
        BY <2>2
    <2>5. m - 1 \in S
        BY <2>1, <2>3, <2>4
    <2>6. (m - 1) + 1 = m
        BY <2>2
    <2> QED BY <2>3, <2>5, <2>6
<1> QED BY <1>3

\* Rows before one another do not overlap.
LEMMA RowsApart ==
    ASSUME NEW i \in Int, NEW j \in Int, i < j, NEW d \in Nat
    PROVE  i * d \in Int /\ j * d \in Int /\ i * d + d <= j * d
<1>1. (j - i - 1) * d >= 0
    <2>1. j - i - 1 \in Nat
        OBVIOUS
    <2> QED BY <2>1
<1>2. (j - i - 1) * d = j * d - i * d - d
    OBVIOUS
<1>3. i * d \in Int /\ j * d \in Int
    OBVIOUS
<1> QED BY <1>1, <1>2, <1>3

\* A product grows with its first factor.
LEMMA ProductMonotone ==
    ASSUME NEW a \in Nat, NEW b \in Nat, NEW c \in Nat, a <= b
    PROVE  a * c <= b * c /\ a * c \in Nat /\ b * c \in Nat
<1>1. (b - a) * c >= 0
    <2>1. b - a \in Nat
        OBVIOUS
    <2> QED BY <2>1
<1>2. (b - a) * c = b * c - a * c
    OBVIOUS
<1> QED BY <1>1, <1>2

---------------------------------------------------------------------------
(* Sums *)

\* One step of the fold Sum is defined by: it takes some element of the set.
FoldStep(f, g, s) ==
    IF s = {} THEN 0 ELSE f[CHOOSE x \in s : TRUE] + g[s \ {CHOOSE x \in s : TRUE}]

\* The fold of f, on all subsets of D.
IsFold(f, D, g) == g = [s \in SUBSET D |-> FoldStep(f, g, s)]

FoldOf(f, D) == CHOOSE g : IsFold(f, D, g)

LEMMA SumIsFold ==
    ASSUME NEW f
    PROVE  Sum(f) = FoldOf(f, DOMAIN f)[DOMAIN f]
BY DEF Sum, SumFunction, SumFunctionOnSet, FoldFunctionOnSet, MapThenFoldSet,
       FoldOf, IsFold, FoldStep

\* A set without the element the fold takes.
LEMMA Smaller ==
    ASSUME NEW D, IsFiniteSet(D), NEW s \in SUBSET D, s # {}, NEW x \in s
    PROVE  /\ s \ {x} \in SUBSET D
           /\ Cardinality(s) \in Nat
           /\ Cardinality(s \ {x}) = Cardinality(s) - 1
           /\ Cardinality(s) # 0
<1>1. IsFiniteSet(s) /\ Cardinality(s) \in Nat
    BY FS_Subset, FS_CardinalityType
<1>2. Cardinality(s \ {x}) = Cardinality(s) - 1
    BY <1>1, FS_RemoveElement
<1>3. Cardinality(s) # 0
    BY <1>1, FS_EmptySet
<1> QED BY <1>1, <1>2, <1>3

LEMMA FoldExists ==
    ASSUME NEW f, NEW D, IsFiniteSet(D)
    PROVE  \E g : IsFold(f, D, g)
<1> DEFINE upTo(n, g) == /\ g = [s \in SUBSET D |-> g[s]]
                         /\ \A s \in SUBSET D :
                               Cardinality(s) <= n => g[s] = FoldStep(f, g, s)
           size == Cardinality(D)
           good == {n \in 0 .. size : \E g : upTo(n, g)}
<1>1. size \in Nat /\ \A s \in SUBSET D : Cardinality(s) \in Nat /\ Cardinality(s) <= size
    BY FS_CardinalityType, FS_Subset
<1>2. 0 \in good
    <2> DEFINE g == [s \in SUBSET D |-> 0]
    <2>1. \A s \in SUBSET D : Cardinality(s) <= 0 => s = {}
        <3> SUFFICES ASSUME NEW s \in SUBSET D, Cardinality(s) <= 0 PROVE s = {}
            OBVIOUS
        <3>1. IsFiniteSet(s) /\ Cardinality(s) = 0
            BY <1>1, FS_Subset
        <3> QED BY <3>1, FS_EmptySet
    <2>2. upTo(0, g)
        BY <2>1 DEF FoldStep
    <2> HIDE DEF upTo, g, size
    <2> QED BY <1>1, <2>2
<1>3. ASSUME NEW n \in 0 .. size - 1, n \in good PROVE n + 1 \in good
    <2>1. PICK g : upTo(n, g)
        BY <1>3
    <2> DEFINE h == [s \in SUBSET D |-> IF Cardinality(s) <= n THEN g[s] ELSE FoldStep(f, g, s)]
    <2>2. ASSUME NEW s \in SUBSET D, Cardinality(s) <= n + 1
          PROVE  FoldStep(f, h, s) = FoldStep(f, g, s)
        <3>1. CASE s = {}
            BY <3>1 DEF FoldStep
        <3>2. CASE s # {}
            <4> DEFINE x == CHOOSE x \in s : TRUE
            <4>1. x \in s
                BY <3>2
            <4> HIDE DEF x
            <4>2. s \ {x} \in SUBSET D /\ Cardinality(s \ {x}) = Cardinality(s) - 1
                BY <3>2, <4>1, Smaller
            <4>3. Cardinality(s \ {x}) <= n
                BY <1>1, <2>2, <4>2
            <4>4. h[s \ {x}] = g[s \ {x}]
                BY <4>2, <4>3
            <4> HIDE DEF h
            <4> QED BY <3>2, <4>4 DEF FoldStep, x
        <3> QED BY <3>1, <3>2
    <2>3. \A s \in SUBSET D : h[s] = FoldStep(f, g, s) \/ ~ (Cardinality(s) <= n + 1)
        BY <2>1
    <2>4. \A s \in SUBSET D : Cardinality(s) <= n + 1 => h[s] = FoldStep(f, h, s)
        <3> HIDE DEF h
        <3> QED BY <2>2, <2>3
    <2>5. h = [s \in SUBSET D |-> h[s]]
        OBVIOUS
    <2> HIDE DEF h
    <2>6. upTo(n + 1, h)
        BY <2>4, <2>5
    <2>7. n + 1 \in 0 .. size
        BY <1>1
    <2> HIDE DEF upTo, size
    <2> QED BY <2>6, <2>7
<1>4. \A n \in 0 .. size : n \in good
    <2> HIDE DEF good, size
    <2> QED BY <1>1, <1>2, <1>3, UpTo
<1>5. PICK g : upTo(size, g)
    <2>1. size \in good
        <3> HIDE DEF good, size
        <3> QED BY <1>1, <1>4
    <2> QED BY <2>1
<1>6. \A s \in SUBSET D : g[s] = FoldStep(f, g, s)
    BY <1>1, <1>5
<1>7. g = [s \in SUBSET D |-> g[s]]
    BY <1>5
<1> HIDE DEF upTo, good, size
<1>8. IsFold(f, D, g)
    BY <1>6, <1>7 DEF IsFold
<1> QED BY <1>8

\* A fold takes any element of a set first; N has all terms and sums.
TakesAny(N, f, D, g) ==
    /\ g[{}] = 0
    /\ \A s \in SUBSET D :
          g[s] \in N /\ \A x \in s : g[s] = f[x] + g[s \ {x}]

LEMMA FoldTakesAny ==
    ASSUME NEW N, N = Nat \/ N = Int,
           NEW D, IsFiniteSet(D), NEW f, \A d \in D : f[d] \in N, NEW g, IsFold(f, D, g)
    PROVE  TakesAny(N, f, D, g)
<1> DEFINE right(s) == g[s] \in N /\ \A x \in s : g[s] = f[x] + g[s \ {x}]
           size == Cardinality(D)
           good == {n \in 0 .. size : \A s \in SUBSET D : Cardinality(s) <= n => right(s)}
<1>1. size \in Nat /\ \A s \in SUBSET D : Cardinality(s) \in Nat /\ Cardinality(s) <= size
    BY FS_CardinalityType, FS_Subset
<1>2. \A s \in SUBSET D : g[s] = FoldStep(f, g, s)
    BY DEF IsFold
<1>3. g[{}] = 0 /\ 0 \in N /\ (\A a, b \in N : a + b \in N) /\ \A a \in N : a \in Int
    <2>1. 0 \in N /\ (\A a, b \in N : a + b \in N) /\ \A a \in N : a \in Int
        <3>1. CASE N = Nat
            BY <3>1
        <3>2. CASE N = Int
            BY <3>2
        <3> QED BY <3>1, <3>2
    <2> QED BY <1>2, <2>1 DEF FoldStep
<1>4. 0 \in good
    <2> SUFFICES ASSUME NEW s \in SUBSET D, Cardinality(s) <= 0 PROVE right(s)
        BY <1>1
    <2>1. IsFiniteSet(s) /\ Cardinality(s) = 0
        BY <1>1, FS_Subset
    <2>2. s = {}
        BY <2>1, FS_EmptySet
    <2> QED BY <1>3, <2>2
<1>5. ASSUME NEW n \in 0 .. size - 1, n \in good PROVE n + 1 \in good
    <2>1. n + 1 \in 0 .. size
        BY <1>1
    <2> HIDE DEF size
    <2> SUFFICES ASSUME NEW s \in SUBSET D, Cardinality(s) <= n + 1 PROVE right(s)
        BY <2>1
    <2>2. CASE s = {}
        BY <1>3, <2>2
    <2>3. CASE s # {}
        <3> DEFINE c == CHOOSE x \in s : TRUE
        <3>1. c \in s
            BY <2>3
        <3>2. g[s] = f[c] + g[s \ {c}]
            BY <1>2, <2>3 DEF FoldStep
        <3> HIDE DEF c
        <3>3. ASSUME NEW x \in s PROVE right(s \ {x}) /\ s \ {x} \in SUBSET D
            <4>1. /\ s \ {x} \in SUBSET D /\ Cardinality(s) \in Nat
                  /\ Cardinality(s \ {x}) = Cardinality(s) - 1
                BY <2>3, Smaller
            <4>2. Cardinality(s \ {x}) <= n
                BY <4>1
            <4> QED BY <1>5, <4>1, <4>2
        <3>4. f[c] \in N /\ g[s \ {c}] \in N
            BY <3>1, <3>3
        <3>5. g[s] \in N
            BY <1>3, <3>2, <3>4
        <3>6. ASSUME NEW x \in s, x # c PROVE g[s] = f[x] + g[s \ {x}]
            <4>1. g[s \ {c}] = f[x] + g[(s \ {c}) \ {x}]
                BY <3>1, <3>3, <3>6
            <4>2. g[s \ {x}] = f[c] + g[(s \ {x}) \ {c}]
                BY <3>1, <3>3, <3>6
            <4>3. (s \ {c}) \ {x} = (s \ {x}) \ {c}
                OBVIOUS
            <4> DEFINE rest == g[(s \ {x}) \ {c}]
            <4>4. rest \in N
                <5>1. Cardinality(s) \in Nat /\ Cardinality(s \ {x}) = Cardinality(s) - 1
                      /\ s \ {x} \in SUBSET D /\ c \in s \ {x}
                    BY <2>3, <3>1, <3>6, Smaller
                <5>2. /\ (s \ {x}) \ {c} \in SUBSET D
                      /\ Cardinality((s \ {x}) \ {c}) = Cardinality(s \ {x}) - 1
                    BY <5>1, Smaller
                <5>3. Cardinality((s \ {x}) \ {c}) <= n
                    BY <5>1, <5>2
                <5> QED BY <1>5, <5>2, <5>3
            <4>5. f[x] \in N /\ f[c] \in N
                BY <3>1
            <4>6. g[s] = f[c] + (f[x] + rest) /\ g[s \ {x}] = f[c] + rest
                BY <3>2, <4>1, <4>2, <4>3
            <4> HIDE DEF rest
            <4>7. rest \in Int /\ f[x] \in Int /\ f[c] \in Int
                BY <1>3, <4>4, <4>5
            <4> QED BY <4>6, <4>7
        <3> QED BY <3>2, <3>5, <3>6
    <2> QED BY <2>2, <2>3
<1>6. \A n \in 0 .. size : n \in good
    <2> HIDE DEF good, size
    <2> QED BY <1>1, <1>4, <1>5, UpTo
<1>7. size \in good
    <2> HIDE DEF good, size
    <2> QED BY <1>1, <1>6
<1>8. \A s \in SUBSET D : right(s)
    BY <1>1, <1>7
<1> QED BY <1>3, <1>8 DEF TakesAny

\* Folds of functions that agree on a set agree on its subsets.
LEMMA SameFold ==
    ASSUME NEW D, IsFiniteSet(D), NEW f, NEW g, IsFold(f, D, g),
           NEW E, IsFiniteSet(E), NEW f2, NEW g2, IsFold(f2, E, g2),
           E \subseteq D, \A d \in E : f[d] = f2[d]
    PROVE  g[E] = g2[E]
<1> DEFINE size == Cardinality(E)
           good == {n \in 0 .. size : \A s \in SUBSET E : Cardinality(s) <= n => g[s] = g2[s]}
<1>1. size \in Nat /\ \A s \in SUBSET E : Cardinality(s) \in Nat /\ Cardinality(s) <= size
    BY FS_CardinalityType, FS_Subset
<1>2. \A s \in SUBSET E : g[s] = FoldStep(f, g, s) /\ g2[s] = FoldStep(f2, g2, s)
    BY DEF IsFold
<1>3. 0 \in good
    <2> SUFFICES ASSUME NEW s \in SUBSET E, Cardinality(s) <= 0 PROVE g[s] = g2[s]
        BY <1>1
    <2>1. IsFiniteSet(s) /\ Cardinality(s) = 0
        BY <1>1, FS_Subset
    <2>2. s = {}
        BY <2>1, FS_EmptySet
    <2> QED BY <1>2, <2>2 DEF FoldStep
<1>4. ASSUME NEW n \in 0 .. size - 1, n \in good PROVE n + 1 \in good
    <2>1. n + 1 \in 0 .. size
        BY <1>1
    <2> HIDE DEF size
    <2> SUFFICES ASSUME NEW s \in SUBSET E, Cardinality(s) <= n + 1 PROVE g[s] = g2[s]
        BY <2>1
    <2>2. CASE s = {}
        BY <1>2, <2>2 DEF FoldStep
    <2>3. CASE s # {}
        <3> DEFINE c == CHOOSE x \in s : TRUE
        <3>1. c \in s
            BY <2>3
        <3>2. g[s] = f[c] + g[s \ {c}] /\ g2[s] = f2[c] + g2[s \ {c}]
            BY <1>2, <2>3 DEF FoldStep
        <3> HIDE DEF c
        <3>3. /\ s \ {c} \in SUBSET E /\ Cardinality(s) \in Nat
              /\ Cardinality(s \ {c}) = Cardinality(s) - 1
            BY <2>3, <3>1, Smaller
        <3>4. Cardinality(s \ {c}) <= n
            BY <3>3
        <3>5. g[s \ {c}] = g2[s \ {c}]
            BY <1>4, <3>3, <3>4
        <3> QED BY <3>1, <3>2, <3>5
    <2> QED BY <2>2, <2>3
<1>5. \A n \in 0 .. size : n \in good
    <2> HIDE DEF good, size
    <2> QED BY <1>1, <1>3, <1>4, UpTo
<1>6. size \in good
    <2> HIDE DEF good, size
    <2> QED BY <1>1, <1>5
<1> QED BY <1>1, <1>6

\* A function on all of its domain but x.
Without(f, x) == [d \in DOMAIN f \ {x} |-> f[d]]

\* A sum is any one of its terms and the sum of the others.
LEMMA SumOfAny ==
    ASSUME NEW N, N = Nat \/ N = Int,
           NEW D, IsFiniteSet(D), NEW f, DOMAIN f = D, \A d \in D : f[d] \in N
    PROVE  /\ Sum(f) \in N
           /\ D = {} => Sum(f) = 0
           /\ \A x \in D : Sum(f) = f[x] + Sum(Without(f, x)) /\ Sum(Without(f, x)) \in N
<1> DEFINE g == FoldOf(f, D)
<1>1. Sum(f) = g[D]
    BY SumIsFold
<1>2. IsFold(f, D, g)
    BY FoldExists DEF FoldOf
<1> HIDE DEF g
<1>3. /\ g[{}] = 0
      /\ \A s \in SUBSET D : g[s] \in N /\ \A x \in s : g[s] = f[x] + g[s \ {x}]
    <2>1. TakesAny(N, f, D, g)
        BY <1>2, FoldTakesAny
    <2> QED BY <2>1 DEF TakesAny
<1>4. ASSUME NEW x \in D PROVE Sum(Without(f, x)) = g[D \ {x}]
    <2> DEFINE E == D \ {x}
               f2 == [d \in E |-> f[d]]
               g2 == FoldOf(f2, E)
    <2>1. IsFiniteSet(E) /\ E \subseteq D
        BY FS_Subset
    <2>2. DOMAIN f2 = E /\ \A d \in E : f[d] = f2[d]
        OBVIOUS
    <2>6. Without(f, x) = f2
        BY DEF Without
    <2> HIDE DEF E, f2
    <2>3. Sum(f2) = g2[E]
        BY <2>2, SumIsFold
    <2>4. IsFold(f2, E, g2)
        BY <2>1, FoldExists DEF FoldOf
    <2> HIDE DEF g2
    <2>5. g[E] = g2[E]
        BY <1>2, <2>1, <2>2, <2>4, SameFold
    <2> QED BY <2>3, <2>5, <2>6 DEF E
<1>5. D \in SUBSET D
    OBVIOUS
<1>6. Sum(f) \in N /\ (D = {} => Sum(f) = 0)
    BY <1>1, <1>3, <1>5
<1>7. ASSUME NEW x \in D
      PROVE  Sum(f) = f[x] + Sum(Without(f, x)) /\ Sum(Without(f, x)) \in N
    <2>1. g[D] = f[x] + g[D \ {x}] /\ D \ {x} \in SUBSET D
        BY <1>3, <1>5
    <2>2. g[D \ {x}] \in N
        BY <1>3, <2>1
    <2> QED BY <1>1, <1>4, <2>1, <2>2
<1> QED BY <1>6, <1>7

\* The same, of naturals.
LEMMA SumTakesAny ==
    ASSUME NEW D, IsFiniteSet(D), NEW f, DOMAIN f = D, \A d \in D : f[d] \in Nat
    PROVE  /\ Sum(f) \in Nat
           /\ D = {} => Sum(f) = 0
           /\ \A x \in D : Sum(f) = f[x] + Sum(Without(f, x)) /\ Sum(Without(f, x)) \in Nat
BY SumOfAny

\* A sum of zeros.
LEMMA SumOfZeros ==
    ASSUME NEW D, IsFiniteSet(D)
    PROVE  Sum([d \in D |-> 0]) = 0
<1> DEFINE on(E) == [d \in E |-> 0]
           size == Cardinality(D)
           good == {n \in 0 .. size :
                        \A E \in SUBSET D : Cardinality(E) <= n => Sum(on(E)) = 0}
<1>1. size \in Nat /\ \A E \in SUBSET D : IsFiniteSet(E) /\ Cardinality(E) \in Nat
                                          /\ Cardinality(E) <= size
    BY FS_CardinalityType, FS_Subset
<1>2. ASSUME NEW E \in SUBSET D
      PROVE  /\ E = {} => Sum(on(E)) = 0
             /\ \A x \in E : Sum(on(E)) = Sum(on(E \ {x})) /\ Sum(on(E \ {x})) \in Nat
    <2> DEFINE g == on(E)
    <2>1. DOMAIN g = E /\ \A d \in E : g[d] = 0 /\ g[d] \in Nat
        OBVIOUS
    <2>2. \A x \in E : Without(g, x) = on(E \ {x})
        BY DEF Without
    <2> HIDE DEF g, on
    <2>3. /\ E = {} => Sum(g) = 0
          /\ \A x \in E : Sum(g) = g[x] + Sum(Without(g, x)) /\ Sum(Without(g, x)) \in Nat
        BY <1>1, <2>1, SumTakesAny
    <2>4. \A x \in E : Sum(on(E \ {x})) \in Nat /\ Sum(g) = 0 + Sum(on(E \ {x}))
        BY <2>1, <2>2, <2>3
    <2>5. \A x \in E : Sum(g) = Sum(on(E \ {x}))
        BY <2>4
    <2> QED BY <2>3, <2>4, <2>5 DEF g
<1> HIDE DEF on
<1>3. 0 \in good
    <2> SUFFICES ASSUME NEW E \in SUBSET D, Cardinality(E) <= 0 PROVE Sum(on(E)) = 0
        BY <1>1
    <2>1. IsFiniteSet(E) /\ Cardinality(E) = 0
        BY <1>1
    <2>2. E = {}
        BY <2>1, FS_EmptySet
    <2> QED BY <1>2, <2>2
<1>4. ASSUME NEW n \in 0 .. size - 1, n \in good PROVE n + 1 \in good
    <2>1. n + 1 \in 0 .. size
        BY <1>1
    <2> HIDE DEF size
    <2> SUFFICES ASSUME NEW E \in SUBSET D, Cardinality(E) <= n + 1 PROVE Sum(on(E)) = 0
        BY <2>1
    <2>2. CASE E = {}
        BY <1>2, <2>2
    <2>3. CASE E # {}
        <3>1. PICK x \in E : TRUE
            BY <2>3
        <3>2. /\ E \ {x} \in SUBSET D /\ Cardinality(E) \in Nat
              /\ Cardinality(E \ {x}) = Cardinality(E) - 1
            BY <2>3, <3>1, Smaller
        <3>3. Cardinality(E \ {x}) <= n
            BY <3>2
        <3>4. Sum(on(E \ {x})) = 0
            BY <1>4, <3>2, <3>3
        <3> QED BY <1>2, <3>1, <3>4
    <2> QED BY <2>2, <2>3
<1>5. \A n \in 0 .. size : n \in good
    <2> HIDE DEF good, size
    <2> QED BY <1>1, <1>3, <1>4, UpTo
<1>6. size \in good
    <2> HIDE DEF good, size
    <2> QED BY <1>1, <1>5
<1>7. Sum(on(D)) = 0
    BY <1>1, <1>6
<1> QED BY <1>7 DEF on

\* A function on a part of its domain.
Only(f, S) == [d \in S |-> f[d]]

\* Terms of a sum that are zero can be left out.
LEMMA SumOnSupport ==
    ASSUME NEW D, IsFiniteSet(D), NEW T \in SUBSET D,
           NEW f, \A d \in D : f[d] \in Nat, \A d \in D \ T : f[d] = 0
    PROVE  Sum(Only(f, D)) = Sum(Only(f, T))
<1> DEFINE on(E) == [d \in E |-> f[d]]
           size == Cardinality(D \ T)
           good == {n \in 0 .. size :
                        \A E \in SUBSET D :
                            T \subseteq E /\ Cardinality(E \ T) <= n => Sum(on(E)) = Sum(on(T))}
<1>1. size \in Nat /\ \A E \in SUBSET D :
          /\ IsFiniteSet(E) /\ IsFiniteSet(E \ T)
          /\ Cardinality(E \ T) \in Nat /\ Cardinality(E \ T) <= size
    <2>1. \A E \in SUBSET D : IsFiniteSet(E)
        BY FS_Subset
    <2>2. \A E \in SUBSET D : E \ T \in SUBSET D /\ E \ T \subseteq D \ T
        OBVIOUS
    <2>3. D \ T \in SUBSET D
        OBVIOUS
    <2>4. IsFiniteSet(D \ T) /\ size \in Nat
        BY <2>1, <2>3, FS_CardinalityType
    <2>5. \A E \in SUBSET D : Cardinality(E \ T) <= size
        BY <2>2, <2>4, FS_Subset
    <2> QED BY <2>1, <2>2, <2>4, <2>5, FS_CardinalityType
<1>2. ASSUME NEW E \in SUBSET D, NEW x \in E \ T
      PROVE  Sum(on(E)) = Sum(on(E \ {x}))
    <2> DEFINE g == on(E)
    <2>1. DOMAIN g = E /\ (\A d \in E : g[d] = f[d] /\ g[d] \in Nat) /\ x \in E /\ g[x] = 0
        OBVIOUS
    <2>2. Without(g, x) = on(E \ {x})
        BY DEF Without
    <2> HIDE DEF g, on
    <2>3. Sum(g) = g[x] + Sum(Without(g, x)) /\ Sum(Without(g, x)) \in Nat
        BY <1>1, <2>1, SumTakesAny
    <2>4. Sum(g) = Sum(Without(g, x))
        BY <2>1, <2>3
    <2> QED BY <2>2, <2>4 DEF g
<1>3. \A E \in SUBSET D : T \subseteq E /\ E \ T = {} => E = T
    OBVIOUS
<1> HIDE DEF on
<1>4. 0 \in good
    <2> SUFFICES ASSUME NEW E \in SUBSET D, T \subseteq E, Cardinality(E \ T) <= 0
                 PROVE  Sum(on(E)) = Sum(on(T))
        BY <1>1
    <2>1. E \ T = {}
        BY <1>1, FS_EmptySet
    <2> QED BY <1>3, <2>1
<1>5. ASSUME NEW n \in 0 .. size - 1, n \in good PROVE n + 1 \in good
    <2>1. n + 1 \in 0 .. size
        BY <1>1
    <2> HIDE DEF size
    <2> SUFFICES ASSUME NEW E \in SUBSET D, T \subseteq E,
                        Cardinality(E \ T) <= n + 1
                 PROVE  Sum(on(E)) = Sum(on(T))
        BY <2>1
    <2>2. CASE E \ T = {}
        BY <1>3, <2>2
    <2>3. CASE E \ T # {}
        <3>1. PICK x \in E \ T : TRUE
            BY <2>3
        <3>2. /\ E \ {x} \in SUBSET D /\ T \subseteq E \ {x}
              /\ (E \ {x}) \ T = (E \ T) \ {x}
            <4> HIDE DEF good
            <4>1. x \notin T /\ E \ {x} \in SUBSET D
                BY <3>1
            <4>2. T \subseteq E \ {x}
                BY <4>1
            <4> QED BY <4>1, <4>2
        <3>3. Cardinality((E \ T) \ {x}) = Cardinality(E \ T) - 1
            BY <1>1, <3>1, FS_RemoveElement
        <3>4. Cardinality((E \ {x}) \ T) <= n
            <4>1. Cardinality(E \ T) \in Nat /\ n \in Int
                BY <1>1
            <4>2. Cardinality((E \ {x}) \ T) = Cardinality((E \ T) \ {x})
                BY <3>2, Zenon
            <4> HIDE DEF good
            <4> QED BY <3>3, <4>1, <4>2
        <3>5. Sum(on(E \ {x})) = Sum(on(T))
            BY <1>5, <3>2, <3>4
        <3> QED BY <1>2, <3>1, <3>5
    <2> QED BY <2>2, <2>3
<1>6. \A n \in 0 .. size : n \in good
    <2> HIDE DEF good, size
    <2> QED BY <1>1, <1>4, <1>5, UpTo
<1>7. size \in good
    <2> HIDE DEF good, size
    <2> QED BY <1>1, <1>6
<1>8. Sum(on(D)) = Sum(on(T))
    BY <1>1, <1>7
<1> QED BY <1>8 DEF on, Only

\* The sum of one term.
LEMMA SumOfOne ==
    ASSUME NEW a, NEW f, f[a] \in Nat
    PROVE  Sum(Only(f, {a})) = f[a]
<1> DEFINE g == Only(f, {a})
<1>1. /\ DOMAIN g = {a} /\ IsFiniteSet({a}) /\ \A d \in {a} : g[d] \in Nat
      /\ g[a] = f[a] /\ a \in {a}
    BY FS_Singleton DEF Only
<1> HIDE DEF g
<1>2. Sum(g) = g[a] + Sum(Without(g, a)) /\ Sum(Without(g, a)) \in Nat
    BY <1>1, SumTakesAny
<1>3. DOMAIN Without(g, a) = {}
    BY <1>1 DEF Without
<1>4. Sum(Without(g, a)) = 0
    <2> DEFINE h == Without(g, a)
    <2>1. DOMAIN h = {} /\ IsFiniteSet({}) /\ \A d \in {} : h[d] \in Nat
        BY <1>3, FS_EmptySet
    <2> HIDE DEF h
    <2>2. Sum(h) = 0
        BY <2>1, SumTakesAny
    <2> QED BY <2>2 DEF h
<1> QED BY <1>1, <1>2, <1>4 DEF g

\* The sum of the frequencies of all words of a text is its length.
LEMMA SumOfFrequencies ==
    ASSUME NEW S, NEW x \in Seq(S), NEW T, IsFiniteSet(T), {x[i] : i \in DOMAIN x} \subseteq T
    PROVE  Sum([t \in T |-> Frequency(x, t)]) = Len(x)
<1> DEFINE places(n, t) == {i \in 1 .. n : x[i] = t}
           count(n) == [t \in T |-> Cardinality(places(n, t))]
           good == {n \in 0 .. Len(x) : Sum(count(n)) = n}
<1>1. Len(x) \in Nat /\ DOMAIN x = 1 .. Len(x)
    OBVIOUS
<1>2. ASSUME NEW n \in Nat, NEW t
      PROVE  IsFiniteSet(places(n, t)) /\ Cardinality(places(n, t)) \in Nat
    <2>1. IsFiniteSet(1 .. n)
        BY FS_Interval
    <2>2. places(n, t) \subseteq 1 .. n
        OBVIOUS
    <2> HIDE DEF places
    <2> QED BY <2>1, <2>2, FS_Subset, FS_CardinalityType
<1>3. 0 \in good
    <2>1. \A t : places(0, t) = {}
        OBVIOUS
    <2> HIDE DEF places
    <2>2. count(0) = [t \in T |-> 0]
        BY <2>1, FS_EmptySet
    <2>3. Sum(count(0)) = 0
        BY <2>2, SumOfZeros
    <2> HIDE DEF count
    <2> QED BY <1>1, <2>3
<1>4. ASSUME NEW n \in 0 .. Len(x) - 1, n \in good PROVE n + 1 \in good
    <2> DEFINE w == x[n + 1]
               old == count(n)
               new == count(n + 1)
    <2>1. n \in Nat /\ n + 1 \in 1 .. Len(x) /\ n + 1 \in 0 .. Len(x) /\ n + 1 \in Nat
        BY <1>1
    <2>2. w \in T
        BY <1>1, <2>1
    <2>3. \A t : places(n + 1, t) = IF t = w THEN places(n, t) \cup {n + 1} ELSE places(n, t)
        BY <2>1
    <2>4. \A t : n + 1 \notin places(n, t)
        BY <2>1
    <2> HIDE DEF places, w
    <2>5. Cardinality(places(n + 1, w)) = Cardinality(places(n, w)) + 1
        <3>1. Cardinality(places(n, w) \cup {n + 1}) = Cardinality(places(n, w)) + 1
            BY <1>2, <2>1, <2>4, FS_AddElement
        <3> QED BY <2>3, <3>1
    <2>6. /\ DOMAIN old = T /\ DOMAIN new = T
          /\ \A t \in T : old[t] \in Nat /\ new[t] \in Nat
          /\ new[w] = old[w] + 1
        BY <1>2, <2>1, <2>2, <2>5
    <2>7. Without(new, w) = Without(old, w)
        BY <2>3 DEF Without
    <2>8. Sum(old) = n
        BY <1>4
    <2> HIDE DEF old, new, count
    <2> DEFINE rest == Sum(Without(old, w))
    <2>9. Sum(old) = old[w] + rest /\ rest \in Nat
        BY <2>2, <2>6, SumTakesAny
    <2>10. Sum(new) = new[w] + rest
        BY <2>2, <2>6, <2>7, SumTakesAny
    <2>11. old[w] \in Nat
        BY <2>2, <2>6
    <2> HIDE DEF rest
    <2>12. Sum(new) = n + 1
        BY <2>1, <2>6, <2>8, <2>9, <2>10, <2>11
    <2> QED BY <2>1, <2>12 DEF new
<1>5. \A n \in 0 .. Len(x) : n \in good
    <2> HIDE DEF good
    <2> QED BY <1>1, <1>3, <1>4, UpTo
<1>6. Sum(count(Len(x))) = Len(x)
    <2>1. Len(x) \in good
        <3> HIDE DEF good
        <3> QED BY <1>1, <1>5
    <2> HIDE DEF count
    <2> QED BY <2>1
<1>7. count(Len(x)) = [t \in T |-> Frequency(x, t)]
    BY <1>1 DEF Frequency
<1> QED BY <1>6, <1>7

---------------------------------------------------------------------------
(* The flat array *)

\* Where the component c of row i is, and where the row is.
Cell(i, c) == (i - 1) * Dim + c
Slice(i) == (i - 1) * Dim + 1 .. i * Dim

LEMMA Cells ==
    ASSUME NEW n \in Nat, NEW i \in 1 .. n, NEW c \in 1 .. Dim
    PROVE  /\ Cell(i, c) \in 1 .. n * Dim
           /\ Cell(i, c) \in Slice(i)
           /\ Cell(i, c) - (i - 1) * Dim = c
           /\ \A j \in 1 .. n : j # i => Cell(i, c) \notin Slice(j)
<1> DEFINE lo == (i - 1) * Dim
           hi == i * Dim
           all == n * Dim
<1>1. /\ i \in Int /\ i >= 1 /\ i <= n /\ Dim \in Nat
      /\ c \in Int /\ c >= 1 /\ c <= Dim
    BY VectorIndexAssumption
<1>2. lo \in Nat /\ hi = lo + Dim /\ all \in Nat
    BY <1>1
<1>3. hi <= all
    <2>1. CASE i = n
        BY <1>1, <1>2, <2>1
    <2>2. CASE i < n
        BY <1>1, <1>2, <2>2, RowsApart
    <2> QED BY <1>1, <2>1, <2>2
<1>4. ASSUME NEW j \in 1 .. n, j # i PROVE lo + c \notin (j - 1) * Dim + 1 .. j * Dim
    <2> DEFINE lo2 == (j - 1) * Dim
               hi2 == j * Dim
    <2>1. j \in Int /\ lo2 \in Int /\ hi2 = lo2 + Dim
        BY <1>1
    <2>2. j < i => hi2 <= lo
        <3>1. j < i => lo2 + Dim <= lo
            BY <1>1, <2>1, RowsApart
        <3> QED BY <2>1, <3>1
    <2>3. i < j => hi <= lo2
        <3>1. i < j => lo + Dim <= lo2
            BY <1>1, <2>1, RowsApart
        <3> QED BY <1>2, <3>1
    <2>4. j < i \/ i < j
        BY <1>1, <1>4
    <2> HIDE DEF lo, hi, lo2, hi2
    <2>5. lo + c \notin lo2 + 1 .. hi2
        BY <1>1, <1>2, <2>1, <2>2, <2>3, <2>4
    <2> QED BY <2>5 DEF lo, hi, lo2, hi2
<1>5. Cell(i, c) = lo + c /\ Slice(i) = lo + 1 .. hi
    BY DEF Cell, Slice
<1>6. \A j \in 1 .. n : Slice(j) = (j - 1) * Dim + 1 .. j * Dim
    BY DEF Slice
<1> HIDE DEF lo, hi, all
<1>7. lo + c \in 1 .. all /\ lo + c \in lo + 1 .. hi /\ lo + c - lo = c
    BY <1>1, <1>2, <1>3
<1>8. \A j \in 1 .. n : j # i => Cell(i, c) \notin Slice(j)
    BY <1>4, <1>5, <1>6
<1>9. Cell(i, c) \in 1 .. all /\ Cell(i, c) \in Slice(i) /\ Cell(i, c) - lo = c
    BY <1>1, <1>2, <1>5, <1>7
<1> QED BY <1>8, <1>9 DEF lo, all

\* A place of a slice is one of its cells.
LEMMA SliceCells ==
    ASSUME NEW i \in Nat \ {0}, NEW p \in Slice(i)
    PROVE  p - (i - 1) * Dim \in 1 .. Dim /\ p \in Int
<1> DEFINE lo == (i - 1) * Dim
           hi == i * Dim
<1>1. Dim \in Nat /\ lo \in Nat /\ hi = lo + Dim /\ p \in lo + 1 .. hi
    BY VectorIndexAssumption DEF Slice
<1> HIDE DEF lo, hi
<1>2. p - lo \in 1 .. Dim /\ p \in Int
    BY <1>1
<1> QED BY <1>2 DEF lo

---------------------------------------------------------------------------
(* The vector index *)

Component == Int \cup {NaN}

Distinct(ids) == \A i, j \in DOMAIN ids : ids[i] = ids[j] => i = j

\* One row of Dim components beside every id, and no id twice.
VectorShape(index) ==
    /\ index \in [ids : Seq(Id), data : Seq(Component)]
    /\ Len(index.data) = Len(index.ids) * Dim
    /\ Distinct(index.ids)

\* What an index holds: a vector per id.
VectorsOf(index) ==
    {<<index.ids[i], Row(index, i)>> : i \in DOMAIN index.ids}

\* Position finds an id that is there.
LEMMA PositionFinds ==
    ASSUME NEW index, VectorShape(index), NEW id
    PROVE  /\ Position(index, id) \in 0 .. Len(index.ids)
           /\ Position(index, id) # 0 => index.ids[Position(index, id)] = id
           /\ Position(index, id) = 0 => \A i \in DOMAIN index.ids : index.ids[i] # id
<1> DEFINE at == {i \in DOMAIN index.ids : index.ids[i] = id}
<1>1. DOMAIN index.ids = 1 .. Len(index.ids) /\ Len(index.ids) \in Nat
    BY DEF VectorShape
<1>2. CASE at = {}
    BY <1>1, <1>2 DEF Position
<1>3. CASE at # {}
    <2>1. PICK m \in at : TRUE
        BY <1>3
    <2>2. at = {m}
        BY <2>1 DEF VectorShape, Distinct
    <2>3. (CHOOSE i \in at : \A j \in at : i <= j) = m
        <3>1. m <= m
            BY <1>1, <2>1
        <3> HIDE DEF at
        <3> QED BY <2>2, <3>1
    <2>4. Position(index, id) = m
        BY <1>3, <2>3 DEF Position
    <2> QED BY <1>1, <2>1, <2>4
<1> QED BY <1>2, <1>3

\* A row is the components in its cells.
LEMMA RowComponents ==
    ASSUME NEW index, VectorShape(index), NEW i \in DOMAIN index.ids
    PROVE  /\ Row(index, i) \in Seq(Component)
           /\ Len(Row(index, i)) = Dim
           /\ \A c \in 1 .. Dim :
                 /\ Row(index, i)[c] = index.data[Cell(i, c)]
                 /\ Cell(i, c) \in DOMAIN index.data
<1> DEFINE lo == (i - 1) * Dim
           hi == i * Dim
           all == Len(index.ids) * Dim
<1>1. /\ i \in Nat \ {0} /\ i \in 1 .. Len(index.ids) /\ Len(index.ids) \in Nat
      /\ Dim \in Nat /\ lo \in Nat /\ hi = lo + Dim
    BY VectorIndexAssumption DEF VectorShape
<1>2. Len(index.data) = all /\ index.data \in Seq(Component)
    BY DEF VectorShape
<1>3. Row(index, i) = SubSeq(index.data, lo + 1, hi)
    BY DEF Row
<1>4. Slice(i) = lo + 1 .. hi
    BY DEF Slice
<1>5. \A c \in 1 .. Dim : Cell(i, c) = lo + c /\ Cell(i, c) \in 1 .. all
    <2>1. \A c \in 1 .. Dim : Cell(i, c) = lo + c
        BY DEF Cell
    <2>2. \A c \in 1 .. Dim : Cell(i, c) \in 1 .. all
        BY <1>1, Cells
    <2> QED BY <2>1, <2>2
<1> HIDE DEF lo, hi, all
<1>6. \A j \in lo + 1 .. hi : j - lo \in 1 .. Dim /\ lo + (j - lo) = j
    BY <1>1
<1>7. \A j \in lo + 1 .. hi : j \in 1 .. all
    BY <1>5, <1>6
<1>8. \A j \in lo + 1 .. hi : index.data[j] \in Component
    BY <1>2, <1>7, ElementOfSeq
<1>9. /\ SubSeq(index.data, lo + 1, hi) \in Seq(Component)
      /\ Len(SubSeq(index.data, lo + 1, hi)) = IF lo + 1 <= hi THEN hi - (lo + 1) + 1 ELSE 0
      /\ \A c \in 1 .. hi - (lo + 1) + 1 :
             SubSeq(index.data, lo + 1, hi)[c] = index.data[lo + 1 + c - 1]
    BY <1>1, <1>8, SubSeqProperties
<1>10. hi - (lo + 1) + 1 = Dim /\ lo + 1 <= hi
    BY <1>1, VectorIndexAssumption
<1>11. \A c \in 1 .. Dim : lo + 1 + c - 1 = lo + c
    BY <1>1
<1>12. DOMAIN index.data = 1 .. all
    BY <1>2
<1>13. Row(index, i) \in Seq(Component) /\ Len(Row(index, i)) = Dim
    BY <1>3, <1>9, <1>10
<1>14. \A c \in 1 .. Dim : Row(index, i)[c] = index.data[Cell(i, c)]
    BY <1>3, <1>5, <1>9, <1>10, <1>11
<1> QED BY <1>5, <1>12, <1>13, <1>14

\* Rows with the same components are the same.
LEMMA SameRow ==
    ASSUME NEW a, VectorShape(a), NEW b, VectorShape(b),
           NEW i \in DOMAIN a.ids, NEW j \in DOMAIN b.ids,
           \A c \in 1 .. Dim : a.data[Cell(i, c)] = b.data[Cell(j, c)]
    PROVE  Row(a, i) = Row(b, j)
<1>1. /\ Row(a, i) \in Seq(Component) /\ Len(Row(a, i)) = Dim
      /\ \A c \in 1 .. Dim : Row(a, i)[c] = a.data[Cell(i, c)]
    BY RowComponents
<1>2. /\ Row(b, j) \in Seq(Component) /\ Len(Row(b, j)) = Dim
      /\ \A c \in 1 .. Dim : Row(b, j)[c] = b.data[Cell(j, c)]
    BY RowComponents
<1>3. \A c \in 1 .. Len(Row(a, i)) : Row(a, i)[c] = Row(b, j)[c]
    BY <1>1, <1>2
<1> QED BY <1>1, <1>2, <1>3, SeqEqual

\* A row with the components of v is v.
LEMMA RowIs ==
    ASSUME NEW a, VectorShape(a), NEW i \in DOMAIN a.ids,
           NEW v \in Seq(Component), Len(v) = Dim,
           \A c \in 1 .. Dim : a.data[Cell(i, c)] = v[c]
    PROVE  Row(a, i) = v
<1>1. /\ Row(a, i) \in Seq(Component) /\ Len(Row(a, i)) = Dim
      /\ \A c \in 1 .. Dim : Row(a, i)[c] = a.data[Cell(i, c)]
    BY RowComponents
<1>2. \A c \in 1 .. Len(Row(a, i)) : Row(a, i)[c] = v[c]
    BY <1>1
<1> QED BY <1>1, <1>2, SeqEqual

\* insert of an id that has a row overwrites its components.
LEMMA InsertReplaces ==
    ASSUME NEW index, VectorShape(index), NEW id \in Id, NEW v \in Seq(Component),
           Len(v) = Dim, Position(index, id) # 0
    PROVE  LET new == Insert(index, id, v)
               pos == Position(index, id)
           IN  /\ VectorShape(new)
               /\ new.ids = index.ids
               /\ Row(new, pos) = v
               /\ \A i \in DOMAIN index.ids : i # pos => Row(new, i) = Row(index, i)
<1> DEFINE new == Insert(index, id, v)
           pos == Position(index, id)
           n == Len(index.ids)
           all == n * Dim
           lo == (pos - 1) * Dim
<1>1. /\ n \in Nat /\ DOMAIN index.ids = 1 .. n /\ all \in Nat
      /\ index.ids \in Seq(Id) /\ index.data \in Seq(Component) /\ index \in [ids : Seq(Id), data : Seq(Component)]
      /\ DOMAIN index.data = 1 .. all /\ Distinct(index.ids)
      /\ Len(index.data) = all
    BY VectorIndexAssumption DEF VectorShape
<1>2. DOMAIN v = 1 .. Dim
    BY VectorIndexAssumption
<1>3. pos \in 1 .. n /\ pos \in Nat \ {0}
    BY <1>1, PositionFinds
<1>4. new = [index EXCEPT !.data = [j \in 1 .. all |->
                IF j \in Slice(pos) THEN v[j - lo] ELSE index.data[j]]]
    BY <1>1 DEF Insert, Slice
<1>5. \A j \in Slice(pos) : j - lo \in 1 .. Dim
    BY <1>3, SliceCells
<1>6. ASSUME NEW i \in 1 .. n, NEW c \in 1 .. Dim
      PROVE  Cell(i, c) \in 1 .. all /\ (i # pos => Cell(i, c) \notin Slice(pos))
    <2> HIDE DEF pos
    <2> QED BY <1>1, <1>3, Cells
<1>14. ASSUME NEW c \in 1 .. Dim
       PROVE  Cell(pos, c) \in Slice(pos) /\ Cell(pos, c) - lo = c
    <2> HIDE DEF pos
    <2> QED BY <1>1, <1>3, Cells
<1>7. VectorShape(new) <=> new.data \in Seq(Component) /\ Len(new.data) = all
    BY <1>1, <1>4 DEF VectorShape
<1> HIDE DEF new, pos, n, all, lo
<1>8. /\ new.ids = index.ids
      /\ new.data = [j \in 1 .. all |->
                        IF j \in Slice(pos) THEN v[j - lo] ELSE index.data[j]]
    BY <1>1, <1>4
<1>9. \A j \in 1 .. all : new.data[j] \in Component
    <2>1. \A j \in Slice(pos) : v[j - lo] \in Component
        BY <1>2, <1>5, ElementOfSeq, VectorIndexAssumption
    <2>2. \A j \in 1 .. all : index.data[j] \in Component
        BY <1>1, ElementOfSeq
    <2> QED BY <1>8, <2>1, <2>2
<1>10. new.data \in Seq(Component) /\ Len(new.data) = all
    BY <1>1, <1>8, <1>9
<1>11. VectorShape(new)
    BY <1>7, <1>10
<1>12. Row(new, pos) = v
    <2>1. \A c \in 1 .. Dim : new.data[Cell(pos, c)] = v[c]
        BY <1>3, <1>6, <1>8, <1>14
    <2>2. pos \in DOMAIN new.ids
        BY <1>1, <1>3, <1>8
    <2> QED BY <1>11, <2>1, <2>2, RowIs
<1>13. ASSUME NEW i \in 1 .. n, i # pos PROVE Row(new, i) = Row(index, i)
    <2>1. \A c \in 1 .. Dim : new.data[Cell(i, c)] = index.data[Cell(i, c)]
        BY <1>6, <1>8, <1>13
    <2>2. i \in DOMAIN new.ids /\ i \in DOMAIN index.ids
        BY <1>1, <1>8
    <2> QED BY <1>11, <2>1, <2>2, SameRow
<1> QED BY <1>1, <1>8, <1>11, <1>12, <1>13 DEF new, pos

\* insert of a new id appends a row.
LEMMA InsertAppends ==
    ASSUME NEW index, VectorShape(index), NEW id \in Id, NEW v \in Seq(Component),
           Len(v) = Dim, Position(index, id) = 0
    PROVE  LET new == Insert(index, id, v)
               n == Len(index.ids)
           IN  /\ VectorShape(new)
               /\ new.ids = Append(index.ids, id)
               /\ Row(new, n + 1) = v
               /\ \A i \in DOMAIN index.ids : Row(new, i) = Row(index, i)
<1> DEFINE new == Insert(index, id, v)
           n == Len(index.ids)
           all == n * Dim
           more == (n + 1) * Dim
<1>1. /\ n \in Nat /\ DOMAIN index.ids = 1 .. n /\ all \in Nat
      /\ index.ids \in Seq(Id) /\ index.data \in Seq(Component)
      /\ DOMAIN index.data = 1 .. all /\ Distinct(index.ids)
      /\ Len(index.data) = all
    BY VectorIndexAssumption DEF VectorShape
<1>2. more = all + Dim /\ Dim \in Nat
    BY <1>1, VectorIndexAssumption
<1>3. \A i \in 1 .. n : index.ids[i] # id
    BY <1>1, PositionFinds
<1>4. new = [ids |-> Append(index.ids, id), data |-> index.data \o v]
    BY DEF Insert
<1>5. VectorShape(new) <=> /\ new.ids \in Seq(Id) /\ new.data \in Seq(Component)
                           /\ Len(new.data) = Len(new.ids) * Dim
                           /\ Distinct(new.ids)
    BY <1>4 DEF VectorShape
<1>6. \A i \in 1 .. n, c \in 1 .. Dim : Cell(i, c) \in 1 .. all
    BY <1>1, Cells
<1>7. \A c \in 1 .. Dim : Cell(n + 1, c) = all + c
    BY <1>1 DEF Cell
<1> HIDE DEF new
<1>8. new.ids = Append(index.ids, id) /\ new.data = index.data \o v
    BY <1>4
<1>9. /\ new.ids \in Seq(Id) /\ Len(new.ids) = n + 1
      /\ \A i \in 1 .. n : new.ids[i] = index.ids[i]
      /\ new.ids[n + 1] = id
    BY <1>1, <1>8, AppendProperties
<1>10. Len(new.ids) * Dim = more
    BY <1>9
<1> HIDE DEF all, more
<1>11. /\ new.data \in Seq(Component) /\ Len(new.data) = more
       /\ \A j \in 1 .. all + Dim : new.data[j] =
             IF j <= all THEN index.data[j] ELSE v[j - all]
    <2>1. /\ index.data \o v \in Seq(Component)
          /\ Len(index.data \o v) = Len(index.data) + Len(v)
          /\ \A j \in 1 .. Len(index.data) + Len(v) : (index.data \o v)[j] =
                IF j <= Len(index.data) THEN index.data[j] ELSE v[j - Len(index.data)]
        BY <1>1, ConcatProperties
    <2> QED BY <1>1, <1>2, <1>8, <2>1
<1>12. \A j \in 1 .. all : new.data[j] = index.data[j]
    BY <1>1, <1>2, <1>11
<1>13. \A c \in 1 .. Dim : new.data[all + c] = v[c]
    <2> SUFFICES ASSUME NEW c \in 1 .. Dim PROVE new.data[all + c] = v[c]
        OBVIOUS
    <2> DEFINE j == all + c
    <2>1. j \in 1 .. all + Dim /\ ~ (j <= all) /\ j - all = c
        BY <1>1, <1>2
    <2>2. new.data[j] = v[c]
        <3> HIDE DEF j
        <3> QED BY <1>11, <2>1
    <2> QED BY <2>2
<1> HIDE DEF n
<1>14. Distinct(new.ids)
    <2>1. DOMAIN new.ids = 1 .. n + 1
        BY <1>9
    <2>2. \A i \in 1 .. n + 1 : i = n + 1 \/ i \in 1 .. n
        BY <1>1
    <2> QED BY <1>1, <1>3, <1>9, <2>1, <2>2 DEF Distinct
<1>15. VectorShape(new)
    BY <1>5, <1>9, <1>10, <1>11, <1>14
<1>16. n + 1 \in DOMAIN new.ids /\ \A i \in 1 .. n : i \in DOMAIN new.ids
    BY <1>1, <1>9
<1>17. Row(new, n + 1) = v
    BY <1>7, <1>13, <1>15, <1>16, RowIs
<1>18. ASSUME NEW i \in 1 .. n PROVE Row(new, i) = Row(index, i)
    <2>1. \A c \in 1 .. Dim : new.data[Cell(i, c)] = index.data[Cell(i, c)]
        BY <1>6, <1>12
    <2>2. i \in DOMAIN new.ids /\ i \in DOMAIN index.ids
        BY <1>1, <1>16
    <2> QED BY <1>15, <2>1, <2>2, SameRow
<1> QED BY <1>1, <1>8, <1>15, <1>17, <1>18 DEF new, n

\* remove moves the last row to the place of the one removed.
LEMMA RemoveMoves ==
    ASSUME NEW index, VectorShape(index), NEW id, Position(index, id) # 0
    PROVE  LET new == Remove(index, id)
               pos == Position(index, id)
               n == Len(index.ids)
           IN  /\ VectorShape(new)
               /\ DOMAIN new.ids = 1 .. n - 1
               /\ \A i \in 1 .. n - 1 :
                     LET from == IF i = pos THEN n ELSE i
                     IN  new.ids[i] = index.ids[from] /\ Row(new, i) = Row(index, from)
<1> DEFINE new == Remove(index, id)
           pos == Position(index, id)
           n == Len(index.ids)
           all == n * Dim
           less == (n - 1) * Dim
           lo == (pos - 1) * Dim
           far == (n - pos) * Dim
           swapped == [j \in 1 .. all |->
                          IF j \in Slice(pos) THEN index.data[j + far] ELSE index.data[j]]
           moved == [index.ids EXCEPT ![pos] = index.ids[n]]
           from(i) == IF i = pos THEN n ELSE i
<1>1. /\ n \in Nat /\ DOMAIN index.ids = 1 .. n /\ all \in Nat
      /\ index.ids \in Seq(Id) /\ index.data \in Seq(Component)
      /\ DOMAIN index.data = 1 .. all /\ Distinct(index.ids)
      /\ Len(index.data) = all
    BY VectorIndexAssumption DEF VectorShape
<1>2. pos \in 1 .. n /\ pos \in Nat \ {0} /\ n - 1 \in Nat /\ n \in 1 .. n
    <2>1. pos \in 1 .. n
        BY <1>1, PositionFinds
    <2> HIDE DEF pos, n
    <2> QED BY <1>1, <2>1
<1>3. new = [ids |-> SubSeq(moved, 1, n - 1), data |-> SubSeq(swapped, 1, less)]
    BY <1>1 DEF Remove, Slice
<1>4. VectorShape(new) <=> /\ new.ids \in Seq(Id) /\ new.data \in Seq(Component)
                           /\ Len(new.data) = Len(new.ids) * Dim
                           /\ Distinct(new.ids)
    BY <1>3 DEF VectorShape
<1> HIDE DEF new, pos
<1>5. less \in Nat /\ all = less + Dim /\ far \in Nat /\ Dim \in Nat
    <2>1. n - 1 \in Nat /\ n - pos \in Nat /\ Dim \in Nat /\ n \in Nat
        BY <1>1, <1>2, VectorIndexAssumption
    <2> HIDE DEF n
    <2> QED BY <2>1
<1>6. ASSUME NEW c \in 1 .. Dim PROVE Cell(pos, c) + far = Cell(n, c)
    <2>1. n \in Int /\ pos \in Int /\ Dim \in Int /\ c \in Int
        BY <1>1, <1>2, <1>5
    <2> HIDE DEF n
    <2> QED BY <2>1 DEF Cell
<1>7. ASSUME NEW i \in 1 .. n, NEW c \in 1 .. Dim
      PROVE  Cell(i, c) \in 1 .. all /\ (i # pos => Cell(i, c) \notin Slice(pos))
    BY <1>1, <1>2, Cells
<1>8. ASSUME NEW c \in 1 .. Dim
      PROVE  Cell(pos, c) \in Slice(pos) /\ Cell(pos, c) - lo = c
    BY <1>1, <1>2, Cells
<1>9. ASSUME NEW i \in 1 .. n - 1, NEW c \in 1 .. Dim PROVE Cell(i, c) \in 1 .. less
    BY <1>2, Cells
<1>10. ASSUME NEW j \in Slice(pos) PROVE \E c \in 1 .. Dim : j = Cell(pos, c)
    <2>1. j - lo \in 1 .. Dim /\ j \in Int
        BY <1>2, SliceCells
    <2>2. lo \in Int
        BY <1>2, <1>5
    <2>3. lo + (j - lo) = j
        <3> HIDE DEF lo
        <3> QED BY <2>1, <2>2
    <2>4. Cell(pos, j - lo) = j
        BY <2>3 DEF Cell
    <2> QED BY <2>1, <2>4
<1> HIDE DEF all, less, lo, far, n
<1>11. swapped \in Seq(Component) /\ Len(swapped) = all /\ DOMAIN swapped = 1 .. all
    <2>1. ASSUME NEW j \in Slice(pos) PROVE index.data[j + far] \in Component
        <3>1. PICK c \in 1 .. Dim : j = Cell(pos, c)
            BY <1>10
        <3>2. j + far = Cell(n, c)
            BY <1>6, <3>1
        <3>3. j + far \in 1 .. all
            BY <1>2, <1>7, <3>2
        <3> QED BY <1>1, <3>3, ElementOfSeq
    <2>2. \A j \in 1 .. all : index.data[j] \in Component
        BY <1>1, ElementOfSeq
    <2>3. \A j \in 1 .. all : swapped[j] \in Component
        BY <2>1, <2>2
    <2> QED BY <1>1, <2>3
<1>12. moved \in Seq(Id) /\ Len(moved) = n /\ DOMAIN moved = 1 .. n
       /\ \A i \in 1 .. n : moved[i] = index.ids[from(i)]
    BY <1>1, <1>2, ElementOfSeq
<1>13. /\ new.ids \in Seq(Id) /\ Len(new.ids) = n - 1 /\ DOMAIN new.ids = 1 .. n - 1
       /\ \A i \in 1 .. n - 1 : new.ids[i] = index.ids[from(i)]
    <2>1. \A i \in 1 .. n - 1 : i \in 1 .. n
        BY <1>1
    <2>2. \A i \in 1 .. n - 1 : moved[i] \in Id
        BY <1>12, <2>1, ElementOfSeq
    <2> HIDE DEF moved
    <2>3. /\ SubSeq(moved, 1, n - 1) \in Seq(Id)
          /\ Len(SubSeq(moved, 1, n - 1)) = IF 1 <= n - 1 THEN n - 1 - 1 + 1 ELSE 0
          /\ \A i \in 1 .. n - 1 - 1 + 1 : SubSeq(moved, 1, n - 1)[i] = moved[1 + i - 1]
        BY <1>1, <1>2, <2>2, SubSeqProperties
    <2>4. n - 1 - 1 + 1 = n - 1 /\ \A i \in 1 .. n - 1 : 1 + i - 1 = i
        BY <1>1
    <2>5. Len(SubSeq(moved, 1, n - 1)) = n - 1
        BY <1>2, <2>3
    <2>6. new.ids = SubSeq(moved, 1, n - 1)
        BY <1>3
    <2>7. \A i \in 1 .. n - 1 : new.ids[i] = moved[i]
        BY <2>3, <2>4, <2>6
    <2> QED BY <1>12, <2>1, <2>3, <2>5, <2>6, <2>7
<1>14. /\ new.data \in Seq(Component) /\ Len(new.data) = less
       /\ \A j \in 1 .. less : new.data[j] = swapped[j]
    <2>1. \A j \in 1 .. less : j \in 1 .. all
        BY <1>5
    <2>2. \A j \in 1 .. less : swapped[j] \in Component
        BY <1>11, <2>1, ElementOfSeq
    <2>3. new.data = SubSeq(swapped, 1, less)
        BY <1>3
    <2> HIDE DEF swapped
    <2>4. /\ SubSeq(swapped, 1, less) \in Seq(Component)
          /\ Len(SubSeq(swapped, 1, less)) = IF 1 <= less THEN less - 1 + 1 ELSE 0
          /\ \A i \in 1 .. less - 1 + 1 : SubSeq(swapped, 1, less)[i] = swapped[1 + i - 1]
        BY <1>5, <2>2, SubSeqProperties
    <2>5. less - 1 + 1 = less /\ \A i \in 1 .. less : 1 + i - 1 = i
        BY <1>5
    <2>6. Len(SubSeq(swapped, 1, less)) = less
        BY <1>5, <2>4
    <2> QED BY <2>3, <2>4, <2>5, <2>6
<1>15. \A i \in 1 .. n - 1 : from(i) \in 1 .. n /\ i \in 1 .. n /\ i # n
    BY <1>1, <1>2
<1>16. Distinct(new.ids)
    <2>1. \A i, j \in 1 .. n - 1 : from(i) = from(j) => i = j
        BY <1>15
    <2> HIDE DEF from
    <2> SUFFICES ASSUME NEW i \in 1 .. n - 1, NEW j \in 1 .. n - 1, new.ids[i] = new.ids[j]
                 PROVE  i = j
        BY <1>13 DEF Distinct
    <2>2. index.ids[from(i)] = index.ids[from(j)]
        BY <1>13
    <2>3. from(i) \in DOMAIN index.ids /\ from(j) \in DOMAIN index.ids
        BY <1>1, <1>15
    <2>4. from(i) = from(j)
        BY <1>1, <2>2, <2>3 DEF Distinct
    <2> QED BY <2>1, <2>4
<1>17. Len(new.data) = Len(new.ids) * Dim
    BY <1>13, <1>14 DEF less
<1>18. VectorShape(new)
    BY <1>4, <1>13, <1>14, <1>16, <1>17
<1>19. ASSUME NEW i \in 1 .. n - 1 PROVE Row(new, i) = Row(index, from(i))
    <2>1. ASSUME NEW c \in 1 .. Dim
          PROVE  new.data[Cell(i, c)] = index.data[Cell(from(i), c)]
        <3>1. Cell(i, c) \in 1 .. less /\ Cell(i, c) \in 1 .. all
            BY <1>7, <1>9, <1>15
        <3>2. new.data[Cell(i, c)] = swapped[Cell(i, c)]
            BY <1>14, <3>1
        <3>3. CASE i = pos
            BY <1>6, <1>8, <3>1, <3>2, <3>3
        <3>4. CASE i # pos
            BY <1>7, <1>15, <3>1, <3>2, <3>4
        <3> QED BY <3>3, <3>4
    <2>2. i \in DOMAIN new.ids /\ from(i) \in DOMAIN index.ids
        BY <1>1, <1>13, <1>15
    <2> HIDE DEF from
    <2> QED BY <1>18, <2>1, <2>2, SameRow
<1> QED BY <1>13, <1>18, <1>19 DEF new, pos, n

\* insert sets the vector of an id, and no other one.
LEMMA InsertSets ==
    ASSUME NEW index, VectorShape(index), NEW id \in Id, NEW v \in Seq(Component),
           Len(v) = Dim
    PROVE  /\ VectorShape(Insert(index, id, v))
           /\ VectorsOf(Insert(index, id, v)) =
                 {p \in VectorsOf(index) : p[1] # id} \cup {<<id, v>>}
<1> DEFINE new == Insert(index, id, v)
           pos == Position(index, id)
           n == Len(index.ids)
<1>1. /\ n \in Nat /\ DOMAIN index.ids = 1 .. n /\ index.ids \in Seq(Id)
      /\ Distinct(index.ids)
    BY DEF VectorShape
<1>2. VectorsOf(index) = {<<index.ids[i], Row(index, i)>> : i \in 1 .. n}
    BY <1>1 DEF VectorsOf
<1>3. VectorsOf(new) = {<<new.ids[i], Row(new, i)>> : i \in DOMAIN new.ids}
    BY DEF VectorsOf
<1>4. /\ pos \in 0 .. n
      /\ pos # 0 => index.ids[pos] = id
      /\ pos = 0 => \A i \in DOMAIN index.ids : index.ids[i] # id
    BY PositionFinds
<1>5. CASE pos # 0
    <2>1. /\ VectorShape(new) /\ new.ids = index.ids /\ Row(new, pos) = v
          /\ \A i \in DOMAIN index.ids : i # pos => Row(new, i) = Row(index, i)
        BY <1>5, InsertReplaces
    <2> HIDE DEF new, pos, n
    <2>2. \A i \in 1 .. n : index.ids[i] = id <=> i = pos
        BY <1>1, <1>4, <1>5 DEF Distinct
    <2>3. pos \in 1 .. n
        BY <1>4, <1>5
    <2>4. VectorsOf(new) = {p \in VectorsOf(index) : p[1] # id} \cup {<<id, v>>}
        <3>1. ASSUME NEW i \in 1 .. n, i # pos
              PROVE  /\ <<new.ids[i], Row(new, i)>> \in VectorsOf(index)
                     /\ <<new.ids[i], Row(new, i)>>[1] # id
            BY <1>1, <1>2, <2>1, <2>2, <3>1
        <3>2. <<new.ids[pos], Row(new, pos)>> = <<id, v>>
            BY <1>4, <1>5, <2>1
        <3>3. VectorsOf(new) \subseteq {p \in VectorsOf(index) : p[1] # id} \cup {<<id, v>>}
            BY <1>1, <1>3, <2>1, <3>1, <3>2
        <3>4. ASSUME NEW p \in VectorsOf(index), p[1] # id PROVE p \in VectorsOf(new)
            <4>1. PICK i \in 1 .. n : p = <<index.ids[i], Row(index, i)>>
                BY <1>2
            <4>2. i # pos
                BY <2>2, <3>4, <4>1
            <4> QED BY <1>1, <1>3, <2>1, <4>1, <4>2
        <3>5. <<id, v>> \in VectorsOf(new)
            BY <1>1, <1>3, <2>1, <2>3, <3>2
        <3> QED BY <3>3, <3>4, <3>5
    <2> QED BY <2>1, <2>4 DEF new
<1>6. CASE pos = 0
    <2>1. /\ VectorShape(new) /\ new.ids = Append(index.ids, id) /\ Row(new, n + 1) = v
          /\ \A i \in DOMAIN index.ids : Row(new, i) = Row(index, i)
        BY <1>6, InsertAppends
    <2>2. /\ DOMAIN new.ids = 1 .. n + 1 /\ new.ids[n + 1] = id
          /\ \A i \in 1 .. n : new.ids[i] = index.ids[i]
        <3> HIDE DEF new
        <3> QED BY <1>1, <2>1, AppendProperties
    <2> HIDE DEF new, pos, n
    <2>3. 1 .. n + 1 = (1 .. n) \cup {n + 1}
        BY <1>1
    <2>4. VectorsOf(new) = VectorsOf(index) \cup {<<id, v>>}
        <3>1. <<new.ids[n + 1], Row(new, n + 1)>> = <<id, v>>
            BY <2>1, <2>2
        <3>2. \A i \in 1 .. n : <<new.ids[i], Row(new, i)>> = <<index.ids[i], Row(index, i)>>
            BY <1>1, <2>1, <2>2
        <3>3. VectorsOf(new) = {<<new.ids[i], Row(new, i)>> : i \in 1 .. n}
                                   \cup {<<new.ids[n + 1], Row(new, n + 1)>>}
            BY <1>3, <2>2, <2>3
        <3>4. {<<new.ids[i], Row(new, i)>> : i \in 1 .. n} = VectorsOf(index)
            BY <1>2, <3>2
        <3> QED BY <3>1, <3>3, <3>4
    <2>5. ASSUME NEW p \in VectorsOf(index) PROVE p[1] # id
        <3>1. PICK i \in 1 .. n : p = <<index.ids[i], Row(index, i)>>
            BY <1>2
        <3> QED BY <1>1, <1>4, <1>6, <3>1
    <2>6. VectorsOf(new) = {p \in VectorsOf(index) : p[1] # id} \cup {<<id, v>>}
        BY <2>4, <2>5
    <2> QED BY <2>1, <2>6 DEF new
<1> QED BY <1>5, <1>6

\* remove leaves every other vector as it is.
LEMMA RemoveLeaves ==
    ASSUME NEW index, VectorShape(index), NEW id
    PROVE  /\ VectorShape(Remove(index, id))
           /\ VectorsOf(Remove(index, id)) = {p \in VectorsOf(index) : p[1] # id}
<1> DEFINE new == Remove(index, id)
           pos == Position(index, id)
           n == Len(index.ids)
           from(i) == IF i = pos THEN n ELSE i
<1>1. /\ n \in Nat /\ DOMAIN index.ids = 1 .. n /\ index.ids \in Seq(Id)
      /\ Distinct(index.ids)
    BY DEF VectorShape
<1>2. VectorsOf(index) = {<<index.ids[i], Row(index, i)>> : i \in 1 .. n}
    BY <1>1 DEF VectorsOf
<1>3. VectorsOf(new) = {<<new.ids[i], Row(new, i)>> : i \in DOMAIN new.ids}
    BY DEF VectorsOf
<1>4. /\ pos \in 0 .. n
      /\ pos # 0 => index.ids[pos] = id
      /\ pos = 0 => \A i \in DOMAIN index.ids : index.ids[i] # id
    BY PositionFinds
<1>5. CASE pos # 0
    <2>1. /\ VectorShape(new) /\ DOMAIN new.ids = 1 .. n - 1
          /\ \A i \in 1 .. n - 1 :
                new.ids[i] = index.ids[from(i)] /\ Row(new, i) = Row(index, from(i))
        BY <1>5, RemoveMoves
    <2> HIDE DEF new, pos, n
    <2>2. \A i \in 1 .. n : index.ids[i] = id <=> i = pos
        BY <1>1, <1>4, <1>5 DEF Distinct
    <2>3. \A i \in 1 .. n - 1 : from(i) \in 1 .. n /\ from(i) # pos
        BY <1>1, <1>4, <1>5
    <2>4. \A j \in 1 .. n : j # pos => \E i \in 1 .. n - 1 : from(i) = j
        <3> SUFFICES ASSUME NEW j \in 1 .. n, j # pos
                     PROVE  \E i \in 1 .. n - 1 : from(i) = j
            OBVIOUS
        <3>1. CASE j = n
            <4>1. pos \in 1 .. n - 1 /\ from(pos) = j
                BY <1>1, <1>4, <1>5, <3>1
            <4> QED BY <4>1
        <3>2. CASE j # n
            <4>1. j \in 1 .. n - 1 /\ from(j) = j
                BY <1>1, <3>2
            <4> QED BY <4>1
        <3> QED BY <3>1, <3>2
    <2> HIDE DEF from
    <2>5. VectorsOf(new) = {p \in VectorsOf(index) : p[1] # id}
        <3>1. ASSUME NEW p \in VectorsOf(new) PROVE p \in VectorsOf(index) /\ p[1] # id
            <4>1. PICK i \in 1 .. n - 1 : p = <<new.ids[i], Row(new, i)>>
                BY <1>3, <2>1
            <4>2. p = <<index.ids[from(i)], Row(index, from(i))>>
                BY <2>1, <4>1
            <4> QED BY <1>2, <2>2, <2>3, <4>2
        <3>2. ASSUME NEW p \in VectorsOf(index), p[1] # id PROVE p \in VectorsOf(new)
            <4>1. PICK j \in 1 .. n : p = <<index.ids[j], Row(index, j)>>
                BY <1>2
            <4>2. j # pos
                BY <2>2, <3>2, <4>1
            <4>3. PICK i \in 1 .. n - 1 : from(i) = j
                BY <2>4, <4>2
            <4> QED BY <1>3, <2>1, <4>1, <4>3
        <3> QED BY <3>1, <3>2
    <2> QED BY <2>1, <2>5 DEF new
<1>6. CASE pos = 0
    <2>1. new = index
        BY <1>6 DEF Remove
    <2>2. \A p \in VectorsOf(index) : p[1] # id
        <3> HIDE DEF pos, n
        <3> QED BY <1>1, <1>2, <1>4, <1>6
    <2> HIDE DEF new, pos
    <2> QED BY <2>1, <2>2 DEF new
<1> QED BY <1>5, <1>6

---------------------------------------------------------------------------
(* The posting lists *)

Posting == [docId : Id, termFreq : Nat]

In(list) == {list[i] : i \in DOMAIN list}

OnePerDoc(list) == \A i, j \in DOMAIN list : list[i].docId = list[j].docId => i = j

\* What retain has kept of a list after i postings.
KeptOf(list, doc, i, kept) ==
    /\ kept \in Seq(Posting)
    /\ In(kept) = {list[j] : j \in {j \in 1 .. i : list[j].docId # doc}}
    /\ OnePerDoc(list) => OnePerDoc(kept)

\* One more posting of the list.
LEMMA KeepsNext ==
    ASSUME NEW list \in Seq(Posting), NEW doc, NEW i \in 1 .. Len(list), NEW kept,
           KeptOf(list, doc, i - 1, kept)
    PROVE  KeptOf(list, doc, i,
                  IF list[i].docId # doc THEN Append(kept, list[i]) ELSE kept)
<1>1. list[i] \in Posting /\ DOMAIN list = 1 .. Len(list) /\ Len(list) \in Nat
    BY ElementOfSeq
<1>2. 1 .. i = (1 .. i - 1) \cup {i} /\ \A j \in 1 .. i - 1 : j \in 1 .. Len(list) /\ j # i
    BY <1>1
<1>3. kept \in Seq(Posting) /\ DOMAIN kept = 1 .. Len(kept) /\ Len(kept) \in Nat
    BY DEF KeptOf
<1>4. CASE list[i].docId = doc
    <2>1. {j \in 1 .. i : list[j].docId # doc} = {j \in 1 .. i - 1 : list[j].docId # doc}
        BY <1>2, <1>4
    <2> QED BY <1>4, <2>1 DEF KeptOf
<1>5. CASE list[i].docId # doc
    <2> DEFINE new == Append(kept, list[i])
    <2>1. /\ new \in Seq(Posting) /\ DOMAIN new = 1 .. Len(kept) + 1
          /\ \A n \in 1 .. Len(kept) : new[n] = kept[n]
          /\ new[Len(kept) + 1] = list[i]
        BY <1>1, <1>3, AppendProperties
    <2>2. 1 .. Len(kept) + 1 = (1 .. Len(kept)) \cup {Len(kept) + 1}
        BY <1>3
    <2> HIDE DEF new
    <2>3. In(new) = In(kept) \cup {list[i]}
        BY <1>3, <2>1, <2>2 DEF In
    <2>4. {j \in 1 .. i : list[j].docId # doc} =
              {j \in 1 .. i - 1 : list[j].docId # doc} \cup {i}
        BY <1>2, <1>5
    <2>5. In(new) = {list[j] : j \in {j \in 1 .. i : list[j].docId # doc}}
        BY <2>3, <2>4 DEF KeptOf
    <2>6. ASSUME OnePerDoc(list) PROVE OnePerDoc(new)
        <3>1. ASSUME NEW n \in 1 .. Len(kept) PROVE kept[n].docId # list[i].docId
            <4>1. PICK j \in 1 .. i - 1 : kept[n] = list[j]
                BY <1>3 DEF KeptOf, In
            <4> QED BY <1>1, <1>2, <2>6, <4>1 DEF OnePerDoc
        <3>2. OnePerDoc(kept)
            BY <2>6 DEF KeptOf
        <3> SUFFICES ASSUME NEW n \in 1 .. Len(kept) + 1, NEW m \in 1 .. Len(kept) + 1,
                            new[n].docId = new[m].docId
                     PROVE  n = m
            BY <2>1 DEF OnePerDoc
        <3> QED BY <1>3, <2>1, <2>2, <3>1, <3>2 DEF OnePerDoc
    <2>7. KeptOf(list, doc, i, new)
        BY <2>1, <2>5, <2>6 DEF KeptOf
    <2> QED BY <1>5, <2>7 DEF new
<1> QED BY <1>4, <1>5

\* The function OtherDocs is defined by.
RetainStep(list, doc, kept, i) ==
    IF i = 0 THEN <<>>
    ELSE IF list[i].docId # doc THEN Append(kept[i - 1], list[i])
    ELSE kept[i - 1]

LEMMA RetainExists ==
    ASSUME NEW list \in Seq(Posting), NEW doc
    PROVE  \E kept : kept = [i \in 0 .. Len(list) |-> RetainStep(list, doc, kept, i)]
<1> DEFINE good == {n \in 0 .. Len(list) :
                        \E kept : kept = [i \in 0 .. n |-> RetainStep(list, doc, kept, i)]}
<1>1. 0 \in good
    <2> DEFINE one == [i \in 0 .. 0 |-> <<>>]
    <2>1. one = [i \in 0 .. 0 |-> RetainStep(list, doc, one, i)]
        BY DEF RetainStep
    <2> HIDE DEF one
    <2> QED BY <2>1
<1>2. ASSUME NEW n \in 0 .. Len(list) - 1, n \in good PROVE n + 1 \in good
    <2>1. PICK kept : kept = [i \in 0 .. n |-> RetainStep(list, doc, kept, i)]
        BY <1>2
    <2> DEFINE more == [i \in 0 .. n + 1 |->
                           IF i = n + 1 THEN RetainStep(list, doc, kept, n + 1) ELSE kept[i]]
    <2>2. \A i \in 0 .. n : more[i] = kept[i]
        OBVIOUS
    <2>3. \A i \in 0 .. n + 1 : i # 0 => i - 1 \in 0 .. n
        OBVIOUS
    <2>4. \A i \in 0 .. n + 1 : RetainStep(list, doc, more, i) = RetainStep(list, doc, kept, i)
        <3> HIDE DEF more
        <3> QED BY <2>2, <2>3 DEF RetainStep
    <2>5. \A i \in 0 .. n + 1 : more[i] = RetainStep(list, doc, kept, i)
        <3>1. \A i \in 0 .. n : kept[i] = RetainStep(list, doc, kept, i)
            BY <2>1
        <3>2. \A i \in 0 .. n + 1 : i # n + 1 => i \in 0 .. n
            OBVIOUS
        <3> QED BY <3>1, <3>2
    <2>6. more = [i \in 0 .. n + 1 |-> RetainStep(list, doc, more, i)]
        <3>1. \A i \in 0 .. n + 1 : more[i] = RetainStep(list, doc, more, i)
            BY <2>4, <2>5
        <3>2. more = [i \in 0 .. n + 1 |-> more[i]]
            OBVIOUS
        <3> HIDE DEF more
        <3> QED BY <3>1, <3>2
    <2> HIDE DEF more
    <2>7. n + 1 \in 0 .. Len(list)
        OBVIOUS
    <2> QED BY <2>6, <2>7
<1>3. Len(list) \in Nat /\ Len(list) \in 0 .. Len(list)
    OBVIOUS
<1> HIDE DEF good
<1>4. \A n \in 0 .. Len(list) : n \in good
    BY <1>1, <1>2, <1>3, UpTo
<1>5. Len(list) \in good
    BY <1>3, <1>4
<1> QED BY <1>5 DEF good

\* retain: the postings of the other documents, each at most once as before.
LEMMA OtherDocsKept ==
    ASSUME NEW list \in Seq(Posting), NEW doc
    PROVE  /\ OtherDocs(list, doc) \in Seq(Posting)
           /\ In(OtherDocs(list, doc)) = {p \in In(list) : p.docId # doc}
           /\ OnePerDoc(list) => OnePerDoc(OtherDocs(list, doc))
<1> DEFINE kept == CHOOSE kept : kept = [i \in 0 .. Len(list) |-> RetainStep(list, doc, kept, i)]
           good == {n \in 0 .. Len(list) : KeptOf(list, doc, n, kept[n])}
<1>1. OtherDocs(list, doc) = kept[Len(list)]
    BY DEF OtherDocs, RetainStep
<1>2. kept = [i \in 0 .. Len(list) |-> RetainStep(list, doc, kept, i)]
    BY RetainExists
<1> HIDE DEF kept
<1>3. \A i \in 0 .. Len(list) : kept[i] = RetainStep(list, doc, kept, i)
    BY <1>2
<1>4. Len(list) \in Nat /\ DOMAIN list = 1 .. Len(list)
    OBVIOUS
<1>5. 0 \in good
    <2>1. kept[0] = <<>>
        BY <1>3, <1>4 DEF RetainStep
    <2>2. /\ kept[0] \in Seq(Posting) /\ In(kept[0]) = {} /\ OnePerDoc(kept[0])
        BY <2>1 DEF In, OnePerDoc
    <2>3. {list[j] : j \in {j \in 1 .. 0 : list[j].docId # doc}} = {}
        OBVIOUS
    <2>4. KeptOf(list, doc, 0, kept[0])
        BY <2>2, <2>3 DEF KeptOf
    <2> QED BY <1>4, <2>4
<1>6. ASSUME NEW n \in 0 .. Len(list) - 1, n \in good PROVE n + 1 \in good
    <2> DEFINE i == n + 1
    <2>1. i \in 1 .. Len(list) /\ i - 1 = n /\ i # 0 /\ i \in 0 .. Len(list)
        BY <1>4
    <2> HIDE DEF i
    <2>2. kept[i] = IF list[i].docId # doc THEN Append(kept[n], list[i]) ELSE kept[n]
        BY <1>3, <2>1 DEF RetainStep
    <2>3. KeptOf(list, doc, n, kept[n])
        BY <1>6
    <2>4. KeptOf(list, doc, i - 1, kept[n])
        BY <2>1, <2>3
    <2>5. KeptOf(list, doc, i, IF list[i].docId # doc THEN Append(kept[n], list[i]) ELSE kept[n])
        BY <2>1, <2>4, KeepsNext
    <2>6. KeptOf(list, doc, i, kept[i])
        BY <2>2, <2>5
    <2> QED BY <2>1, <2>6 DEF i
<1> HIDE DEF good
<1>7. \A n \in 0 .. Len(list) : n \in good
    BY <1>4, <1>5, <1>6, UpTo
<1>8. KeptOf(list, doc, Len(list), kept[Len(list)])
    BY <1>4, <1>7 DEF good
<1> QED BY <1>1, <1>4, <1>8 DEF KeptOf, In

---------------------------------------------------------------------------
(* The inverted index *)

\* The postings are of documents the index has, one of a document in a list.
ListShape(index, list) ==
    /\ list \in Seq(Posting) \ {<<>>}
    /\ OnePerDoc(list)
    /\ \A p \in In(list) : p.docId \in DOMAIN index.docLengths

TextShape(index) ==
    /\ index.docLengths \in [DOMAIN index.docLengths -> Nat]
    /\ DOMAIN index.docLengths \subseteq Id
    /\ IsFiniteSet(DOMAIN index.docLengths)
    /\ index.totalDocLength \in Nat
    /\ index.docCount = Cardinality(DOMAIN index.docLengths)
    /\ index.postings = [t \in DOMAIN index.postings |-> index.postings[t]]
    /\ DOMAIN index.postings \subseteq Term
    /\ IsFiniteSet(DOMAIN index.postings)
    /\ \A t \in DOMAIN index.postings : ListShape(index, index.postings[t])

ListOf(index, t) == IF t \in DOMAIN index.postings THEN index.postings[t] ELSE <<>>

\* The postings of a document in the list of a term.
Own(index, id, t) == {p \in In(ListOf(index, t)) : p.docId = id}

\* What they are once the document is indexed by a text.
OwnOf(x, id, t) ==
    IF Frequency(x, t) = 0 THEN {} ELSE {[docId |-> id, termFreq |-> Frequency(x, t)]}

\* The empty index.
LEMMA NewTextShape ==
    /\ TextShape(NewTextIndex)
    /\ DOMAIN NewTextIndex.docLengths = {}
    /\ \A id, t : Own(NewTextIndex, id, t) = {}
<1>1. /\ NewTextIndex.postings = <<>> /\ NewTextIndex.docLengths = <<>>
      /\ NewTextIndex.totalDocLength = 0 /\ NewTextIndex.docCount = 0
    BY DEF NewTextIndex
<1>2. DOMAIN <<>> = {}
    OBVIOUS
<1>3. <<>> = [t \in DOMAIN <<>> |-> <<>>[t]] /\ <<>> \in [DOMAIN <<>> -> Nat]
    OBVIOUS
<1>4. TextShape(NewTextIndex)
    BY <1>1, <1>2, <1>3, FS_EmptySet DEF TextShape
<1>5. In(<<>>) = {}
    BY DEF In
<1> QED BY <1>1, <1>2, <1>4, <1>5 DEF Own, ListOf

\* remove_document: the document and its postings are gone, the others are left.
LEMMA DocumentRemoved ==
    ASSUME NEW index, TextShape(index), NEW doc
    PROVE  LET new == RemoveDocument(index, doc)
           IN  /\ TextShape(new)
               /\ DOMAIN new.docLengths = DOMAIN index.docLengths \ {doc}
               /\ \A d \in DOMAIN new.docLengths : new.docLengths[d] = index.docLengths[d]
               /\ \A id, t : Own(new, id, t) = IF id = doc THEN {} ELSE Own(index, id, t)
<1> DEFINE new == RemoveDocument(index, doc)
<1>1. CASE doc \notin DOMAIN index.docLengths
    <2>1. new = index
        BY <1>1 DEF RemoveDocument
    <2>2. \A t : Own(index, doc, t) = {}
        <3>1. In(<<>>) = {}
            BY DEF In
        <3> QED BY <1>1, <3>1 DEF Own, ListOf, TextShape, ListShape
    <2> QED BY <1>1, <2>1, <2>2
<1>2. CASE doc \in DOMAIN index.docLengths
    <2> DEFINE left == [t \in DOMAIN index.postings |-> OtherDocs(index.postings[t], doc)]
               kept == {t \in DOMAIN left : left[t] # <<>>}
               docs == DOMAIN index.docLengths \ {doc}
    <2>1. /\ new.postings = [t \in kept |-> left[t]]
          /\ new.docLengths = [d \in docs |-> index.docLengths[d]]
          /\ new.totalDocLength =
                SaturatingSub(index.totalDocLength, index.docLengths[doc])
          /\ new.docCount = SaturatingSub(index.docCount, 1)
        BY <1>2 DEF RemoveDocument
    <2>2. ASSUME NEW t \in DOMAIN index.postings
          PROVE  /\ left[t] \in Seq(Posting) /\ OnePerDoc(left[t])
                 /\ In(left[t]) = {p \in In(index.postings[t]) : p.docId # doc}
        <3>1. index.postings[t] \in Seq(Posting) /\ OnePerDoc(index.postings[t])
            BY DEF TextShape, ListShape
        <3> QED BY <3>1, OtherDocsKept
    <2>3. DOMAIN left = DOMAIN index.postings /\ kept \subseteq DOMAIN index.postings
        OBVIOUS
    <2> HIDE DEF new, left
    <2>4. DOMAIN new.docLengths = docs /\ \A d \in docs : new.docLengths[d] = index.docLengths[d]
        BY <2>1
    <2>5. DOMAIN new.postings = kept /\ \A t \in kept : new.postings[t] = left[t]
        BY <2>1
    <2>6. new.docLengths \in [docs -> Nat] /\ docs \subseteq Id
        BY <2>1 DEF TextShape
    <2>7. /\ IsFiniteSet(docs) /\ Cardinality(docs) = Cardinality(DOMAIN index.docLengths) - 1
          /\ Cardinality(DOMAIN index.docLengths) \in Nat /\ Cardinality(docs) \in Nat
        BY <1>2, FS_RemoveElement, FS_CardinalityType DEF TextShape
    <2>8. new.docCount = Cardinality(docs)
        BY <2>1, <2>7 DEF TextShape, SaturatingSub
    <2>9. new.totalDocLength \in Nat
        <3>1. index.totalDocLength \in Nat /\ index.docLengths[doc] \in Nat
            BY <1>2 DEF TextShape
        <3> QED BY <2>1, <3>1 DEF SaturatingSub
    <2>10. kept \subseteq Term /\ IsFiniteSet(kept)
        BY <2>3, FS_Subset DEF TextShape
    <2>11. \A t \in kept : ListShape(new, new.postings[t])
        <3> SUFFICES ASSUME NEW t \in kept PROVE ListShape(new, new.postings[t])
            OBVIOUS
        <3>1. new.postings[t] \in Seq(Posting) \ {<<>>} /\ OnePerDoc(new.postings[t])
            BY <2>2, <2>3, <2>5
        <3>2. ASSUME NEW p \in In(new.postings[t]) PROVE p.docId \in docs
            BY <2>2, <2>3, <2>5 DEF TextShape, ListShape
        <3> QED BY <2>4, <3>1, <3>2 DEF ListShape
    <2>12. new.postings = [t \in DOMAIN new.postings |-> new.postings[t]]
        BY <2>1, <2>5
    <2>13. TextShape(new)
        BY <2>4, <2>5, <2>6, <2>7, <2>8, <2>9, <2>10, <2>11, <2>12 DEF TextShape
    <2>14. ASSUME NEW t
           PROVE  In(ListOf(new, t)) = {p \in In(ListOf(index, t)) : p.docId # doc}
        <3>1. In(<<>>) = {}
            BY DEF In
        <3>2. CASE t \in kept
            BY <2>2, <2>3, <2>5, <3>2 DEF ListOf
        <3>3. CASE t \in DOMAIN index.postings \ kept
            <4>1. left[t] = <<>>
                BY <2>3, <3>3
            <4> QED BY <2>2, <2>5, <3>1, <3>3, <4>1 DEF ListOf
        <3>4. CASE t \notin DOMAIN index.postings
            BY <2>3, <2>5, <3>1, <3>4 DEF ListOf
        <3> QED BY <3>2, <3>3, <3>4
    <2>15. \A id, t : Own(new, id, t) = IF id = doc THEN {} ELSE Own(index, id, t)
        BY <2>14 DEF Own
    <2> QED BY <2>4, <2>13, <2>15 DEF new
<1> QED BY <1>1, <1>2

\* The words of a text, and how often they occur.
LEMMA WordsOf ==
    ASSUME NEW x \in Seq(Term)
    PROVE  /\ IsFiniteSet({x[i] : i \in DOMAIN x})
           /\ {x[i] : i \in DOMAIN x} \subseteq Term
           /\ \A t : Frequency(x, t) \in Nat
           /\ \A t : Frequency(x, t) = 0 <=> t \notin {x[i] : i \in DOMAIN x}
<1> DEFINE words == {x[i] : i \in DOMAIN x}
<1>1. DOMAIN x = 1 .. Len(x) /\ Len(x) \in Nat /\ x = [i \in DOMAIN x |-> x[i]]
    OBVIOUS
<1>2. IsFiniteSet(DOMAIN x)
    <2> DEFINE n == Len(x)
    <2>1. n \in Int
        BY <1>1
    <2> HIDE DEF n
    <2>2. IsFiniteSet(1 .. n)
        BY <2>1, FS_Interval
    <2> QED BY <1>1, <2>2 DEF n
<1>3. x \in Surjection(DOMAIN x, words)
    BY <1>1 DEF Surjection
<1>4. IsFiniteSet(words)
    BY <1>2, <1>3, FS_Surjection
<1>5. words \subseteq Term
    BY <1>1, ElementOfSeq
<1>6. ASSUME NEW t
      PROVE  Frequency(x, t) \in Nat /\ (Frequency(x, t) = 0 <=> t \notin words)
    <2> DEFINE at == {i \in DOMAIN x : x[i] = t}
    <2>1. at \subseteq DOMAIN x /\ Frequency(x, t) = Cardinality(at)
        BY DEF Frequency
    <2>2. at = {} <=> t \notin words
        OBVIOUS
    <2> HIDE DEF at
    <2>3. IsFiniteSet(at)
        BY <1>2, <2>1, FS_Subset
    <2> QED BY <2>1, <2>2, <2>3, FS_CardinalityType, FS_EmptySet
<1> QED BY <1>4, <1>5, <1>6

\* index_document of a document without postings: those of its text are added.
LEMMA DocumentAdded ==
    ASSUME NEW index, TextShape(index), NEW doc \in Id, doc \notin DOMAIN index.docLengths,
           NEW x \in Seq(Term)
    PROVE  LET new == AddDocument(index, doc, x)
           IN  /\ TextShape(new)
               /\ DOMAIN new.docLengths = DOMAIN index.docLengths \cup {doc}
               /\ new.docLengths[doc] = Len(x)
               /\ \A d \in DOMAIN index.docLengths : new.docLengths[d] = index.docLengths[d]
               /\ \A id, t : Own(new, id, t) =
                     IF id = doc THEN OwnOf(x, doc, t) ELSE Own(index, id, t)
<1> DEFINE new == AddDocument(index, doc, x)
           words == {x[i] : i \in DOMAIN x}
           posting(t) == [docId |-> doc, termFreq |-> Frequency(x, t)]
           docs == DOMAIN index.docLengths \cup {doc}
           terms == DOMAIN index.postings \cup words
<1>1. /\ new.postings = [t \in terms |->
            IF t \in words THEN Append(ListOf(index, t), posting(t)) ELSE ListOf(index, t)]
      /\ new.docLengths = [d \in docs |-> IF d = doc THEN Len(x) ELSE index.docLengths[d]]
      /\ new.totalDocLength = index.totalDocLength + Len(x)
      /\ new.docCount = index.docCount + 1
    BY DEF AddDocument, ListOf
<1>2. /\ IsFiniteSet(words) /\ words \subseteq Term /\ \A t : Frequency(x, t) \in Nat
      /\ \A t : Frequency(x, t) = 0 <=> t \notin words
    BY WordsOf
<1>3. \A t : posting(t) \in Posting /\ posting(t).docId = doc
    BY <1>2 DEF Posting
<1> HIDE DEF new, words
<1>4. /\ DOMAIN new.docLengths = docs /\ new.docLengths[doc] = Len(x)
      /\ \A d \in DOMAIN index.docLengths : new.docLengths[d] = index.docLengths[d]
    BY <1>1
<1>5. /\ DOMAIN new.postings = terms
      /\ new.postings = [t \in DOMAIN new.postings |-> new.postings[t]]
    BY <1>1
<1>6. Len(x) \in Nat
    OBVIOUS
<1>7. new.docLengths \in [docs -> Nat] /\ docs \subseteq Id /\ new.totalDocLength \in Nat
    BY <1>1, <1>6 DEF TextShape
<1>8. IsFiniteSet(docs) /\ Cardinality(docs) = new.docCount
    <2>1. IsFiniteSet(DOMAIN index.docLengths)
          /\ index.docCount = Cardinality(DOMAIN index.docLengths)
        BY DEF TextShape
    <2>2. /\ IsFiniteSet(DOMAIN index.docLengths \cup {doc})
          /\ Cardinality(DOMAIN index.docLengths \cup {doc}) =
                Cardinality(DOMAIN index.docLengths) + 1
        BY <2>1, FS_AddElement
    <2> QED BY <1>1, <2>1, <2>2
<1>9. IsFiniteSet(terms) /\ terms \subseteq Term
    BY <1>2, FS_Union DEF TextShape
<1>10. ASSUME NEW t
       PROVE  /\ ListOf(index, t) \in Seq(Posting) /\ OnePerDoc(ListOf(index, t))
              /\ \A p \in In(ListOf(index, t)) : p.docId \in DOMAIN index.docLengths
              /\ t \in DOMAIN index.postings => ListOf(index, t) # <<>>
    <2>1. <<>> \in Seq(Posting) /\ OnePerDoc(<<>>) /\ In(<<>>) = {}
        BY DEF OnePerDoc, In
    <2> QED BY <2>1 DEF ListOf, TextShape, ListShape
<1>11. ASSUME NEW t \in words
       PROVE  LET list == new.postings[t]
              IN  /\ list \in Seq(Posting) \ {<<>>} /\ OnePerDoc(list)
                  /\ In(list) = In(ListOf(index, t)) \cup {posting(t)}
    <2> DEFINE old == ListOf(index, t)
               list == new.postings[t]
               p == posting(t)
    <2>1. list = Append(old, p)
        BY <1>1
    <2>2. old \in Seq(Posting) /\ DOMAIN old = 1 .. Len(old) /\ Len(old) \in Nat
        BY <1>10
    <2>3. p \in Posting /\ p.docId = doc
        BY <1>3
    <2>9. OnePerDoc(old) /\ \A q \in In(old) : q.docId # doc
        BY <1>10
    <2> HIDE DEF old, list, p
    <2>4. /\ list \in Seq(Posting) /\ list # <<>> /\ DOMAIN list = 1 .. Len(old) + 1
          /\ \A i \in 1 .. Len(old) : list[i] = old[i]
          /\ list[Len(old) + 1] = p
        BY <2>1, <2>2, <2>3, AppendProperties
    <2>5. 1 .. Len(old) + 1 = (1 .. Len(old)) \cup {Len(old) + 1}
        BY <2>2
    <2>6. In(list) = In(old) \cup {p}
        BY <2>2, <2>4, <2>5 DEF In
    <2>7. OnePerDoc(list)
        <3>1. \A i \in 1 .. Len(old) : list[i].docId # doc
            BY <2>2, <2>4, <2>9 DEF In
        <3>2. \A i, j \in 1 .. Len(old) : list[i].docId = list[j].docId => i = j
            BY <2>2, <2>4, <2>9 DEF OnePerDoc
        <3> QED BY <2>3, <2>4, <2>5, <3>1, <3>2 DEF OnePerDoc
    <2> QED BY <2>4, <2>6, <2>7 DEF list, old, p
<1>12. ASSUME NEW t \in terms \ words PROVE new.postings[t] = ListOf(index, t)
    BY <1>1
<1>13. \A t \in terms : ListShape(new, new.postings[t])
    <2> SUFFICES ASSUME NEW t \in terms PROVE ListShape(new, new.postings[t])
        OBVIOUS
    <2>1. CASE t \in words
        <3>1. new.postings[t] \in Seq(Posting) \ {<<>>} /\ OnePerDoc(new.postings[t])
            BY <1>11, <2>1
        <3>2. In(new.postings[t]) = In(ListOf(index, t)) \cup {posting(t)}
            BY <1>11, <2>1
        <3>3. \A p \in In(new.postings[t]) : p.docId \in docs
            BY <1>3, <1>10, <3>2
        <3> QED BY <1>4, <3>1, <3>3 DEF ListShape
    <2>2. CASE t \notin words
        <3>1. new.postings[t] = ListOf(index, t) /\ t \in DOMAIN index.postings
            BY <1>12, <2>2
        <3> QED BY <1>4, <1>10, <3>1 DEF ListShape
    <2> QED BY <2>1, <2>2
<1>14. TextShape(new)
    BY <1>4, <1>5, <1>7, <1>8, <1>9, <1>13 DEF TextShape
<1>15. ASSUME NEW t
       PROVE  In(ListOf(new, t)) =
                 In(ListOf(index, t)) \cup (IF t \in words THEN {posting(t)} ELSE {})
    <2>1. CASE t \in words
        <3>1. ListOf(new, t) = new.postings[t]
            BY <1>5, <2>1 DEF ListOf
        <3> QED BY <1>11, <2>1, <3>1
    <2>2. CASE t \in terms \ words
        <3>1. ListOf(new, t) = new.postings[t]
            BY <1>5, <2>2 DEF ListOf
        <3> QED BY <1>12, <2>2, <3>1
    <2>3. CASE t \notin terms
        BY <1>5, <2>3 DEF ListOf
    <2> QED BY <2>1, <2>2, <2>3
<1>16. ASSUME NEW id, NEW t
       PROVE  Own(new, id, t) = IF id = doc THEN OwnOf(x, doc, t) ELSE Own(index, id, t)
    <2>1. \A p \in In(ListOf(index, t)) : p.docId # doc
        BY <1>10
    <2>2. OwnOf(x, doc, t) = IF t \in words THEN {posting(t)} ELSE {}
        BY <1>2 DEF OwnOf
    <2> DEFINE p == posting(t)
    <2>3. p.docId = doc
        BY <1>3
    <2>4. In(ListOf(new, t)) = In(ListOf(index, t)) \cup (IF t \in words THEN {p} ELSE {})
        BY <1>15
    <2>5. OwnOf(x, doc, t) = IF t \in words THEN {p} ELSE {}
        BY <2>2
    <2> HIDE DEF p
    <2> QED BY <2>1, <2>3, <2>4, <2>5 DEF Own
<1> QED BY <1>4, <1>14, <1>16 DEF new

\* index_document: the postings of the text in place of those before.
LEMMA DocumentIndexed ==
    ASSUME NEW index, TextShape(index), NEW doc \in Id, NEW x \in Seq(Term)
    PROVE  LET new == IndexDocument(index, doc, x)
           IN  /\ TextShape(new)
               /\ DOMAIN new.docLengths = DOMAIN index.docLengths \cup {doc}
               /\ \A id, t : Own(new, id, t) =
                     IF id = doc THEN OwnOf(x, doc, t) ELSE Own(index, id, t)
<1> DEFINE mid == RemoveDocument(index, doc)
           new == IndexDocument(index, doc, x)
<1>1. /\ TextShape(mid) /\ DOMAIN mid.docLengths = DOMAIN index.docLengths \ {doc}
      /\ \A id, t : Own(mid, id, t) = IF id = doc THEN {} ELSE Own(index, id, t)
    BY DocumentRemoved
<1>2. new = AddDocument(mid, doc, x)
    BY DEF IndexDocument
<1> HIDE DEF mid, new
<1>3. doc \notin DOMAIN mid.docLengths
    BY <1>1
<1>4. /\ TextShape(new)
      /\ DOMAIN new.docLengths = DOMAIN mid.docLengths \cup {doc}
      /\ \A id, t : Own(new, id, t) =
            IF id = doc THEN OwnOf(x, doc, t) ELSE Own(mid, id, t)
    BY <1>1, <1>2, <1>3, DocumentAdded
<1>5. \A id, t : Own(new, id, t) =
          IF id = doc THEN OwnOf(x, doc, t) ELSE Own(index, id, t)
    BY <1>1, <1>4
<1>6. DOMAIN new.docLengths = DOMAIN index.docLengths \cup {doc}
    BY <1>1, <1>4
<1> QED BY <1>4, <1>5, <1>6 DEF new

---------------------------------------------------------------------------
(* The aggregates of the inverted index *)

\* The postings of a document are those of a text as long as its length.
Indexes(index, id) ==
    \E x \in Seq(Term) :
        index.docLengths[id] = Len(x) /\ \A t : Own(index, id, t) = OwnOf(x, id, t)

TextCounts(index) ==
    /\ index.totalDocLength = Sum(index.docLengths)
    /\ \A id \in DOMAIN index.docLengths : Indexes(index, id)

LEMMA NewTextCounts == TextCounts(NewTextIndex)
<1>1. /\ NewTextIndex.docLengths = <<>> /\ NewTextIndex.totalDocLength = 0
      /\ DOMAIN NewTextIndex.docLengths = {}
    BY DEF NewTextIndex
<1>2. Sum(NewTextIndex.docLengths) = 0
    <2> DEFINE f == NewTextIndex.docLengths
    <2>1. DOMAIN f = {} /\ IsFiniteSet({}) /\ \A d \in {} : f[d] \in Nat
        BY <1>1, FS_EmptySet
    <2> HIDE DEF f
    <2>2. Sum(f) = 0
        BY <2>1, SumTakesAny
    <2> QED BY <2>2 DEF f
<1> QED BY <1>1, <1>2 DEF TextCounts

\* remove_document takes a length off the total, and no other document's.
LEMMA CountsRemoved ==
    ASSUME NEW index, TextShape(index), TextCounts(index), NEW doc
    PROVE  TextCounts(RemoveDocument(index, doc))
<1> DEFINE new == RemoveDocument(index, doc)
<1>1. CASE doc \notin DOMAIN index.docLengths
    BY <1>1 DEF RemoveDocument
<1>2. CASE doc \in DOMAIN index.docLengths
    <2>1. /\ new.docLengths = Without(index.docLengths, doc)
          /\ new.totalDocLength =
                SaturatingSub(index.totalDocLength, index.docLengths[doc])
        BY <1>2 DEF RemoveDocument, Without
    <2>2. /\ DOMAIN new.docLengths = DOMAIN index.docLengths \ {doc}
          /\ \A d \in DOMAIN new.docLengths : new.docLengths[d] = index.docLengths[d]
          /\ \A id, t : Own(new, id, t) = IF id = doc THEN {} ELSE Own(index, id, t)
        BY DocumentRemoved
    <2> HIDE DEF new
    <2>3. new.totalDocLength = Sum(new.docLengths)
        <3> DEFINE f == index.docLengths
        <3>1. IsFiniteSet(DOMAIN f) /\ \A d \in DOMAIN f : f[d] \in Nat
            BY DEF TextShape
        <3>2. index.totalDocLength = Sum(f)
            BY DEF TextCounts
        <3>3. doc \in DOMAIN f
            BY <1>2
        <3> HIDE DEF f
        <3>4. Sum(f) = f[doc] + Sum(Without(f, doc)) /\ Sum(Without(f, doc)) \in Nat
            BY <3>1, <3>3, SumTakesAny
        <3>5. f[doc] \in Nat
            BY <3>1, <3>3
        <3>6. SaturatingSub(Sum(f), f[doc]) = Sum(Without(f, doc))
            BY <3>4, <3>5 DEF SaturatingSub
        <3> QED BY <2>1, <3>2, <3>6 DEF f
    <2>4. ASSUME NEW id \in DOMAIN new.docLengths PROVE Indexes(new, id)
        <3>1. id \in DOMAIN index.docLengths /\ id # doc
            BY <2>2
        <3>2. PICK x \in Seq(Term) : /\ index.docLengths[id] = Len(x)
                                     /\ \A t : Own(index, id, t) = OwnOf(x, id, t)
            BY <3>1 DEF TextCounts, Indexes
        <3>3. \A t : Own(new, id, t) = OwnOf(x, id, t)
            BY <2>2, <3>1, <3>2
        <3>4. new.docLengths[id] = Len(x)
            BY <2>2, <3>2
        <3> QED BY <3>3, <3>4 DEF Indexes
    <2> QED BY <2>3, <2>4 DEF TextCounts, new
<1> QED BY <1>1, <1>2

\* index_document of a new document adds its length to the total.
LEMMA CountsAdded ==
    ASSUME NEW index, TextShape(index), TextCounts(index),
           NEW doc \in Id, doc \notin DOMAIN index.docLengths, NEW x \in Seq(Term)
    PROVE  TextCounts(AddDocument(index, doc, x))
<1> DEFINE new == AddDocument(index, doc, x)
<1>1. /\ TextShape(new)
      /\ DOMAIN new.docLengths = DOMAIN index.docLengths \cup {doc}
      /\ new.docLengths[doc] = Len(x)
      /\ \A d \in DOMAIN index.docLengths : new.docLengths[d] = index.docLengths[d]
      /\ \A id, t : Own(new, id, t) =
            IF id = doc THEN OwnOf(x, doc, t) ELSE Own(index, id, t)
    BY DocumentAdded
<1>2. new.totalDocLength = index.totalDocLength + Len(x)
    BY DEF AddDocument
<1> HIDE DEF new
<1>3. new.totalDocLength = Sum(new.docLengths)
    <2> DEFINE f == new.docLengths
    <2>1. IsFiniteSet(DOMAIN f) /\ \A d \in DOMAIN f : f[d] \in Nat
        BY <1>1 DEF TextShape
    <2>2. doc \in DOMAIN f /\ f[doc] = Len(x) /\ Len(x) \in Nat
        BY <1>1
    <2>3. Without(f, doc) = index.docLengths
        <3>1. index.docLengths = [d \in DOMAIN index.docLengths |-> index.docLengths[d]]
            BY DEF TextShape
        <3>2. (DOMAIN index.docLengths \cup {doc}) \ {doc} = DOMAIN index.docLengths
            OBVIOUS
        <3>3. Without(f, doc) = [d \in DOMAIN index.docLengths |-> f[d]]
            BY <1>1, <3>2 DEF Without
        <3> QED BY <1>1, <3>1, <3>3
    <2> HIDE DEF f
    <2>4. Sum(f) = f[doc] + Sum(Without(f, doc)) /\ Sum(Without(f, doc)) \in Nat
        BY <2>1, <2>2, SumTakesAny
    <2>5. index.totalDocLength = Sum(Without(f, doc))
        BY <2>3 DEF TextCounts
    <2>6. new.totalDocLength = Sum(f)
        BY <1>2, <2>2, <2>4, <2>5
    <2> QED BY <2>6 DEF f
<1>4. ASSUME NEW id \in DOMAIN new.docLengths PROVE Indexes(new, id)
    <2>1. CASE id = doc
        BY <1>1, <2>1 DEF Indexes
    <2>2. CASE id # doc
        <3>1. id \in DOMAIN index.docLengths
            BY <1>1, <2>2
        <3>2. PICK y \in Seq(Term) : /\ index.docLengths[id] = Len(y)
                                     /\ \A t : Own(index, id, t) = OwnOf(y, id, t)
            BY <3>1 DEF TextCounts, Indexes
        <3>3. \A t : Own(new, id, t) = OwnOf(y, id, t)
            BY <1>1, <2>2, <3>2
        <3>4. new.docLengths[id] = Len(y)
            BY <1>1, <3>1, <3>2
        <3> QED BY <3>3, <3>4 DEF Indexes
    <2> QED BY <2>1, <2>2
<1> QED BY <1>3, <1>4 DEF TextCounts, new

LEMMA CountsIndexed ==
    ASSUME NEW index, TextShape(index), TextCounts(index), NEW doc \in Id, NEW x \in Seq(Term)
    PROVE  TextCounts(IndexDocument(index, doc, x))
<1> DEFINE mid == RemoveDocument(index, doc)
<1>1. TextShape(mid) /\ DOMAIN mid.docLengths = DOMAIN index.docLengths \ {doc}
    BY DocumentRemoved
<1>2. TextCounts(mid)
    BY CountsRemoved
<1>3. IndexDocument(index, doc, x) = AddDocument(mid, doc, x)
    BY DEF IndexDocument
<1> HIDE DEF mid
<1> QED BY <1>1, <1>2, <1>3, CountsAdded

\* The frequency of a term in a document, from the postings of the term.
LEMMA SumOfOwn ==
    ASSUME NEW list \in Seq(Posting), OnePerDoc(list), NEW id, NEW n \in Nat,
           {p \in In(list) : p.docId = id} =
               IF n = 0 THEN {} ELSE {[docId |-> id, termFreq |-> n]}
    PROVE  Sum([i \in DOMAIN list |->
                   IF list[i].docId = id THEN list[i].termFreq ELSE 0]) = n
<1> DEFINE f == [i \in DOMAIN list |-> IF list[i].docId = id THEN list[i].termFreq ELSE 0]
<1>1. DOMAIN list = 1 .. Len(list) /\ Len(list) \in Nat
      /\ \A i \in DOMAIN list : list[i] \in Posting /\ list[i] \in In(list)
    BY ElementOfSeq DEF In
<1>2. IsFiniteSet(DOMAIN list)
    <2> DEFINE m == Len(list)
    <2>1. m \in Int
        BY <1>1
    <2> HIDE DEF m
    <2>2. IsFiniteSet(1 .. m)
        BY <2>1, FS_Interval
    <2> QED BY <1>1, <2>2 DEF m
<1>3. CASE n = 0
    <2>1. \A i \in DOMAIN list : list[i].docId # id
        BY <1>1, <1>3
    <2>2. f = [i \in DOMAIN list |-> 0]
        BY <2>1
    <2> HIDE DEF f
    <2>3. Sum(f) = 0
        BY <1>2, <2>2, SumOfZeros
    <2> QED BY <1>3, <2>3 DEF f
<1>4. CASE n # 0
    <2> DEFINE own == [docId |-> id, termFreq |-> n]
    <2>1. own \in In(list) /\ own.docId = id /\ own.termFreq = n
        BY <1>4
    <2> HIDE DEF own
    <2>2. PICK j \in DOMAIN list : list[j] = own
        BY <2>1 DEF In
    <2>3. \A i \in DOMAIN list : list[i].docId = id <=> i = j
        BY <2>1, <2>2 DEF OnePerDoc
    <2>4. DOMAIN f = DOMAIN list /\ f[j] = n /\ \A i \in DOMAIN list : f[i] \in Nat
        BY <1>1, <2>1, <2>2, <2>3 DEF Posting
    <2>5. Without(f, j) = [i \in DOMAIN list \ {j} |-> 0]
        BY <2>3 DEF Without
    <2>6. IsFiniteSet(DOMAIN list \ {j})
        BY <1>2, FS_Subset
    <2> HIDE DEF f
    <2>7. Sum(Without(f, j)) = 0
        BY <2>5, <2>6, SumOfZeros
    <2>8. Sum(f) = f[j] + Sum(Without(f, j))
        BY <1>2, <2>2, <2>4, SumTakesAny
    <2> QED BY <2>4, <2>7, <2>8 DEF f
<1> QED BY <1>3, <1>4

\* The frequencies of a document add up to its length.
LEMMA LengthIsSum ==
    ASSUME NEW index, TextShape(index), NEW id, Indexes(index, id)
    PROVE  index.docLengths[id] = Sum([t \in DOMAIN index.postings |->
               Sum([i \in DOMAIN index.postings[t] |->
                   IF index.postings[t][i].docId = id
                   THEN index.postings[t][i].termFreq ELSE 0])])
<1>1. PICK x \in Seq(Term) : /\ index.docLengths[id] = Len(x)
                             /\ \A t : Own(index, id, t) = OwnOf(x, id, t)
    BY DEF Indexes
<1>2. /\ \A t : Frequency(x, t) \in Nat
      /\ \A t : Frequency(x, t) = 0 <=> t \notin {x[i] : i \in DOMAIN x}
    BY WordsOf
<1> DEFINE inner(t) == Sum([i \in DOMAIN index.postings[t] |->
                               IF index.postings[t][i].docId = id
                               THEN index.postings[t][i].termFreq ELSE 0])
<1>3. ASSUME NEW t \in DOMAIN index.postings PROVE inner(t) = Frequency(x, t)
    <2> DEFINE list == index.postings[t]
               n == Frequency(x, t)
    <2>1. list \in Seq(Posting) /\ OnePerDoc(list) /\ ListOf(index, t) = list
        BY DEF TextShape, ListShape, ListOf
    <2>2. {p \in In(list) : p.docId = id} =
              IF n = 0 THEN {} ELSE {[docId |-> id, termFreq |-> n]}
        BY <1>1, <2>1 DEF Own, OwnOf
    <2>3. n \in Nat
        BY <1>2
    <2> HIDE DEF list, n
    <2>4. Sum([i \in DOMAIN list |->
                   IF list[i].docId = id THEN list[i].termFreq ELSE 0]) = n
        BY <2>1, <2>2, <2>3, SumOfOwn
    <2> QED BY <2>4 DEF list, n
<1>4. {x[i] : i \in DOMAIN x} \subseteq DOMAIN index.postings
    <2> SUFFICES ASSUME NEW t \in {x[i] : i \in DOMAIN x}, t \notin DOMAIN index.postings
                 PROVE  FALSE
        OBVIOUS
    <2>1. Own(index, id, t) = {}
        BY DEF Own, ListOf, In
    <2>2. OwnOf(x, id, t) # {}
        BY <1>2 DEF OwnOf
    <2> QED BY <1>1, <2>1, <2>2
<1>5. IsFiniteSet(DOMAIN index.postings)
    BY DEF TextShape
<1>6. Sum([t \in DOMAIN index.postings |-> Frequency(x, t)]) = Len(x)
    BY <1>4, <1>5, SumOfFrequencies
<1> HIDE DEF inner
<1>7. [t \in DOMAIN index.postings |-> inner(t)] =
          [t \in DOMAIN index.postings |-> Frequency(x, t)]
    BY <1>3
<1>8. index.docLengths[id] = Sum([t \in DOMAIN index.postings |-> inner(t)])
    BY <1>1, <1>6, <1>7
<1> QED BY <1>8 DEF inner

---------------------------------------------------------------------------
(* A document and the two indexes *)

\* The indexes hold d under id, or nothing when d is None.
Holds(vs, ts, id, d) ==
    /\ \A v : <<id, v>> \in VectorsOf(vs) <=> d # None /\ v = d.vec
    /\ id \in DOMAIN ts.docLengths <=> d # None
    /\ d # None => \A t \in Term : Own(ts, id, t) = OwnOf(d.text, id, t)

\* The ids of an index of vectors.
IdsIn(vs) == {p[1] : p \in VectorsOf(vs)}

LEMMA IdsOfVectors ==
    /\ Indexed = IdsIn(vectors)
    /\ \A vs, p : p \in VectorsOf(vs) => p = <<p[1], p[2]>>
<1>1. IdsIn(vectors) \subseteq Indexed
    BY DEF Indexed, IdsIn, VectorsOf
<1>2. ASSUME NEW i \in DOMAIN vectors.ids PROVE vectors.ids[i] \in IdsIn(vectors)
    <2>1. <<vectors.ids[i], Row(vectors, i)>> \in VectorsOf(vectors)
        BY DEF VectorsOf
    <2>2. <<vectors.ids[i], Row(vectors, i)>>[1] = vectors.ids[i]
        OBVIOUS
    <2> QED BY <2>1, <2>2 DEF IdsIn
<1>3. \A vs, p : p \in VectorsOf(vs) => p = <<p[1], p[2]>>
    BY DEF VectorsOf
<1> QED BY <1>1, <1>2, <1>3 DEF Indexed

LEMMA NothingHeld ==
    /\ VectorShape(NewVectorIndex) /\ TextShape(NewTextIndex)
    /\ IdsIn(NewVectorIndex) = {} /\ DOMAIN NewTextIndex.docLengths = {}
    /\ \A id : Holds(NewVectorIndex, NewTextIndex, id, None)
<1>1. VectorsOf(NewVectorIndex) = {}
    BY DEF VectorsOf, NewVectorIndex
<1>2. VectorShape(NewVectorIndex)
    BY VectorIndexAssumption DEF VectorShape, NewVectorIndex, Distinct
<1> QED BY <1>1, <1>2, NewTextShape DEF IdsIn, Holds

\* Indexing a document in both makes them hold it, and changes no other one.
LEMMA IndexingHolds ==
    ASSUME NEW vs, VectorShape(vs), NEW ts, TextShape(ts),
           IdsIn(vs) = DOMAIN ts.docLengths,
           NEW id \in Id, NEW d \in Doc, Fits(d.vec)
    PROVE  LET vs2 == Insert(vs, id, d.vec)
               ts2 == IndexDocument(ts, id, d.text)
           IN  /\ VectorShape(vs2) /\ TextShape(ts2)
               /\ IdsIn(vs2) = DOMAIN ts2.docLengths
               /\ Holds(vs2, ts2, id, d)
               /\ \A other, e : other # id /\ Holds(vs, ts, other, e)
                                    => Holds(vs2, ts2, other, e)
<1> DEFINE vs2 == Insert(vs, id, d.vec)
           ts2 == IndexDocument(ts, id, d.text)
<1>1. /\ d.vec \in Seq(Component) /\ Len(d.vec) = Dim /\ d.text \in Seq(Term) /\ d # None
    BY EngineAssumption, VectorIndexAssumption, TextIndexAssumption DEF Fits, Component
<1>2. /\ VectorShape(vs2)
      /\ VectorsOf(vs2) = {p \in VectorsOf(vs) : p[1] # id} \cup {<<id, d.vec>>}
    BY <1>1, InsertSets
<1>3. /\ TextShape(ts2)
      /\ DOMAIN ts2.docLengths = DOMAIN ts.docLengths \cup {id}
      /\ \A i, t : Own(ts2, i, t) =
            IF i = id THEN OwnOf(d.text, id, t) ELSE Own(ts, i, t)
    BY <1>1, DocumentIndexed
<1> HIDE DEF vs2, ts2
<1>4. IdsIn(vs2) = DOMAIN ts2.docLengths
    <2>1. IdsIn(vs2) = IdsIn(vs) \cup {id}
        <3>1. <<id, d.vec>>[1] = id /\ <<id, d.vec>> \in VectorsOf(vs2)
            BY <1>2
        <3>2. IdsIn(vs2) \subseteq IdsIn(vs) \cup {id}
            BY <1>2, <3>1 DEF IdsIn
        <3>3. id \in IdsIn(vs2)
            BY <3>1 DEF IdsIn
        <3>4. ASSUME NEW p \in VectorsOf(vs) PROVE p[1] \in IdsIn(vs2)
            <4>1. CASE p[1] = id
                BY <3>3, <4>1
            <4>2. CASE p[1] # id
                BY <1>2, <4>2 DEF IdsIn
            <4> QED BY <4>1, <4>2
        <3> QED BY <3>2, <3>3, <3>4 DEF IdsIn
    <2> QED BY <1>3, <2>1
<1>5. Holds(vs2, ts2, id, d)
    BY <1>1, <1>2, <1>3 DEF Holds
<1>6. ASSUME NEW other, NEW e, other # id, Holds(vs, ts, other, e)
      PROVE  Holds(vs2, ts2, other, e)
    <2>1. \A v : <<other, v>> \in VectorsOf(vs2) <=> <<other, v>> \in VectorsOf(vs)
        BY <1>2, <1>6
    <2>2. other \in DOMAIN ts2.docLengths <=> other \in DOMAIN ts.docLengths
        BY <1>3, <1>6
    <2>3. \A t : Own(ts2, other, t) = Own(ts, other, t)
        BY <1>3, <1>6
    <2> QED BY <1>6, <2>1, <2>2, <2>3 DEF Holds
<1> QED BY <1>2, <1>3, <1>4, <1>5, <1>6 DEF vs2, ts2

\* Removing a document from both makes them hold none, and changes no other one.
LEMMA RemovingHolds ==
    ASSUME NEW vs, VectorShape(vs), NEW ts, TextShape(ts),
           IdsIn(vs) = DOMAIN ts.docLengths,
           NEW id \in Id
    PROVE  LET vs2 == Remove(vs, id)
               ts2 == RemoveDocument(ts, id)
           IN  /\ VectorShape(vs2) /\ TextShape(ts2)
               /\ IdsIn(vs2) = DOMAIN ts2.docLengths
               /\ Holds(vs2, ts2, id, None)
               /\ \A other, e : other # id /\ Holds(vs, ts, other, e)
                                    => Holds(vs2, ts2, other, e)
<1> DEFINE vs2 == Remove(vs, id)
           ts2 == RemoveDocument(ts, id)
<1>1. /\ VectorShape(vs2)
      /\ VectorsOf(vs2) = {p \in VectorsOf(vs) : p[1] # id}
    BY RemoveLeaves
<1>2. /\ TextShape(ts2)
      /\ DOMAIN ts2.docLengths = DOMAIN ts.docLengths \ {id}
      /\ \A i, t : Own(ts2, i, t) = IF i = id THEN {} ELSE Own(ts, i, t)
    BY DocumentRemoved
<1> HIDE DEF vs2, ts2
<1>3. IdsIn(vs2) = DOMAIN ts2.docLengths
    <2>1. IdsIn(vs2) = IdsIn(vs) \ {id}
        BY <1>1 DEF IdsIn
    <2> QED BY <1>2, <2>1
<1>4. Holds(vs2, ts2, id, None)
    BY <1>1, <1>2 DEF Holds
<1>5. ASSUME NEW other, NEW e, other # id, Holds(vs, ts, other, e)
      PROVE  Holds(vs2, ts2, other, e)
    <2>1. \A v : <<other, v>> \in VectorsOf(vs2) <=> <<other, v>> \in VectorsOf(vs)
        BY <1>1, <1>5
    <2>2. other \in DOMAIN ts2.docLengths <=> other \in DOMAIN ts.docLengths
        BY <1>2, <1>5
    <2>3. \A t : Own(ts2, other, t) = Own(ts, other, t)
        BY <1>2, <1>5
    <2> QED BY <1>5, <2>1, <2>2, <2>3 DEF Holds
<1> QED BY <1>1, <1>2, <1>3, <1>4, <1>5 DEF vs2, ts2

---------------------------------------------------------------------------
(* The invariant *)

\* Documents the indexes may be behind on: of a write in progress or failed,
\* and those open has still to index.
Unsettled == failed \cup pending \cup (IF req = None THEN {} ELSE {req.key})

CallInv ==
    /\ store \in [Id -> Doc \cup {None}]
    /\ req \in Docs!Request \cup {None}
    /\ done \in BOOLEAN
    /\ doubt \in [Id -> SUBSET (Doc \cup {None})]
    /\ req # None /\ done => store[req.key] = Docs!Shown(req.val)

ModeInv ==
    /\ mode \in {"closed", "opening", "ready"}
    /\ pending \subseteq Live
    /\ failed \subseteq Id
    /\ writes \in 0 .. MaxWrites
    /\ mode # "ready" => req = None /\ failed = {}
    /\ mode # "opening" => pending = {}
    /\ mode = "closed" => vectors = NewVectorIndex /\ text = NewTextIndex

IndexInv ==
    /\ VectorShape(vectors)
    /\ TextShape(text)
    /\ IdsIn(vectors) = DOMAIN text.docLengths

FollowInv ==
    mode # "closed" => \A id \in Id \ Unsettled : Holds(vectors, text, id, store[id])

EngineInv == CallInv /\ ModeInv /\ IndexInv /\ FollowInv

LEMMA InitEngine == Init => EngineInv
<1> SUFFICES ASSUME Init PROVE EngineInv
    OBVIOUS
<1>1. CallInv
    BY DEF Init, Docs!Init, Docs!NoDoubt, CallInv
<1>2. ModeInv
    BY EngineAssumption DEF Init, Docs!Init, ModeInv
<1>3. IndexInv
    BY NothingHeld DEF Init, IndexInv
<1>4. FollowInv
    BY DEF Init, FollowInv
<1> QED BY <1>1, <1>2, <1>3, <1>4 DEF EngineInv

LEMMA NextEngine == EngineInv /\ [Next]_vars => EngineInv'
<1> SUFFICES ASSUME EngineInv, [Next]_vars PROVE EngineInv'
    OBVIOUS
<1> USE DEF EngineInv
<1>1. ASSUME NEW id \in Id, NEW val \in Doc \cup {Delete}, Begin(id, val) PROVE EngineInv'
    <2>1. CallInv'
        BY <1>1 DEF Begin, Docs!Call, Docs!Request, CallInv
    <2>2. ModeInv'
        BY <1>1, EngineAssumption DEF Begin, Docs!Call, ModeInv, indexes, Live
    <2>3. IndexInv'
        BY <1>1 DEF Begin, indexes, IndexInv
    <2>4. FollowInv'
        BY <1>1 DEF Begin, Docs!Call, indexes, FollowInv, Unsettled
    <2> QED BY <2>1, <2>2, <2>3, <2>4
<1>2. CASE StoreEffect
    <2>1. req # None /\ req \in Docs!Request /\ req.key \in Id /\ req.val \in Doc \cup {Delete}
        BY <1>2 DEF StoreEffect, Docs!Effect, CallInv, Docs!Request
    <2>2. CallInv'
        BY <1>2, <2>1 DEF StoreEffect, Docs!Effect, CallInv, Docs!Shown
    <2>3. ModeInv'
        BY <1>2, <2>1 DEF StoreEffect, Docs!Effect, ModeInv, indexes, Live
    <2>4. IndexInv'
        BY <1>2 DEF StoreEffect, indexes, IndexInv
    <2>5. FollowInv'
        <3>1. \A id \in Id \ Unsettled : store'[id] = store[id]
            BY <1>2, <2>1 DEF StoreEffect, Docs!Effect, CallInv, Unsettled
        <3>2. Unsettled' = Unsettled
            BY <1>2 DEF StoreEffect, Docs!Effect, Unsettled
        <3> QED BY <1>2, <3>1, <3>2 DEF StoreEffect, FollowInv, indexes
    <2> QED BY <2>2, <2>3, <2>4, <2>5
<1>3. CASE StoreError \/ UpsertMismatch
    <2>1. /\ req # None /\ req' = None /\ done' = FALSE /\ req.key \in Id
          /\ failed' = failed \cup {req.key}
          /\ UNCHANGED <<store, indexes, mode, pending, writes>>
        BY <1>3 DEF StoreError, UpsertMismatch, Docs!ReturnErr, Docs!ReturnOk, CallInv, Docs!Request
    <2>2. doubt' \in [Id -> SUBSET (Doc \cup {None})]
        <3>1. Docs!Shown(req.val) \in Doc \cup {None}
            BY <2>1 DEF CallInv, Docs!Request, Docs!Shown
        <3> QED BY <1>3, <2>1, <3>1
                DEF StoreError, UpsertMismatch, Docs!ReturnErr, Docs!ReturnOk, CallInv
    <2>3. CallInv'
        BY <2>1, <2>2 DEF CallInv
    <2>4. ModeInv'
        BY <2>1 DEF ModeInv, indexes, Live
    <2>5. IndexInv'
        BY <2>1 DEF indexes, IndexInv
    <2>6. FollowInv'
        BY <2>1 DEF indexes, FollowInv, Unsettled
    <2> QED BY <2>3, <2>4, <2>5, <2>6
<1>4. CASE UpsertDone
    <2> DEFINE id == req.key
               d == req.val
    <2>1. /\ req # None /\ done /\ req' = None /\ done' = FALSE
          /\ id \in Id /\ d \in Doc /\ Fits(d.vec) /\ store[id] = d
          /\ vectors' = Insert(vectors, id, d.vec)
          /\ text' = IndexDocument(text, id, d.text)
          /\ failed' = failed \ {id}
          /\ UNCHANGED <<store, doubt, mode, pending, writes>>
        BY <1>4 DEF UpsertDone, Docs!ReturnOk, CallInv, Docs!Request, Docs!Shown
    <2>2. /\ VectorShape(vectors') /\ TextShape(text')
          /\ IdsIn(vectors') = DOMAIN text'.docLengths
          /\ Holds(vectors', text', id, d)
          /\ \A other, e : other # id /\ Holds(vectors, text, other, e)
                               => Holds(vectors', text', other, e)
        BY <2>1, IndexingHolds DEF IndexInv
    <2> HIDE DEF id, d
    <2>3. CallInv'
        BY <2>1 DEF CallInv
    <2>4. ModeInv'
        BY <2>1 DEF ModeInv, Live
    <2>5. IndexInv'
        BY <2>2 DEF IndexInv
    <2>6. FollowInv'
        <3>1. \A o \in Id \ Unsettled' : o # id => o \in Id \ Unsettled
            BY <2>1 DEF Unsettled, id
        <3> QED BY <2>1, <2>2, <3>1 DEF FollowInv
    <2> QED BY <2>3, <2>4, <2>5, <2>6
<1>5. CASE DeleteDone
    <2> DEFINE id == req.key
    <2>1. /\ req # None /\ done /\ req' = None /\ done' = FALSE
          /\ id \in Id /\ store[id] = None
          /\ vectors' = Remove(vectors, id)
          /\ text' = RemoveDocument(text, id)
          /\ failed' = failed \ {id}
          /\ UNCHANGED <<store, doubt, mode, pending, writes>>
        BY <1>5 DEF DeleteDone, Docs!ReturnOk, CallInv, Docs!Request, Docs!Shown
    <2>2. /\ VectorShape(vectors') /\ TextShape(text')
          /\ IdsIn(vectors') = DOMAIN text'.docLengths
          /\ Holds(vectors', text', id, None)
          /\ \A other, e : other # id /\ Holds(vectors, text, other, e)
                               => Holds(vectors', text', other, e)
        BY <2>1, RemovingHolds DEF IndexInv
    <2> HIDE DEF id
    <2>3. CallInv'
        BY <2>1 DEF CallInv
    <2>4. ModeInv'
        BY <2>1 DEF ModeInv, Live
    <2>5. IndexInv'
        BY <2>2 DEF IndexInv
    <2>6. FollowInv'
        <3>1. \A o \in Id \ Unsettled' : o # id => o \in Id \ Unsettled
            BY <2>1 DEF Unsettled, id
        <3> QED BY <2>1, <2>2, <3>1 DEF FollowInv
    <2> QED BY <2>3, <2>4, <2>5, <2>6
<1>6. CASE Stop
    <2>1. /\ req' = None /\ done' = FALSE /\ doubt' = [k \in Id |-> {}]
          /\ store' \in [Id -> Doc \cup {None}]
          /\ vectors' = NewVectorIndex /\ text' = NewTextIndex
          /\ mode' = "closed" /\ pending' = {} /\ failed' = {} /\ writes' = writes
        BY <1>6 DEF Stop, Docs!Restart, Docs!NoDoubt
    <2>2. CallInv'
        BY <2>1 DEF CallInv
    <2>3. ModeInv'
        BY <2>1 DEF ModeInv
    <2>4. IndexInv'
        BY <2>1, NothingHeld DEF IndexInv
    <2>5. FollowInv'
        BY <2>1 DEF FollowInv
    <2> QED BY <2>2, <2>3, <2>4, <2>5
<1>7. CASE Open
    <2>1. /\ mode = "closed" /\ mode' = "opening" /\ pending' = Live
          /\ UNCHANGED <<store, req, done, doubt, vectors, text, failed, writes>>
        BY <1>7 DEF Open, storeVars, indexes
    <2>2. CallInv'
        BY <2>1 DEF CallInv
    <2>3. ModeInv'
        BY <2>1 DEF ModeInv, Live
    <2>4. IndexInv'
        BY <2>1 DEF IndexInv
    <2>5. FollowInv'
        <3>1. \A id \in Id \ Unsettled' : store[id] = None
            BY <2>1 DEF Unsettled, Live
        <3> QED BY <2>1, <3>1, NothingHeld DEF FollowInv, ModeInv
    <2> QED BY <2>2, <2>3, <2>4, <2>5
<1>8. CASE OpenDone
    <2>1. /\ mode = "opening" /\ mode' = "ready" /\ pending = {}
          /\ UNCHANGED <<store, req, done, doubt, vectors, text, failed, pending, writes>>
        BY <1>8 DEF OpenDone, storeVars, indexes
    <2>2. CallInv'
        BY <2>1 DEF CallInv
    <2>3. ModeInv'
        BY <2>1 DEF ModeInv, Live
    <2>4. IndexInv'
        BY <2>1 DEF IndexInv
    <2>5. FollowInv'
        BY <2>1 DEF FollowInv, Unsettled
    <2> QED BY <2>2, <2>3, <2>4, <2>5
<1>9. ASSUME NEW id \in Id, OpenIndex(id) PROVE EngineInv'
    <2> DEFINE d == store[id]
    <2>1. /\ mode = "opening" /\ d \in Doc /\ Fits(d.vec)
          /\ vectors' = Insert(vectors, id, d.vec)
          /\ text' = IndexDocument(text, id, d.text)
          /\ pending' = pending \ {id}
          /\ UNCHANGED <<store, req, done, doubt, mode, failed, writes>>
        BY <1>9 DEF OpenIndex, CallInv, ModeInv, Live, storeVars
    <2>2. /\ VectorShape(vectors') /\ TextShape(text')
          /\ IdsIn(vectors') = DOMAIN text'.docLengths
          /\ Holds(vectors', text', id, d)
          /\ \A other, e : other # id /\ Holds(vectors, text, other, e)
                               => Holds(vectors', text', other, e)
        BY <2>1, IndexingHolds DEF IndexInv
    <2>3. CallInv'
        BY <2>1 DEF CallInv
    <2>4. ModeInv'
        BY <2>1 DEF ModeInv, Live
    <2>5. IndexInv'
        BY <2>2 DEF IndexInv
    <2>6. FollowInv'
        <3>1. \A o \in Id \ Unsettled' : o # id => o \in Id \ Unsettled
            BY <2>1 DEF Unsettled
        <3> QED BY <2>1, <2>2, <3>1 DEF FollowInv
    <2> QED BY <2>3, <2>4, <2>5, <2>6
<1>10. ASSUME NEW id \in Id, OpenMismatch(id) PROVE EngineInv'
    <2>1. /\ mode = "opening" /\ vectors' = NewVectorIndex /\ text' = NewTextIndex
          /\ mode' = "closed" /\ pending' = {}
          /\ UNCHANGED <<store, req, done, doubt, failed, writes>>
        BY <1>10 DEF OpenMismatch, storeVars
    <2>2. CallInv'
        BY <2>1 DEF CallInv
    <2>3. ModeInv'
        BY <2>1 DEF ModeInv
    <2>4. IndexInv'
        BY <2>1, NothingHeld DEF IndexInv
    <2>5. FollowInv'
        BY <2>1 DEF FollowInv
    <2> QED BY <2>2, <2>3, <2>4, <2>5
<1>11. CASE UNCHANGED vars
    <2>1. UNCHANGED <<store, req, done, doubt, vectors, text, mode, pending, failed, writes>>
        BY <1>11 DEF vars, storeVars, indexes
    <2> QED BY <2>1 DEF CallInv, ModeInv, IndexInv, FollowInv, Unsettled, Live
<1> QED
    BY <1>1, <1>2, <1>3, <1>4, <1>5, <1>6, <1>7, <1>8, <1>9, <1>10, <1>11
    DEF Next, Upsert, DeleteDoc

LEMMA EngineInvariance == Spec => []EngineInv
BY InitEngine, NextEngine, PTL DEF Spec

\* The aggregates stay in step with the postings.
LEMMA CountsInvariance == Spec => []TextCounts(text)
<1>1. Init => TextCounts(text)
    BY NewTextCounts DEF Init
<1>2. EngineInv /\ TextCounts(text) /\ [Next]_vars => TextCounts(text)'
    <2> SUFFICES ASSUME EngineInv, TextCounts(text), [Next]_vars
                 PROVE  TextCounts(text')
        OBVIOUS
    <2>1. TextShape(text)
        BY DEF EngineInv, IndexInv
    <2>2. CASE UpsertDone
        <3>1. req.key \in Id /\ req.val \in Doc
            BY <2>2 DEF EngineInv, CallInv, UpsertDone, Docs!ReturnOk, Docs!Request
        <3>2. req.val.text \in Seq(Term)
            BY <3>1, EngineAssumption, TextIndexAssumption
        <3> QED BY <2>1, <2>2, <3>1, <3>2, CountsIndexed DEF UpsertDone
    <2>3. CASE DeleteDone
        BY <2>1, <2>3, CountsRemoved DEF DeleteDone
    <2>4. ASSUME NEW id \in Id, OpenIndex(id) PROVE TextCounts(text')
        <3>1. store[id] \in Doc
            BY <2>4 DEF EngineInv, CallInv, ModeInv, Live, OpenIndex
        <3>2. store[id].text \in Seq(Term)
            BY <3>1, EngineAssumption, TextIndexAssumption
        <3> QED BY <2>1, <2>4, <3>2, CountsIndexed DEF OpenIndex
    <2>5. ASSUME text' = NewTextIndex PROVE TextCounts(text')
        BY <2>5, NewTextCounts
    <2>6. ASSUME text' = text PROVE TextCounts(text')
        BY <2>6
    <2> QED
        BY <2>2, <2>3, <2>4, <2>5, <2>6
        DEF Next, Upsert, DeleteDoc, Begin, StoreEffect, StoreError, UpsertMismatch, Stop,
            Open, OpenDone, OpenMismatch, vars, indexes
<1> QED BY <1>1, <1>2, InitEngine, NextEngine, PTL DEF Spec

---------------------------------------------------------------------------
(* Theorems *)

\* The state has its type, whatever calls fail and wherever the process stops:
\* the flat array of vector.rs has one row per id after every insert and remove.
THEOREM EngineTypeCorrect == Spec => []TypeOK
<1>1. EngineInv => TypeOK
    <2> SUFFICES ASSUME EngineInv PROVE TypeOK
        OBVIOUS
    <2>1. /\ vectors.ids \in Seq(Id) /\ Len(vectors.data) = Len(vectors.ids) * Dim
          /\ text.totalDocLength \in Nat /\ text.docCount \in Nat
          /\ DOMAIN text.docLengths \subseteq Id /\ DOMAIN text.postings \subseteq Term
        BY FS_CardinalityType DEF EngineInv, IndexInv, VectorShape, TextShape
    <2>2. pending \subseteq Id
        BY DEF EngineInv, ModeInv, Live
    <2> QED BY <2>1, <2>2 DEF EngineInv, CallInv, ModeInv, TypeOK
<1> QED BY <1>1, EngineInvariance, PTL

\* Both indexes hold the same documents between calls (engine.rs: upsert, delete
\* and open change them together, or neither).
THEOREM SameInBoth == Spec => []SameDocuments
<1>1. EngineInv => SameDocuments
    BY IdsOfVectors DEF EngineInv, IndexInv, SameDocuments
<1> QED BY <1>1, EngineInvariance, PTL

\* A document whose last write returned Ok is indexed by its stored vector and
\* text, a deleted one is not, after any calls, failures, stops and rebuilds
\* (engine.rs: upsert, delete, open; vector.rs and text.rs below them).
THEOREM StoreFollowed == Spec => []IndexesFollowStore
<1>1. EngineInv => IndexesFollowStore
    <2> SUFFICES ASSUME EngineInv, Idle
                 PROVE  VectorsFollow(Id \ failed) /\ TextFollows(Id \ failed)
        BY DEF IndexesFollowStore
    <2> DEFINE docs == Id \ failed
    <2>1. \A id \in docs : Holds(vectors, text, id, store[id])
        BY DEF EngineInv, FollowInv, ModeInv, Idle, Unsettled
    <2>2. \A id \in Id : id \in Live <=> store[id] # None
        BY DEF Live
    <2>3. DOMAIN text.docLengths \cap docs = Live \cap docs
        BY <2>1, <2>2 DEF Holds
    <2>4. TextFollows(docs)
        <3> SUFFICES ASSUME NEW id \in Live \cap docs, NEW t \in Term
                     PROVE  LET list == ListOf(text, t)
                                own == {list[i] : i \in {i \in DOMAIN list : list[i].docId = id}}
                                n == Frequency(store[id].text, t)
                            IN  own = IF n = 0 THEN {} ELSE {[docId |-> id, termFreq |-> n]}
            BY <2>3 DEF TextFollows, ListOf
        <3> DEFINE list == ListOf(text, t)
                   own == {list[i] : i \in {i \in DOMAIN list : list[i].docId = id}}
        <3>1. Own(text, id, t) = OwnOf(store[id].text, id, t)
            BY <2>1, <2>2 DEF Holds
        <3>2. own = Own(text, id, t)
            BY DEF Own, In
        <3> QED BY <3>1, <3>2 DEF OwnOf
    <2>5. VectorsFollow(docs)
        <3>1. Distinct(vectors.ids)
            BY DEF EngineInv, IndexInv, VectorShape
        <3>2. Indexed = DOMAIN text.docLengths
            BY IdsOfVectors DEF EngineInv, IndexInv
        <3>3. ASSUME NEW i \in DOMAIN vectors.ids, vectors.ids[i] \in docs
              PROVE  Row(vectors, i) = store[vectors.ids[i]].vec
            <4>1. <<vectors.ids[i], Row(vectors, i)>> \in VectorsOf(vectors)
                BY DEF VectorsOf
            <4> QED BY <2>1, <3>3, <4>1 DEF Holds
        <3> QED BY <2>3, <3>1, <3>2, <3>3 DEF VectorsFollow, Distinct
    <2> QED BY <2>4, <2>5
<1> QED BY <1>1, EngineInvariance, PTL

\* What BM25 divides by matches the postings, in every order of upserts, deletes
\* and rebuilds, and whatever is removed or replaced (text.rs: index_document,
\* remove_document, whose saturating_sub never saturates).
THEOREM AggregatesExact == Spec => []AggregatesMatch
<1>1. EngineInv /\ TextCounts(text) => AggregatesMatch
    <2> SUFFICES ASSUME EngineInv, TextCounts(text) PROVE AggregatesMatch
        OBVIOUS
    <2>1. TextShape(text)
        BY DEF EngineInv, IndexInv
    <2>2. ASSUME NEW t \in DOMAIN text.postings
          PROVE  LET list == text.postings[t]
                 IN  /\ list # <<>>
                     /\ \A i, j \in DOMAIN list : list[i].docId = list[j].docId => i = j
                     /\ \A i \in DOMAIN list : list[i].docId \in DOMAIN text.docLengths
        BY <2>1 DEF TextShape, ListShape, OnePerDoc, In
    <2>3. text.docCount = Cardinality(DOMAIN text.docLengths)
          /\ text.totalDocLength = Sum(text.docLengths)
        BY <2>1 DEF TextShape, TextCounts
    <2>4. ASSUME NEW id \in DOMAIN text.docLengths
          PROVE  text.docLengths[id] = Sum([t \in DOMAIN text.postings |->
                     Sum([i \in DOMAIN text.postings[t] |->
                         IF text.postings[t][i].docId = id
                         THEN text.postings[t][i].termFreq ELSE 0])])
        <3>1. Indexes(text, id)
            BY DEF TextCounts
        <3> HIDE DEF TextCounts
        <3> QED BY <2>1, <3>1, LengthIsSum
    <2> QED BY <2>2, <2>3, <2>4 DEF AggregatesMatch
<1> QED BY <1>1, EngineInvariance, CountsInvariance, PTL
=================================================================================
