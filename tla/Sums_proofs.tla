----------------------------- MODULE Sums_proofs -----------------------------
(***************************************************************************)
(* Facts about sums over finite sets, and the induction they rest on.      *)
(* Induction is stated for a set of numbers or of sets instead of for a    *)
(* predicate: such a statement can be instantiated by the provers, and its *)
(* proof takes a least counterexample.                                     *)
(***************************************************************************)
EXTENDS Sums, FiniteSetTheorems, TLAPS

\* A set of naturals that is not empty has a least element.
LEMMA LeastNatural ==
  ASSUME NEW S \in SUBSET Nat, S # {}
  PROVE  \E x \in S : \A y \in S : x <= y
<1> DEFINE R == OpToRel(<, Nat)
<1>1. IsWellFoundedOn(R, Nat)
  BY NatLessThanWellFounded
<1>2. \A x, y \in S : <<y, x>> \in R <=> y < x
  BY DEF OpToRel
<1> HIDE DEF R
<1>3. PICK x \in S : \A y \in S : ~ (<<y, x>> \in R)
  BY <1>1, WFMin
<1>4. ASSUME NEW y \in S PROVE x <= y
  <2>1. ~ (y < x)
    BY <1>2, <1>3
  <2> QED BY <2>1
<1> QED BY <1>4

\* A set of integers that is not empty and bounded has a greatest element.
LEMMA GreatestInteger ==
  ASSUME NEW S \in SUBSET Int, S # {}, NEW bound \in Int, \A x \in S : x <= bound
  PROVE  \E x \in S : \A y \in S : y <= x
<1> DEFINE T == {bound - x : x \in S}
<1>1. T \in SUBSET Nat /\ T # {}
  <2>1. \A x \in S : bound - x \in Nat
    OBVIOUS
  <2> QED BY <2>1
<1>2. PICK d \in T : \A e \in T : d <= e
  BY <1>1, LeastNatural
<1>3. PICK x \in S : d = bound - x
  OBVIOUS
<1>4. \A y \in S : bound - x <= bound - y
  BY <1>2, <1>3
<1>5. \A y \in S : y <= x
  <2> SUFFICES ASSUME NEW y \in S PROVE y <= x
    OBVIOUS
  <2>1. bound - x <= bound - y /\ x \in Int /\ y \in Int
    BY <1>4
  <2> HIDE DEF T
  <2> QED BY <2>1
<1> QED BY <1>5

\* Induction over the naturals.
LEMMA NaturalInduction ==
  ASSUME NEW Good \in SUBSET Nat, 0 \in Good, \A n \in Good : n + 1 \in Good
  PROVE  Good = Nat
<1> SUFFICES ASSUME Nat \ Good # {} PROVE FALSE
  OBVIOUS
<1>1. PICK m \in Nat \ Good : \A n \in Nat \ Good : m <= n
  BY LeastNatural
<1>2. m - 1 \in Nat /\ m - 1 \notin Nat \ Good
  BY <1>1
<1> QED BY <1>2

\* Induction over the subsets of a finite set.
LEMMA SetInduction ==
  ASSUME NEW S, IsFiniteSet(S), NEW Good \in SUBSET (SUBSET S), {} \in Good,
         \A T \in Good : \A x \in S \ T : T \cup {x} \in Good
  PROVE  Good = SUBSET S
<1> SUFFICES ASSUME (SUBSET S) \ Good # {} PROVE FALSE
  OBVIOUS
<1>1. FiniteSubsetsOf(S) = SUBSET S
  BY FS_FiniteSubsetsOfFinite
<1> DEFINE R == StrictSubsetOrdering(S)
           Bad == (SUBSET S) \ Good
<1>2. IsWellFoundedOn(R, SUBSET S)
  BY <1>1, FS_StrictSubsetOrderingWellFounded
<1>3. Bad \subseteq SUBSET S /\ Bad # {}
  OBVIOUS
<1>4. \A T, U \in Bad : <<U, T>> \in R <=> U \subseteq T /\ U # T
  BY DEF StrictSubsetOrdering
<1> HIDE DEF R, Bad
<1>5. PICK T \in Bad : \A U \in Bad : ~ (<<U, T>> \in R)
  BY <1>2, <1>3, WFMin
<1>6. T \in SUBSET S /\ T \notin Good
  BY DEF Bad
<1>7. PICK x : x \in T
  BY <1>6
<1>8. T \ {x} \notin Bad
  <2>1. T \ {x} \subseteq T /\ T \ {x} # T
    BY <1>7
  <2> QED BY <1>4, <1>5, <2>1
<1>9. T \ {x} \in Good /\ x \in S \ (T \ {x})
  BY <1>6, <1>8 DEF Bad
<1>10. (T \ {x}) \cup {x} = T
  BY <1>7
<1> QED BY <1>6, <1>9, <1>10
-----------------------------------------------------------------------------
(***************************************************************************)
(* The recursive function behind Sum exists and does not depend on the set *)
(* it is defined for, hence Sum satisfies its recursion.                   *)
(***************************************************************************)

Chosen(s) == CHOOSE y \in s : TRUE
SumStep(f, iter, s) == IF s = {} THEN 0 ELSE f[Chosen(s)] + iter[s \ {Chosen(s)}]
SumsOver(f, S, iter) == iter = [s \in SUBSET S |-> SumStep(f, iter, s)]

LEMMA SumUnfold ==
  ASSUME NEW f, NEW S
  PROVE  Sum(f, S) = (CHOOSE iter : SumsOver(f, S, iter))[S]
BY DEF Sum, MapThenSumSet, MapThenFoldSet, SumsOver, SumStep, Chosen

\* Taking the chosen element from a finite set makes it smaller by one.
LEMMA ChosenSmaller ==
  ASSUME NEW s, IsFiniteSet(s), s # {}
  PROVE  /\ Chosen(s) \in s
         /\ IsFiniteSet(s \ {Chosen(s)})
         /\ Cardinality(s) \in Nat
         /\ Cardinality(s \ {Chosen(s)}) \in Nat
         /\ Cardinality(s \ {Chosen(s)}) = Cardinality(s) - 1
<1>1. Chosen(s) \in s
  BY DEF Chosen
<1> QED BY <1>1, FS_RemoveElement, FS_CardinalityType

LEMMA SumsOverExists ==
  ASSUME NEW f, NEW S, IsFiniteSet(S), \A x \in S : f[x] \in Int
  PROVE  \E iter \in [SUBSET S -> Int] : SumsOver(f, S, iter)
<1> DEFINE Upto(g, n) == \A s \in SUBSET S : Cardinality(s) <= n => g[s] = SumStep(f, g, s)
           Good == {n \in Nat : \E g \in [SUBSET S -> Int] : Upto(g, n)}
<1>1. \A s \in SUBSET S : IsFiniteSet(s) /\ Cardinality(s) \in Nat
  BY FS_Subset, FS_CardinalityType
<1>2. 0 \in Good
  <2> DEFINE g == [s \in SUBSET S |-> 0]
  <2>1. g \in [SUBSET S -> Int]
    OBVIOUS
  <2>2. ASSUME NEW s \in SUBSET S, Cardinality(s) <= 0 PROVE g[s] = SumStep(f, g, s)
    <3>1. s = {}
      BY <1>1, <2>2, FS_EmptySet
    <3> QED BY <3>1 DEF SumStep
  <2> HIDE DEF g
  <2> QED BY <2>1, <2>2
<1>3. ASSUME NEW n \in Good PROVE n + 1 \in Good
  <2>1. n \in Nat /\ n + 1 \in Nat
    OBVIOUS
  <2>2. PICK g \in [SUBSET S -> Int] : Upto(g, n)
    OBVIOUS
  <2> DEFINE h == [s \in SUBSET S |-> IF Cardinality(s) <= n THEN g[s] ELSE SumStep(f, g, s)]
  <2>3. \A s \in SUBSET S : SumStep(f, g, s) \in Int
    <3> SUFFICES ASSUME NEW s \in SUBSET S, s # {} PROVE SumStep(f, g, s) \in Int
      BY DEF SumStep
    <3>1. Chosen(s) \in S /\ s \ {Chosen(s)} \in SUBSET S
      BY <1>1, ChosenSmaller
    <3>2. f[Chosen(s)] \in Int /\ g[s \ {Chosen(s)}] \in Int
      BY <3>1
    <3> QED BY <3>2 DEF SumStep
  <2>4. h \in [SUBSET S -> Int]
    BY <2>3
  <2>5. ASSUME NEW s \in SUBSET S, Cardinality(s) <= n + 1
        PROVE  SumStep(f, h, s) = SumStep(f, g, s)
    <3>1. CASE s = {}
      BY <3>1 DEF SumStep
    <3>2. CASE s # {}
      <4>1. /\ s \ {Chosen(s)} \in SUBSET S
            /\ Cardinality(s \ {Chosen(s)}) <= n
        BY <1>1, <2>1, <2>5, <3>2, ChosenSmaller
      <4>2. h[s \ {Chosen(s)}] = g[s \ {Chosen(s)}]
        BY <4>1
      <4> HIDE DEF h
      <4> QED BY <3>2, <4>2 DEF SumStep
    <3> QED BY <3>1, <3>2
  <2>6. ASSUME NEW s \in SUBSET S, Cardinality(s) <= n + 1
        PROVE  h[s] = SumStep(f, g, s)
    BY <2>2, <2>6
  <2> HIDE DEF h
  <2>7. Upto(h, n + 1)
    BY <2>5, <2>6
  <2> QED BY <2>1, <2>4, <2>7
<1>4. Good = Nat
  <2> HIDE DEF Good
  <2>1. Good \in SUBSET Nat
    BY DEF Good
  <2> QED BY <1>2, <1>3, <2>1, NaturalInduction
<1>5. PICK g \in [SUBSET S -> Int] : Upto(g, Cardinality(S))
  BY <1>1, <1>4
<1>6. \A s \in SUBSET S : Cardinality(s) <= Cardinality(S)
  BY FS_Subset
<1>7. \A s \in SUBSET S : g[s] = SumStep(f, g, s)
  BY <1>5, <1>6
<1> QED BY <1>7 DEF SumsOver

LEMMA SumsOverAgree ==
  ASSUME NEW f, NEW S, IsFiniteSet(S), NEW T \in SUBSET S, NEW i, NEW j,
         SumsOver(f, S, i), SumsOver(f, T, j)
  PROVE  i[T] = j[T]
<1> DEFINE Good == {n \in Nat : \A s \in SUBSET T : Cardinality(s) = n => i[s] = j[s]}
<1>1. \A s \in SUBSET T : IsFiniteSet(s) /\ Cardinality(s) \in Nat
  BY FS_Subset, FS_CardinalityType
<1>2. \A s \in SUBSET T : i[s] = SumStep(f, i, s) /\ j[s] = SumStep(f, j, s)
  BY DEF SumsOver
<1>3. 0 \in Good
  <2> SUFFICES ASSUME NEW s \in SUBSET T, Cardinality(s) = 0 PROVE i[s] = j[s]
    OBVIOUS
  <2>1. s = {}
    BY <1>1, FS_EmptySet
  <2> QED BY <1>2, <2>1 DEF SumStep
<1>4. ASSUME NEW n \in Good PROVE n + 1 \in Good
  <2> SUFFICES ASSUME NEW s \in SUBSET T, Cardinality(s) = n + 1 PROVE i[s] = j[s]
    OBVIOUS
  <2>1. s # {}
    <3>1. Cardinality({}) = 0 /\ n + 1 # 0
      BY FS_EmptySet
    <3> QED BY <3>1
  <2>2. /\ s \ {Chosen(s)} \in SUBSET T
        /\ Cardinality(s \ {Chosen(s)}) = n
    BY <1>1, <2>1, ChosenSmaller
  <2>3. i[s \ {Chosen(s)}] = j[s \ {Chosen(s)}]
    BY <2>2
  <2> QED BY <1>2, <2>1, <2>3 DEF SumStep
<1>5. Good = Nat
  <2> HIDE DEF Good
  <2>1. Good \in SUBSET Nat
    BY DEF Good
  <2> QED BY <1>3, <1>4, <2>1, NaturalInduction
<1> QED BY <1>1, <1>5

LEMMA SumRecursion ==
  ASSUME NEW f, NEW S, IsFiniteSet(S), \A x \in S : f[x] \in Int
  PROVE  /\ Sum(f, {}) = 0
         /\ Sum(f, S) \in Int
         /\ S # {} => Sum(f, S) = f[Chosen(S)] + Sum(f, S \ {Chosen(S)})
<1> DEFINE iter(T) == CHOOSE i : SumsOver(f, T, i)
<1>1. \A T \in SUBSET S : SumsOver(f, T, iter(T)) /\ Sum(f, T) = iter(T)[T]
  <2> SUFFICES ASSUME NEW T \in SUBSET S
               PROVE  SumsOver(f, T, iter(T)) /\ Sum(f, T) = iter(T)[T]
    OBVIOUS
  <2>1. \E i : SumsOver(f, T, i)
    BY FS_Subset, SumsOverExists
  <2> QED BY <2>1, SumUnfold
<1>2. Sum(f, S) \in Int
  <2>1. PICK i \in [SUBSET S -> Int] : SumsOver(f, S, i)
    BY SumsOverExists
  <2>2. i[S] = iter(S)[S]
    BY <1>1, <2>1, SumsOverAgree
  <2> QED BY <1>1, <2>1, <2>2
<1>3. Sum(f, {}) = 0
  BY <1>1 DEF SumsOver, SumStep
<1>4. ASSUME S # {} PROVE Sum(f, S) = f[Chosen(S)] + Sum(f, S \ {Chosen(S)})
  <2> DEFINE T == S \ {Chosen(S)}
             i == iter(S)
             j == iter(T)
  <2>1. T \in SUBSET S
    OBVIOUS
  <2>2. SumsOver(f, S, i) /\ Sum(f, S) = i[S] /\ SumsOver(f, T, j) /\ Sum(f, T) = j[T]
    BY <1>1, <2>1
  <2> HIDE DEF i, j
  <2>3. i[S] = f[Chosen(S)] + i[T]
    <3>1. S \in SUBSET S
      OBVIOUS
    <3>2. i[S] = SumStep(f, i, S)
      BY <2>2, <3>1 DEF SumsOver
    <3> QED BY <1>4, <3>2 DEF SumStep
  <2>4. i[T] = j[T]
    <3> HIDE DEF T
    <3> QED BY <2>1, <2>2, SumsOverAgree
  <2> QED BY <2>2, <2>3, <2>4
<1> QED BY <1>2, <1>3, <1>4

LEMMA SumEmpty ==
  ASSUME NEW f
  PROVE  Sum(f, {}) = 0
BY SumRecursion, FS_EmptySet

LEMMA SumInt ==
  ASSUME NEW f, NEW S, IsFiniteSet(S), \A x \in S : f[x] \in Int
  PROVE  Sum(f, S) \in Int
BY SumRecursion
-----------------------------------------------------------------------------
\* An element may be taken from a sum in any order.
LEMMA SumRemove ==
  ASSUME NEW f, NEW S, IsFiniteSet(S), \A y \in S : f[y] \in Int, NEW x \in S
  PROVE  Sum(f, S) = f[x] + Sum(f, S \ {x})
<1> DEFINE Good == {n \in Nat : \A T \in SUBSET S : Cardinality(T) = n =>
                      \A z \in T : Sum(f, T) = f[z] + Sum(f, T \ {z})}
<1>1. \A T \in SUBSET S : /\ IsFiniteSet(T) /\ Cardinality(T) \in Nat
                          /\ Sum(f, T) \in Int
                          /\ T # {} => Sum(f, T) = f[Chosen(T)] + Sum(f, T \ {Chosen(T)})
  <2> SUFFICES ASSUME NEW T \in SUBSET S
               PROVE  /\ IsFiniteSet(T) /\ Cardinality(T) \in Nat
                      /\ Sum(f, T) \in Int
                      /\ T # {} => Sum(f, T) = f[Chosen(T)] + Sum(f, T \ {Chosen(T)})
    OBVIOUS
  <2>1. IsFiniteSet(T) /\ Cardinality(T) \in Nat
    BY FS_Subset, FS_CardinalityType
  <2> QED BY <2>1, SumRecursion
<1>2. 0 \in Good
  <2> SUFFICES ASSUME NEW T \in SUBSET S, Cardinality(T) = 0, NEW z \in T PROVE FALSE
    OBVIOUS
  <2> QED BY <1>1, FS_EmptySet
<1>3. ASSUME NEW n \in Good PROVE n + 1 \in Good
  <2> SUFFICES ASSUME NEW T \in SUBSET S, Cardinality(T) = n + 1, NEW z \in T
               PROVE  Sum(f, T) = f[z] + Sum(f, T \ {z})
    OBVIOUS
  <2> DEFINE c == Chosen(T)
  <2>1. /\ c \in T /\ T \ {c} \in SUBSET S /\ T \ {z} \in SUBSET S
        /\ Sum(f, T) = f[c] + Sum(f, T \ {c})
    BY <1>1, ChosenSmaller
  <2>2. Cardinality(T \ {c}) = n /\ Cardinality(T \ {z}) = n
    <3>1. IsFiniteSet(T) /\ n \in Nat
      BY <1>1
    <3>2. \A y \in T : Cardinality(T \ {y}) = Cardinality(T) - 1
      BY <3>1, FS_RemoveElement
    <3> QED BY <2>1, <3>1, <3>2
  <2> HIDE DEF c
  <2>3. CASE c # z
    <3>1. Sum(f, T \ {c}) = f[z] + Sum(f, (T \ {c}) \ {z})
      BY <2>1, <2>2, <2>3
    <3>2. Sum(f, T \ {z}) = f[c] + Sum(f, (T \ {z}) \ {c})
      BY <2>1, <2>2, <2>3
    <3>3. (T \ {c}) \ {z} = (T \ {z}) \ {c}
      OBVIOUS
    <3>4. Sum(f, (T \ {z}) \ {c}) \in Int /\ f[z] \in Int /\ f[c] \in Int
      BY <1>1, <2>1
    <3> DEFINE rest == Sum(f, (T \ {z}) \ {c})
    <3>5. /\ rest \in Int
          /\ Sum(f, T) = f[c] + (f[z] + rest)
          /\ Sum(f, T \ {z}) = f[c] + rest
      BY <2>1, <3>1, <3>2, <3>3, <3>4
    <3> HIDE DEF rest
    <3> QED BY <3>4, <3>5
  <2>4. CASE c = z
    BY <2>1, <2>4
  <2>5. c = z \/ c # z
    OBVIOUS
  <2> QED BY <2>3, <2>4, <2>5
<1>4. Good = Nat
  <2> HIDE DEF Good
  <2>1. Good \in SUBSET Nat
    BY DEF Good
  <2> QED BY <1>2, <1>3, <2>1, NaturalInduction
<1> QED BY <1>1, <1>4

\* What a sum over a finite set of integers is: zero over the empty set, and
\* each further element adds its value, whichever the order.
THEOREM SumAdd ==
  ASSUME NEW f, NEW S, IsFiniteSet(S), NEW x, x \notin S,
         \A y \in S \cup {x} : f[y] \in Int
  PROVE  /\ Sum(f, {}) = 0
         /\ Sum(f, S) \in Int
         /\ Sum(f, S \cup {x}) = Sum(f, S) + f[x]
<1>1. IsFiniteSet(S \cup {x}) /\ (S \cup {x}) \ {x} = S
  BY FS_AddElement
<1>2. Sum(f, {}) = 0 /\ Sum(f, S) \in Int
  BY SumRecursion
<1>3. Sum(f, S \cup {x}) = f[x] + Sum(f, S)
  <2>1. x \in S \cup {x}
    OBVIOUS
  <2>2. Sum(f, S \cup {x}) = f[x] + Sum(f, (S \cup {x}) \ {x})
    BY <1>1, <2>1, SumRemove
  <2> QED BY <1>1, <2>2
<1> QED BY <1>2, <1>3

\* A sum of naturals is a natural and grows with the set.
LEMMA SumSubset ==
  ASSUME NEW T, IsFiniteSet(T), NEW g, \A x \in T : g[x] \in Nat, NEW S \in SUBSET T
  PROVE  Sum(g, S) \in Nat /\ Sum(g, T) \in Nat /\ Sum(g, S) <= Sum(g, T)
<1> DEFINE Holds(U) == /\ Sum(g, S \cap U) \in Nat /\ Sum(g, U) \in Nat
                       /\ Sum(g, S \cap U) <= Sum(g, U)
           Good == {U \in SUBSET T : Holds(U)}
<1>1. {} \in Good
  <2>1. S \cap {} = {} /\ Sum(g, {}) = 0
    BY SumEmpty
  <2> QED BY <2>1
<1>2. ASSUME NEW U \in Good, NEW x \in T \ U PROVE U \cup {x} \in Good
  <2>1. IsFiniteSet(U) /\ IsFiniteSet(S \cap U) /\ Holds(U)
    BY FS_Subset
  <2>2. Sum(g, U \cup {x}) = Sum(g, U) + g[x]
    BY <2>1, SumAdd
  <2>3. CASE x \in S
    <3>1. S \cap (U \cup {x}) = (S \cap U) \cup {x}
      BY <2>3
    <3>2. x \notin S \cap U /\ \A y \in (S \cap U) \cup {x} : g[y] \in Int
      OBVIOUS
    <3> DEFINE V == S \cap U
    <3>3. Sum(g, V \cup {x}) = Sum(g, V) + g[x]
      <4> HIDE DEF V, Good
      <4>1. IsFiniteSet(V) /\ x \notin V /\ \A y \in V \cup {x} : g[y] \in Int
        BY <2>1, <3>2 DEF V
      <4> QED BY <4>1, SumAdd
    <3> HIDE DEF Good
    <3>4. Holds(U \cup {x})
      BY <2>1, <2>2, <3>1, <3>3
    <3> QED BY <3>4 DEF Good
  <2>4. CASE x \notin S
    <3>1. S \cap (U \cup {x}) = S \cap U
      BY <2>4
    <3> HIDE DEF Good
    <3>2. Holds(U \cup {x})
      BY <2>1, <2>2, <3>1
    <3> QED BY <3>2 DEF Good
  <2> QED BY <2>3, <2>4
<1>3. Good = SUBSET T
  <2> HIDE DEF Good
  <2>1. Good \in SUBSET (SUBSET T)
    BY DEF Good
  <2> QED BY <1>1, <1>2, <2>1, SetInduction
<1>4. Holds(T) /\ S \cap T = S
  BY <1>3
<1> QED BY <1>4

\* No term of a sum of naturals is greater than the sum.
LEMMA SumMember ==
  ASSUME NEW T, IsFiniteSet(T), NEW g, \A x \in T : g[x] \in Nat, NEW x \in T
  PROVE  g[x] <= Sum(g, T)
<1> DEFINE U == T \ {x}
<1>1. Sum(g, T) = g[x] + Sum(g, U)
  BY SumRemove
<1>2. Sum(g, U) \in Nat /\ g[x] \in Nat
  <2>1. U \in SUBSET T
    OBVIOUS
  <2> HIDE DEF U
  <2> QED BY <2>1, SumSubset
<1> HIDE DEF U
<1> QED BY <1>1, <1>2

\* A sum whose terms exceed those of another by at most k, or are at most k,
\* exceeds the other by at most k for each term.
LEMMA SumBound ==
  ASSUME NEW S, IsFiniteSet(S), NEW T, IsFiniteSet(T), NEW f, NEW g, NEW k \in Nat,
         \A x \in S : f[x] \in Int, \A x \in T : g[x] \in Nat,
         \A x \in S : f[x] <= k \/ (x \in T /\ f[x] <= g[x] + k)
  PROVE  Sum(f, S) <= Sum(g, T) + Cardinality(S) * k
<1> DEFINE Holds(U) == Sum(f, U) <= Sum(g, T \cap U) + Cardinality(U) * k
           Good == {U \in SUBSET S : Holds(U)}
<1>1. {} \in Good
  <2>1. T \cap {} = {} /\ Sum(f, {}) = 0 /\ Sum(g, {}) = 0 /\ Cardinality({}) = 0
    BY SumEmpty, FS_EmptySet
  <2> QED BY <2>1
<1>2. ASSUME NEW U \in Good, NEW x \in S \ U PROVE U \cup {x} \in Good
  <2>1. IsFiniteSet(U) /\ IsFiniteSet(T \cap U) /\ Holds(U)
    BY FS_Subset
  <2>2. Sum(f, U \cup {x}) = Sum(f, U) + f[x] /\ Sum(f, U) \in Int
    BY <2>1, SumAdd
  <2>3. Cardinality(U \cup {x}) = Cardinality(U) + 1 /\ Cardinality(U) \in Nat
    BY <2>1, FS_AddElement, FS_CardinalityType
  <2>4. Cardinality(U \cup {x}) * k = Cardinality(U) * k + k /\ Cardinality(U) * k \in Nat
    BY <2>3
  <2>5. CASE x \in T
    <3>1. T \cap (U \cup {x}) = (T \cap U) \cup {x}
      BY <2>5
    <3>2. x \notin T \cap U
      OBVIOUS
    <3>3. Sum(g, (T \cap U) \cup {x}) = Sum(g, T \cap U) + g[x] /\ Sum(g, T \cap U) \in Int
      BY <2>1, <2>5, <3>2, SumAdd
    <3>4. f[x] <= g[x] + k /\ g[x] \in Nat /\ f[x] \in Int
      BY <2>5
    <3> HIDE DEF Good
    <3>5. Holds(U \cup {x})
      BY <2>1, <2>2, <2>4, <3>1, <3>3, <3>4
    <3> QED BY <3>5 DEF Good
  <2>6. CASE x \notin T
    <3>1. T \cap (U \cup {x}) = T \cap U
      BY <2>6
    <3>2. f[x] <= k /\ f[x] \in Int
      BY <2>6
    <3>3. Sum(g, T \cap U) \in Int
      <4> DEFINE V == T \cap U
      <4>1. IsFiniteSet(V) /\ \A y \in V : g[y] \in Int
        BY <2>1
      <4> HIDE DEF V
      <4>2. Sum(g, V) \in Int
        BY <4>1, SumInt
      <4> QED BY <4>2 DEF V
    <3> HIDE DEF Good
    <3>4. Holds(U \cup {x})
      <4> DEFINE a == Sum(f, U)
                 b == Sum(g, T \cap U)
                 c == Cardinality(U) * k
      <4>1. a \in Int /\ b \in Int /\ c \in Nat /\ a <= b + c
        BY <2>1, <2>2, <2>4, <3>3
      <4>2. /\ Sum(f, U \cup {x}) = a + f[x]
            /\ Sum(g, T \cap (U \cup {x})) = b
            /\ Cardinality(U \cup {x}) * k = c + k
        BY <2>2, <2>4, <3>1
      <4> HIDE DEF a, b, c
      <4> QED BY <3>2, <4>1, <4>2
    <3> QED BY <3>4 DEF Good
  <2> QED BY <2>5, <2>6
<1>3. Good = SUBSET S
  <2> HIDE DEF Good
  <2>1. Good \in SUBSET (SUBSET S)
    BY DEF Good
  <2> QED BY <1>1, <1>2, <2>1, SetInduction
<1>4. Holds(S)
  BY <1>3
<1>5. Sum(g, T \cap S) <= Sum(g, T) /\ Sum(g, T \cap S) \in Nat /\ Sum(g, T) \in Nat
  BY SumSubset
<1>6. Sum(f, S) \in Int /\ Cardinality(S) * k \in Nat
  <2>1. Cardinality(S) \in Nat
    BY FS_CardinalityType
  <2> QED BY <2>1, SumInt
<1> QED BY <1>4, <1>5, <1>6

\* The elements of S that a function maps to d, or into D.
Fibre(S, of, d) == {x \in S : of[x] = d}
Fibres(S, of, D) == {x \in S : of[x] \in D}

\* What is mapped into D is counted by counting what is mapped to each member.
LEMMA SumOfCounts ==
  ASSUME NEW S, IsFiniteSet(S), NEW D, IsFiniteSet(D), NEW of, NEW f,
         \A d \in D : f[d] = Cardinality(Fibre(S, of, d))
  PROVE  Sum(f, D) = Cardinality(Fibres(S, of, D))
<1> DEFINE Having(E) == Fibres(S, of, E)
           Good == {E \in SUBSET D : Sum(f, E) = Cardinality(Having(E))}
<1>1. \A d \in D : f[d] \in Nat
  BY FS_Subset, FS_CardinalityType DEF Fibre
<1>2. {} \in Good
  <2>1. Having({}) = {} /\ Cardinality({}) = 0 /\ Sum(f, {}) = 0
    BY SumEmpty, FS_EmptySet DEF Fibres
  <2> QED BY <2>1
<1>3. ASSUME NEW E \in Good, NEW d \in D \ E PROVE E \cup {d} \in Good
  <2> DEFINE A == Having(E)
             B == Fibre(S, of, d)
  <2>1. Having(E \cup {d}) = A \cup B /\ A \cap B = {}
    BY DEF Fibres, Fibre
  <2>2. IsFiniteSet(A) /\ IsFiniteSet(B)
    BY FS_Subset DEF Fibres, Fibre
  <2>3. Cardinality(A \cup B) = Cardinality(A) + Cardinality(B)
    <3> HIDE DEF A, B
    <3>1. Cardinality(A \cup B) = Cardinality(A) + Cardinality(B) - Cardinality(A \cap B)
      BY <2>2, FS_Union
    <3>2. Cardinality(A \cap B) = 0
      BY <2>1, FS_EmptySet
    <3>3. Cardinality(A) \in Nat /\ Cardinality(B) \in Nat
      BY <2>2, FS_CardinalityType
    <3> QED BY <3>1, <3>2, <3>3
  <2>4. IsFiniteSet(E) /\ Sum(f, E) = Cardinality(A)
    BY FS_Subset
  <2>5. Sum(f, E \cup {d}) = Sum(f, E) + f[d]
    BY <1>1, <2>4, SumAdd
  <2>6. f[d] = Cardinality(B)
    OBVIOUS
  <2> QED BY <2>1, <2>3, <2>4, <2>5, <2>6
<1>4. Good = SUBSET D
  <2> HIDE DEF Good
  <2>1. Good \in SUBSET (SUBSET D)
    BY DEF Good
  <2> QED BY <1>2, <1>3, <2>1, SetInduction
<1> QED BY <1>4
=============================================================================
