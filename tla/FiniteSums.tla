------------------------------ MODULE FiniteSums ------------------------------
(***************************************************************************)
(* Lemmas about SumFunctionOnSet, the sum of f[x] over the elements x of a *)
(* finite set, and the induction they rest on.  The library's induction    *)
(* theorems take a predicate as a parameter; here what is to be shown is a *)
(* set of numbers, or of subsets, that is closed under a step.             *)
(***************************************************************************)
EXTENDS Integers, FiniteSets, Functions, FiniteSetTheorems,
        WellFoundedInduction, TLAPS

-----------------------------------------------------------------------------
(* Induction *)

\* Every set of natural numbers has a least one.
LEMMA LeastNatural ==
  ASSUME NEW T \in SUBSET Nat, T # {}
  PROVE  \E n \in T : \A m \in T : n <= m
<1> DEFINE R == OpToRel(<, Nat)
<1>1. PICK n \in T : \A m \in T : <<m, n>> \notin R
  <2>1. IsWellFoundedOn(R, Nat)
    BY NatLessThanWellFounded
  <2> HIDE DEF R
  <2>. QED  BY <2>1, WFMin
<1>2. \A m \in T : ~ (m < n)
  BY <1>1 DEF OpToRel
<1>. QED  BY <1>2

\* A set that holds 0, and n + 1 with each n, holds every number.
LEMMA NaturalsBySteps ==
  ASSUME NEW T \in SUBSET Nat, 0 \in T, \A n \in T : n + 1 \in T
  PROVE  T = Nat
<1>1. SUFFICES ASSUME Nat \ T # {} PROVE FALSE
  OBVIOUS
<1>2. PICK n \in Nat \ T : \A m \in Nat \ T : n <= m
  BY <1>1, LeastNatural
<1>3. n # 0 /\ n - 1 \in Nat /\ ~(n <= n - 1)
  BY <1>2
<1>4. n - 1 \in T
  BY <1>2, <1>3
<1>5. (n - 1) + 1 = n
  BY <1>2
<1>. QED  BY <1>2, <1>4, <1>5

\* A set of subsets of S that holds the empty one, and stays closed when an
\* element is added, holds S.
LEMMA FiniteSubsetsBySteps ==
  ASSUME NEW S, IsFiniteSet(S), NEW F \in SUBSET SUBSET S, {} \in F,
         \A t \in F : \A x \in S \ t : t \cup {x} \in F
  PROVE  S \in F
<1> DEFINE T == {n \in Nat : \A t \in SUBSET S : Cardinality(t) = n => t \in F}
<1>1. \A t \in SUBSET S : IsFiniteSet(t) /\ Cardinality(t) \in Nat
  BY FS_Subset, FS_CardinalityType
<1>2. 0 \in T
  BY <1>1, FS_EmptySet
<1>3. ASSUME NEW n \in T PROVE n + 1 \in T
  <2>1. SUFFICES ASSUME NEW t \in SUBSET S, Cardinality(t) = n + 1 PROVE t \in F
    OBVIOUS
  <2>0. n \in Nat
    OBVIOUS
  <2>2. t # {}
    <3>1. Cardinality(t) # 0
      BY <2>0, <2>1
    <3>. QED  BY <3>1, FS_EmptySet
  <2>3. PICK x \in t : TRUE
    BY <2>2
  <2>4. t \ {x} \in SUBSET S /\ Cardinality(t \ {x}) = n
    <3>1. Cardinality(t \ {x}) = Cardinality(t) - 1
      BY <1>1, <2>3, FS_RemoveElement
    <3>. QED  BY <2>0, <2>1, <3>1
  <2>5. t \ {x} \in F
    BY <1>3, <2>4
  <2>6. (t \ {x}) \cup {x} = t /\ x \in S \ (t \ {x})
    BY <2>3
  <2>. QED  BY <2>5, <2>6
<1>4. T = Nat
  <2> HIDE DEF T
  <2>1. T \in SUBSET Nat
    BY DEF T
  <2>. QED  BY <1>2, <1>3, <2>1, NaturalsBySteps
<1>5. Cardinality(S) \in T
  BY <1>1, <1>4
<1>. QED  BY <1>5
-----------------------------------------------------------------------------
(* The sum is well defined *)

\* The equation by which SumFunctionOnSet is defined: g maps a set in D to the
\* summand of one of its elements and the sum of the others.
Steps(f, g, D) ==
  g = [s \in D |-> IF s = {} THEN 0
                   ELSE f[CHOOSE x \in s : TRUE]
                          + g[s \ {CHOOSE x \in s : TRUE}]]

\* SumFunctionOnSet chooses a function that satisfies the equation.
LEMMA Unfold ==
  ASSUME NEW f, NEW S
  PROVE  SumFunctionOnSet(f, S) = (CHOOSE g : Steps(f, g, SUBSET S))[S]
BY DEF SumFunctionOnSet, FoldFunctionOnSet, MapThenFoldSet, Steps

\* The subsets of up to n elements, and the one a sum takes apart first.
Upto(S, n) == {t \in SUBSET S : Cardinality(t) <= n}
First(t) == CHOOSE x \in t : TRUE

\* What is left of a set is smaller.
LEMMA WithoutFirst ==
  ASSUME NEW S, IsFiniteSet(S), NEW n \in Nat, NEW t \in SUBSET S, t # {},
         Cardinality(t) <= n + 1
  PROVE  First(t) \in S /\ t \ {First(t)} \in Upto(S, n)
<1>1. IsFiniteSet(t) /\ Cardinality(t) \in Nat
  BY FS_Subset, FS_CardinalityType
<1>2. First(t) \in t
  BY DEF First
<1>3. Cardinality(t \ {First(t)}) = Cardinality(t) - 1
  BY <1>1, <1>2, FS_RemoveElement
<1>. QED  BY <1>1, <1>2, <1>3 DEF Upto

\* A function that satisfies the equation exists: one for the subsets of up to
\* n elements extends to those of n + 1.
LEMMA StepsExist ==
  ASSUME NEW S, IsFiniteSet(S), NEW f, \A x \in S : f[x] \in Int
  PROVE  \E g \in [SUBSET S -> Int] : Steps(f, g, SUBSET S)
<1> DEFINE T == {n \in Nat : \E g \in [Upto(S, n) -> Int] :
                   Steps(f, g, Upto(S, n))}
<1>1. \A t \in SUBSET S : IsFiniteSet(t) /\ Cardinality(t) \in Nat
  BY FS_Subset, FS_CardinalityType
<1>2. \A t \in SUBSET S, n \in Nat : t # {} /\ Cardinality(t) <= n + 1 =>
        /\ First(t) \in S /\ t \ {First(t)} \in Upto(S, n)
  BY WithoutFirst
<1>3. 0 \in T
  <2>1. Upto(S, 0) = {{}}
    <3>1. \A t \in SUBSET S : Cardinality(t) <= 0 <=> t = {}
      BY <1>1, FS_EmptySet
    <3>. QED  BY <3>1 DEF Upto
  <2>2. PICK g : g = [t \in {{}} |-> 0]
    OBVIOUS
  <2>3. g \in [Upto(S, 0) -> Int] /\ Steps(f, g, Upto(S, 0))
    BY <2>1, <2>2 DEF Steps
  <2>. QED  BY <2>3
<1>4. ASSUME NEW n \in T PROVE n + 1 \in T
  <2>1. n \in Nat
    OBVIOUS
  <2>2. PICK g \in [Upto(S, n) -> Int] : Steps(f, g, Upto(S, n))
    OBVIOUS
  <2>3. PICK h : h = [t \in Upto(S, n + 1) |->
           IF t = {} THEN 0 ELSE f[First(t)] + g[t \ {First(t)}]]
    OBVIOUS
  <2>4. Upto(S, n) \subseteq Upto(S, n + 1)
    BY <1>1, <2>1 DEF Upto
  <2>5. \A t \in Upto(S, n) : h[t] = g[t]
    BY <2>2, <2>3, <2>4 DEF Steps, First
  <2>6. \A t \in Upto(S, n + 1) : t # {} =>
          First(t) \in S /\ t \ {First(t)} \in Upto(S, n)
    BY <1>2, <2>1 DEF Upto
  <2>7. h \in [Upto(S, n + 1) -> Int]
    BY <2>2, <2>3, <2>6
  <2>8. \A t \in Upto(S, n + 1) : h[t] =
          IF t = {} THEN 0 ELSE f[First(t)] + h[t \ {First(t)}]
    BY <2>3, <2>5, <2>6
  <2>9. Steps(f, h, Upto(S, n + 1))
    BY <2>7, <2>8 DEF Steps, First
  <2>. QED  BY <2>1, <2>7, <2>9
<1>5. T = Nat
  <2> HIDE DEF T
  <2>1. T \in SUBSET Nat
    BY DEF T
  <2>. QED  BY <1>3, <1>4, <2>1, NaturalsBySteps
<1>6. Upto(S, Cardinality(S)) = SUBSET S
  BY FS_Subset DEF Upto
<1>7. Cardinality(S) \in T
  BY <1>1, <1>5
<1>. QED  BY <1>6, <1>7

\* Two such functions agree where both are defined.
LEMMA StepsAgree ==
  ASSUME NEW S, IsFiniteSet(S), NEW U, S \subseteq U, NEW f, NEW g, NEW h,
         Steps(f, g, SUBSET S), Steps(f, h, SUBSET U)
  PROVE  g[S] = h[S]
<1> DEFINE T == {n \in Nat : \A t \in Upto(S, n) : g[t] = h[t]}
<1>1. \A t \in SUBSET S : IsFiniteSet(t) /\ Cardinality(t) \in Nat
  BY FS_Subset, FS_CardinalityType
<1>2. \A t \in SUBSET S :
        /\ g[t] = IF t = {} THEN 0 ELSE f[First(t)] + g[t \ {First(t)}]
        /\ h[t] = IF t = {} THEN 0 ELSE f[First(t)] + h[t \ {First(t)}]
  BY DEF Steps, First
<1>3. 0 \in T
  <2>1. \A t \in Upto(S, 0) : t \in SUBSET S /\ t = {}
    BY <1>1, FS_EmptySet DEF Upto
  <2>. QED  BY <1>2, <2>1
<1>4. ASSUME NEW n \in T PROVE n + 1 \in T
  <2>1. n \in Nat /\ \A t \in Upto(S, n) : g[t] = h[t]
    OBVIOUS
  <2>2. ASSUME NEW t \in Upto(S, n + 1), t # {} PROVE g[t] = h[t]
    <3>1. t \in SUBSET S /\ Cardinality(t) <= n + 1
      BY DEF Upto
    <3>2. t \ {First(t)} \in Upto(S, n)
      BY <2>1, <2>2, <3>1, WithoutFirst
    <3>. QED  BY <1>2, <2>1, <2>2, <3>1, <3>2
  <2>3. \A t \in Upto(S, n + 1) : t = {} => g[t] = h[t]
    BY <1>2
  <2>. QED  BY <2>1, <2>2, <2>3
<1>5. T = Nat
  <2> HIDE DEF T
  <2>1. T \in SUBSET Nat
    BY DEF T
  <2>. QED  BY <1>3, <1>4, <2>1, NaturalsBySteps
<1>6. S \in Upto(S, Cardinality(S)) /\ Cardinality(S) \in T
  BY <1>1, <1>5 DEF Upto
<1>. QED  BY <1>6

\* Such a function maps every part of a set to its sum.
LEMMA SumOfPart ==
  ASSUME NEW S, IsFiniteSet(S), NEW f, \A x \in S : f[x] \in Int,
         NEW g \in [SUBSET S -> Int], Steps(f, g, SUBSET S), NEW t \in SUBSET S
  PROVE  SumFunctionOnSet(f, t) = g[t]
<1>1. IsFiniteSet(t) /\ \A x \in t : f[x] \in Int
  BY FS_Subset
<1>2. \E h \in [SUBSET t -> Int] : Steps(f, h, SUBSET t)
  BY <1>1, StepsExist
<1>3. PICK h : h = CHOOSE k : Steps(f, k, SUBSET t)
  OBVIOUS
<1>4. Steps(f, h, SUBSET t) /\ SumFunctionOnSet(f, t) = h[t]
  BY <1>2, <1>3, Unfold
<1>5. h[t] = g[t]
  BY <1>1, <1>4, StepsAgree
<1>. QED  BY <1>4, <1>5

-----------------------------------------------------------------------------
(* Facts about sums *)

\* A sum is a number, and satisfies its equation.
LEMMA SumFirst ==
  ASSUME NEW S, IsFiniteSet(S), NEW f, \A x \in S : f[x] \in Int
  PROVE  /\ SumFunctionOnSet(f, S) \in Int
         /\ S = {} => SumFunctionOnSet(f, S) = 0
         /\ S # {} => SumFunctionOnSet(f, S)
                        = f[First(S)] + SumFunctionOnSet(f, S \ {First(S)})
<1>1. PICK g \in [SUBSET S -> Int] : Steps(f, g, SUBSET S)
  BY StepsExist
<1>2. /\ SumFunctionOnSet(f, S) = g[S]
      /\ SumFunctionOnSet(f, S \ {First(S)}) = g[S \ {First(S)}]
  BY <1>1, SumOfPart
<1>3. g[S] = IF S = {} THEN 0 ELSE f[First(S)] + g[S \ {First(S)}]
  BY <1>1 DEF Steps, First
<1>4. g[S] \in Int
  OBVIOUS
<1>. QED  BY <1>2, <1>3, <1>4

\* Nothing adds up to 0.
LEMMA SumOfNone == ASSUME NEW f PROVE SumFunctionOnSet(f, {}) = 0
<1>1. IsFiniteSet({}) /\ \A x \in {} : f[x] \in Int
  BY FS_EmptySet
<1>. QED  BY <1>1, SumFirst

\* A sum of integers is one.
LEMMA SumType ==
  ASSUME NEW S, IsFiniteSet(S), NEW f, \A x \in S : f[x] \in Int
  PROVE  SumFunctionOnSet(f, S) \in Int
BY SumFirst

\* Any element can be taken off a sum.
LEMMA SumWithout ==
  ASSUME NEW S, IsFiniteSet(S), NEW f, \A x \in S : f[x] \in Int, NEW z \in S
  PROVE  SumFunctionOnSet(f, S) = f[z] + SumFunctionOnSet(f, S \ {z})
<1> DEFINE T == {n \in Nat : \A t \in Upto(S, n) : \A x \in t :
                   SumFunctionOnSet(f, t)
                     = f[x] + SumFunctionOnSet(f, t \ {x})}
<1>1. \A t \in SUBSET S : IsFiniteSet(t) /\ Cardinality(t) \in Nat
  BY FS_Subset, FS_CardinalityType
<1>2. 0 \in T
  <2>1. \A t \in Upto(S, 0) : t = {}
    BY <1>1, FS_EmptySet DEF Upto
  <2>. QED  BY <2>1
<1>3. ASSUME NEW n \in T PROVE n + 1 \in T
  <2>0. n \in Nat
    OBVIOUS
  <2>1. SUFFICES ASSUME NEW t \in Upto(S, n + 1), NEW x \in t
                 PROVE  SumFunctionOnSet(f, t)
                          = f[x] + SumFunctionOnSet(f, t \ {x})
    BY <2>0
  <2>2. PICK y : y = First(t)
    OBVIOUS
  <2>3. y \in t /\ t \in SUBSET S /\ t # {} /\ Cardinality(t) <= n + 1
    BY <2>2 DEF First, Upto
  <2>4. SumFunctionOnSet(f, t) = f[y] + SumFunctionOnSet(f, t \ {y})
    BY <1>1, <2>2, <2>3, SumFirst
  <2>5. CASE x = y
    BY <2>4, <2>5
  <2>6. CASE x # y
    <3>1. \A u \in t : t \ {u} \in Upto(S, n)
      <4>1. ASSUME NEW u \in t PROVE t \ {u} \in Upto(S, n)
        <5>1. Cardinality(t \ {u}) = Cardinality(t) - 1
          BY <1>1, <2>3, FS_RemoveElement
        <5>. QED  BY <1>1, <2>0, <2>3, <5>1 DEF Upto
      <4>. QED  BY <4>1
    <3>2. \A u \in t : \A v \in t \ {u} :
            SumFunctionOnSet(f, t \ {u})
              = f[v] + SumFunctionOnSet(f, (t \ {u}) \ {v})
      BY <3>1
    <3>3. /\ SumFunctionOnSet(f, t \ {y})
               = f[x] + SumFunctionOnSet(f, (t \ {y}) \ {x})
          /\ SumFunctionOnSet(f, t \ {x})
               = f[y] + SumFunctionOnSet(f, (t \ {x}) \ {y})
      BY <2>3, <2>6, <3>2
    <3>4. (t \ {x}) \ {y} = (t \ {y}) \ {x}
      OBVIOUS
    <3>5. PICK r : r = SumFunctionOnSet(f, (t \ {x}) \ {y})
      OBVIOUS
    <3>6. f[x] \in Int /\ f[y] \in Int /\ r \in Int
      <4>1. (t \ {x}) \ {y} \in SUBSET S
        BY <2>3
      <4>. QED  BY <1>1, <2>3, <3>5, <4>1, SumType
    <3>7. /\ SumFunctionOnSet(f, t \ {y}) = f[x] + r
          /\ SumFunctionOnSet(f, t \ {x}) = f[y] + r
      BY <3>3, <3>4, <3>5
    <3>8. f[y] + (f[x] + r) = f[x] + (f[y] + r)
      BY <3>6
    <3>. QED  BY <2>4, <3>7, <3>8
  <2>. QED  BY <2>5, <2>6
<1>4. T = Nat
  <2> HIDE DEF T
  <2>1. T \in SUBSET Nat
    BY DEF T
  <2>. QED  BY <1>2, <1>3, <2>1, NaturalsBySteps
<1>5. S \in Upto(S, Cardinality(S)) /\ Cardinality(S) \in T
  BY <1>1, <1>4 DEF Upto
<1>. QED  BY <1>5

\* A sum depends on the summands alone.
LEMMA SumOfSame ==
  ASSUME NEW S, IsFiniteSet(S), NEW f, NEW g,
         \A x \in S : f[x] \in Int /\ g[x] = f[x]
  PROVE  SumFunctionOnSet(g, S) = SumFunctionOnSet(f, S)
<1> DEFINE F == {t \in SUBSET S :
                   SumFunctionOnSet(g, t) = SumFunctionOnSet(f, t)}
<1>1. {} \in F
  BY SumOfNone
<1>2. ASSUME NEW t \in F, NEW x \in S \ t PROVE t \cup {x} \in F
  <2>1. t \cup {x} \in SUBSET S /\ (t \cup {x}) \ {x} = t /\ x \in t \cup {x}
    OBVIOUS
  <2>2. IsFiniteSet(t \cup {x})
    BY <2>1, FS_Subset
  <2>3. /\ SumFunctionOnSet(f, t \cup {x}) = f[x] + SumFunctionOnSet(f, t)
        /\ SumFunctionOnSet(g, t \cup {x}) = g[x] + SumFunctionOnSet(g, t)
    <3>1. \A y \in t \cup {x} : f[y] \in Int /\ g[y] \in Int
      BY <2>1
    <3>. QED  BY <2>1, <2>2, <3>1, SumWithout
  <2>. QED  BY <2>1, <2>3
<1>. QED
  <2> HIDE DEF F
  <2>1. F \in SUBSET SUBSET S
    BY DEF F
  <2>2. S \in F
    BY <1>1, <1>2, <2>1, FiniteSubsetsBySteps
  <2>. QED  BY <2>2 DEF F

\* What one summand gains, the sum gains.
LEMMA SumOfChanged ==
  ASSUME NEW S, IsFiniteSet(S), NEW z \in S, NEW f, NEW g,
         \A x \in S : f[x] \in Int /\ g[x] \in Int,
         \A x \in S \ {z} : g[x] = f[x]
  PROVE  SumFunctionOnSet(g, S) = SumFunctionOnSet(f, S) + g[z] - f[z]
<1>1. IsFiniteSet(S \ {z}) /\ S \ {z} \in SUBSET S
  BY FS_Subset
<1>2. SumFunctionOnSet(g, S \ {z}) = SumFunctionOnSet(f, S \ {z})
  BY <1>1, SumOfSame
<1>3. /\ SumFunctionOnSet(f, S) = f[z] + SumFunctionOnSet(f, S \ {z})
      /\ SumFunctionOnSet(g, S) = g[z] + SumFunctionOnSet(g, S \ {z})
  BY SumWithout
<1>4. SumFunctionOnSet(f, S \ {z}) \in Int /\ f[z] \in Int /\ g[z] \in Int
  BY <1>1, SumType
<1>. QED  BY <1>2, <1>3, <1>4

\* A sum of natural numbers is one.
LEMMA SumOfNaturals ==
  ASSUME NEW S, IsFiniteSet(S), NEW f, \A x \in S : f[x] \in Nat
  PROVE  SumFunctionOnSet(f, S) \in Nat
<1> DEFINE F == {t \in SUBSET S : SumFunctionOnSet(f, t) \in Nat}
<1>1. {} \in F
  BY SumOfNone
<1>2. ASSUME NEW t \in F, NEW x \in S \ t PROVE t \cup {x} \in F
  <2>1. t \cup {x} \in SUBSET S /\ (t \cup {x}) \ {x} = t /\ x \in t \cup {x}
    OBVIOUS
  <2>2. IsFiniteSet(t \cup {x})
    BY <2>1, FS_Subset
  <2>3. SumFunctionOnSet(f, t \cup {x}) = f[x] + SumFunctionOnSet(f, t)
    BY <2>1, <2>2, SumWithout
  <2>. QED  BY <2>1, <2>3
<1>3. SumFunctionOnSet(f, S) \in Nat
  <2> HIDE DEF F
  <2>1. F \in SUBSET SUBSET S
    BY DEF F
  <2>2. S \in F
    BY <1>1, <1>2, <2>1, FiniteSubsetsBySteps
  <2>. QED  BY <2>2 DEF F
<1>. QED  BY <1>3

\* Nothing adds up to nothing.
LEMMA SumOfZeros ==
  ASSUME NEW S, IsFiniteSet(S), NEW f, \A x \in S : f[x] = 0
  PROVE  SumFunctionOnSet(f, S) = 0
<1> DEFINE F == {t \in SUBSET S : SumFunctionOnSet(f, t) = 0}
<1>1. {} \in F
  BY SumOfNone
<1>2. ASSUME NEW t \in F, NEW x \in S \ t PROVE t \cup {x} \in F
  <2>1. t \cup {x} \in SUBSET S /\ (t \cup {x}) \ {x} = t /\ x \in t \cup {x}
    OBVIOUS
  <2>2. IsFiniteSet(t \cup {x}) /\ \A y \in t \cup {x} : f[y] \in Int
    BY <2>1, FS_Subset
  <2>3. SumFunctionOnSet(f, t \cup {x}) = f[x] + SumFunctionOnSet(f, t)
    BY <2>1, <2>2, SumWithout
  <2>4. SumFunctionOnSet(f, t) = 0 /\ f[x] = 0
    OBVIOUS
  <2>. QED  BY <2>1, <2>3, <2>4
<1>3. S \in F
  BY <1>1, <1>2, FiniteSubsetsBySteps
<1>. QED  BY <1>3

=============================================================================
