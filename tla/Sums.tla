-------------------------------- MODULE Sums --------------------------------
(***************************************************************************)
(* Lemmas about SumFunctionOnSet, the sum of the values of a function over *)
(* a finite set of arguments, by which the books of the contracts are      *)
(* balanced.  The induction is over sets of subsets: every nonempty set of *)
(* subsets of a finite set has a member that is minimal.                   *)
(***************************************************************************)
EXTENDS Integers, FiniteSets, Functions, FiniteSetTheorems, TLAPS

-----------------------------------------------------------------------------
(* Induction.                                                              *)

\* A set of natural numbers that contains 0 and, with a number, the next one.
LEMMA Naturals ==
    ASSUME NEW T \in SUBSET Nat, 0 \in T, \A n \in T : n + 1 \in T
    PROVE  T = Nat
  <1> DEFINE Less == OpToRel(<, Nat)
             Bad == Nat \ T
  <1>1. IsWellFoundedOn(Less, Nat)
    BY NatLessThanWellFounded
  <1>2. \A m, n \in Nat : m < n => <<m, n>> \in Less
    BY DEF OpToRel
  <1> HIDE DEF Less
  <1>3. SUFFICES ASSUME Bad # {} PROVE FALSE
    OBVIOUS
  <1>4. PICK n \in Bad : \A m \in Bad : <<m, n>> \notin Less
    BY <1>1, <1>3, WFMin
  <1>5. n - 1 \in Nat /\ n - 1 < n
    BY <1>4
  <1>6. n - 1 \in T
    BY <1>2, <1>4, <1>5
  <1> QED BY <1>4, <1>5, <1>6

\* A set of subsets of S that contains a subset as soon as it contains all that
\* have one element less.
LEMMA Subsets ==
    ASSUME NEW S, IsFiniteSet(S), NEW T \in SUBSET (SUBSET S),
           \A s \in SUBSET S : (\A x \in s : s \ {x} \in T) => s \in T
    PROVE  T = SUBSET S
  <1> DEFINE Bad == (SUBSET S) \ T
  <1>1. IsWellFoundedOn(StrictSubsetOrdering(S), SUBSET S)
    BY FS_StrictSubsetOrderingWellFounded, FS_FiniteSubsetsOfFinite
  <1>2. SUFFICES ASSUME Bad # {} PROVE FALSE
    OBVIOUS
  <1>3. PICK s \in Bad : \A r \in Bad : <<r, s>> \notin StrictSubsetOrdering(S)
    BY <1>1, <1>2, WFMin
  <1>4. ASSUME NEW x \in s PROVE s \ {x} \in T
    <2>1. s \ {x} \in SUBSET S /\ s \ {x} \subseteq s /\ s \ {x} # s
      BY <1>3
    <2> QED BY <1>3, <2>1 DEF StrictSubsetOrdering
  <1> QED BY <1>3, <1>4

-----------------------------------------------------------------------------
(* The recursion of the fold.                                              *)

Pick(s) == CHOOSE x \in s : TRUE

\* Pick chooses an element.
LEMMA Picks == ASSUME NEW s, s # {} PROVE Pick(s) \in s
  BY DEF Pick

\* g is the fold of f on the sets in D.
Folds(g, f, D) ==
    g = [s \in D |-> IF s = {} THEN 0 ELSE f[Pick(s)] + g[s \ {Pick(s)}]]

Iter(f, S) == CHOOSE g : Folds(g, f, SUBSET S)

\* The sum is such a fold.
LEMMA SumIsIter == ASSUME NEW f, NEW S PROVE SumFunctionOnSet(f, S) = Iter(f, S)[S]
  BY Zenon DEF SumFunctionOnSet, FoldFunctionOnSet, MapThenFoldSet, Iter, Folds, Pick

\* There is a fold of f on the subsets of S: one on those with at most n
\* elements extends to those with n + 1.
LEMMA FoldExists ==
    ASSUME NEW f, NEW S, IsFiniteSet(S)
    PROVE  \E g : Folds(g, f, SUBSET S)
  <1> DEFINE Small(n) == {s \in SUBSET S : Cardinality(s) <= n}
             T == {n \in Nat : \E g : Folds(g, f, Small(n))}
  <1>1. \A s \in SUBSET S : IsFiniteSet(s) /\ Cardinality(s) \in Nat
    BY FS_Subset, FS_CardinalityType
  <1>2. \A s \in SUBSET S : s # {} => Cardinality(s \ {Pick(s)}) = Cardinality(s) - 1
    BY <1>1, Picks, FS_RemoveElement
  <1>3. 0 \in T
    <2> DEFINE g == [s \in Small(0) |-> 0]
    <2>1. \A s \in Small(0) : s = {}
      BY <1>1, FS_EmptySet
    <2>2. Folds(g, f, Small(0))
      BY <2>1 DEF Folds
    <2> QED BY <2>2
  <1>4. ASSUME NEW n \in T PROVE n + 1 \in T
    <2>1. PICK g : Folds(g, f, Small(n))
      OBVIOUS
    <2> DEFINE h == [s \in Small(n + 1) |->
                        IF s = {} THEN 0 ELSE f[Pick(s)] + g[s \ {Pick(s)}]]
    <2>2. ASSUME NEW s \in Small(n + 1), s # {} PROVE s \ {Pick(s)} \in Small(n)
      BY <1>1, <1>2, <2>2
    <2>3. \A s \in Small(n) : h[s] = g[s]
      <3>1. \A s \in Small(n) :
              g[s] = IF s = {} THEN 0 ELSE f[Pick(s)] + g[s \ {Pick(s)}]
        BY <2>1 DEF Folds
      <3>2. Small(n) \subseteq Small(n + 1)
        BY <1>1
      <3> QED BY <3>1, <3>2
    <2>4. Folds(h, f, Small(n + 1))
      BY <2>2, <2>3 DEF Folds
    <2> HIDE DEF h, Small
    <2> QED BY <2>4
  <1>5. T = Nat
    BY <1>3, <1>4, Naturals
  <1>6. Cardinality(S) \in T
    BY <1>5, <1>1
  <1>7. Small(Cardinality(S)) = SUBSET S
    BY FS_Subset
  <1> QED BY <1>6, <1>7

\* Any two folds agree on the subsets of both sets.
Agree(g, h, S) == \A s \in SUBSET S : g[s] = h[s]

\* Folds over a set and over a larger one agree on the subsets of the smaller.
LEMMA FoldsAgree ==
    ASSUME NEW f, NEW S, NEW R, NEW g, NEW h, IsFiniteSet(S), S \subseteq R,
           Folds(g, f, SUBSET S), Folds(h, f, SUBSET R)
    PROVE  Agree(g, h, S)
  <1> DEFINE T == {s \in SUBSET S : g[s] = h[s]}
  <1>1. ASSUME NEW s \in SUBSET S, \A x \in s : s \ {x} \in T
        PROVE  s \in T
    <2>1. /\ g[s] = IF s = {} THEN 0 ELSE f[Pick(s)] + g[s \ {Pick(s)}]
          /\ h[s] = IF s = {} THEN 0 ELSE f[Pick(s)] + h[s \ {Pick(s)}]
      BY DEF Folds
    <2> QED BY <1>1, <2>1, Picks
  <1>2. T = SUBSET S
    <2> HIDE DEF T
    <2>1. T \in SUBSET (SUBSET S)
      BY DEF T
    <2> QED BY <1>1, <2>1, Subsets
  <1> QED BY <1>2 DEF Agree

\* The sum takes out one element after the other.
LEMMA SumRecursion ==
    ASSUME NEW f, NEW S, IsFiniteSet(S)
    PROVE  SumFunctionOnSet(f, S) =
              IF S = {} THEN 0 ELSE f[Pick(S)] + SumFunctionOnSet(f, S \ {Pick(S)})
  <1>1. ASSUME NEW R, IsFiniteSet(R) PROVE Folds(Iter(f, R), f, SUBSET R)
    BY <1>1, FoldExists DEF Iter
  <1>2. ASSUME NEW R, R \subseteq S PROVE Iter(f, R)[R] = Iter(f, S)[R]
    <2>1. IsFiniteSet(R)
      BY <1>2, FS_Subset
    <2>2. Folds(Iter(f, R), f, SUBSET R) /\ Folds(Iter(f, S), f, SUBSET S)
      BY <1>1, <2>1
    <2>3. Agree(Iter(f, R), Iter(f, S), R)
      BY <1>2, <2>1, <2>2, FoldsAgree
    <2> QED BY <2>3 DEF Agree
  <1>3. \A s \in SUBSET S :
          Iter(f, S)[s] = IF s = {} THEN 0 ELSE f[Pick(s)] + Iter(f, S)[s \ {Pick(s)}]
    BY <1>1 DEF Folds
  <1>4. /\ SumFunctionOnSet(f, S) = Iter(f, S)[S]
        /\ SumFunctionOnSet(f, S \ {Pick(S)}) = Iter(f, S)[S \ {Pick(S)}]
    BY <1>2, SumIsIter
  <1> QED BY <1>3, <1>4

\* The same, by cases.
LEMMA SumStep ==
    ASSUME NEW f
    PROVE  /\ SumFunctionOnSet(f, {}) = 0
           /\ \A S : IsFiniteSet(S) /\ S # {} =>
                /\ Pick(S) \in S
                /\ SumFunctionOnSet(f, S) = f[Pick(S)] + SumFunctionOnSet(f, S \ {Pick(S)})
  BY SumRecursion, FS_EmptySet, Picks

-----------------------------------------------------------------------------
(* What the books use.                                                     *)

\* The sum only depends on the values it adds.
LEMMA SumSame ==
    ASSUME NEW S, IsFiniteSet(S), NEW f, NEW g, \A x \in S : f[x] = g[x]
    PROVE  SumFunctionOnSet(f, S) = SumFunctionOnSet(g, S)
  <1> DEFINE T == {s \in SUBSET S : SumFunctionOnSet(f, s) = SumFunctionOnSet(g, s)}
  <1>1. ASSUME NEW s \in SUBSET S, \A x \in s : s \ {x} \in T
        PROVE  s \in T
    <2>1. IsFiniteSet(s)
      BY FS_Subset
    <2>2. CASE s = {}
      BY <2>2, SumStep
    <2>3. CASE s # {}
      <3>1. /\ Pick(s) \in s
            /\ SumFunctionOnSet(f, s) = f[Pick(s)] + SumFunctionOnSet(f, s \ {Pick(s)})
            /\ SumFunctionOnSet(g, s) = g[Pick(s)] + SumFunctionOnSet(g, s \ {Pick(s)})
        BY <2>1, <2>3, SumStep
      <3>2. s \ {Pick(s)} \in T
        BY <1>1, <3>1
      <3> QED BY <3>1, <3>2
    <2> QED BY <2>2, <2>3
  <1>2. T = SUBSET S
    <2> HIDE DEF T
    <2>1. T \in SUBSET (SUBSET S)
      BY DEF T
    <2> QED BY <1>1, <2>1, Subsets
  <1> QED BY <1>2

\* The sum of integers is one.
LEMMA SumInt ==
    ASSUME NEW S, IsFiniteSet(S), NEW f, \A x \in S : f[x] \in Int
    PROVE  SumFunctionOnSet(f, S) \in Int
  <1> DEFINE T == {s \in SUBSET S : SumFunctionOnSet(f, s) \in Int}
  <1>1. ASSUME NEW s \in SUBSET S, \A x \in s : s \ {x} \in T
        PROVE  s \in T
    <2>1. IsFiniteSet(s)
      BY FS_Subset
    <2>2. CASE s = {}
      BY <2>2, SumStep
    <2>3. CASE s # {}
      <3>1. /\ Pick(s) \in s
            /\ SumFunctionOnSet(f, s) = f[Pick(s)] + SumFunctionOnSet(f, s \ {Pick(s)})
        BY <2>1, <2>3, SumStep
      <3>2. s \ {Pick(s)} \in T
        BY <1>1, <3>1
      <3> QED BY <3>1, <3>2
    <2> QED BY <2>2, <2>3
  <1>2. T = SUBSET S
    <2> HIDE DEF T
    <2>1. T \in SUBSET (SUBSET S)
      BY DEF T
    <2> QED BY <1>1, <2>1, Subsets
  <1> QED BY <1>2

\* Nothing adds up to nothing.
LEMMA SumZero ==
    ASSUME NEW S, IsFiniteSet(S), NEW f, \A x \in S : f[x] = 0
    PROVE  SumFunctionOnSet(f, S) = 0
  <1> DEFINE T == {s \in SUBSET S : SumFunctionOnSet(f, s) = 0}
  <1>1. ASSUME NEW s \in SUBSET S, \A x \in s : s \ {x} \in T
        PROVE  s \in T
    <2>1. IsFiniteSet(s)
      BY FS_Subset
    <2>2. CASE s = {}
      BY <2>2, SumStep
    <2>3. CASE s # {}
      <3>1. /\ Pick(s) \in s
            /\ SumFunctionOnSet(f, s) = f[Pick(s)] + SumFunctionOnSet(f, s \ {Pick(s)})
        BY <2>1, <2>3, SumStep
      <3>2. s \ {Pick(s)} \in T
        BY <1>1, <3>1
      <3> QED BY <3>1, <3>2
    <2> QED BY <2>2, <2>3
  <1>2. T = SUBSET S
    <2> HIDE DEF T
    <2>1. T \in SUBSET (SUBSET S)
      BY DEF T
    <2> QED BY <1>1, <2>1, Subsets
  <1> QED BY <1>2

\* Whichever element is taken out, the rest and it are the whole.
LEMMA SumTakesOut ==
    ASSUME NEW S, IsFiniteSet(S), NEW f, \A x \in S : f[x] \in Int
    PROVE  \A x \in S : SumFunctionOnSet(f, S) = f[x] + SumFunctionOnSet(f, S \ {x})
  <1> DEFINE Sum(s) == SumFunctionOnSet(f, s)
             T == {s \in SUBSET S : \A x \in s : Sum(s) = f[x] + Sum(s \ {x})}
  <1>1. ASSUME NEW s \in SUBSET S, \A x \in s : s \ {x} \in T
        PROVE  s \in T
    <2> DEFINE p == Pick(s)
    <2>1. IsFiniteSet(s)
      BY FS_Subset
    <2>2. ASSUME NEW x \in s PROVE Sum(s) = f[x] + Sum(s \ {x})
      <3>1. p \in s /\ Sum(s) = f[p] + Sum(s \ {p})
        BY <2>1, SumStep
      <3> HIDE DEF p
      <3>2. CASE x # p
        <4> DEFINE r == (s \ {p}) \ {x}
        <4>1. Sum(s \ {p}) = f[x] + Sum(r)
          BY <1>1, <3>1, <3>2
        <4>2. r = (s \ {x}) \ {p}
          OBVIOUS
        <4>3. Sum(s \ {x}) = f[p] + Sum(r)
          BY <1>1, <3>1, <3>2, <4>2
        <4>4. f[p] \in Int /\ f[x] \in Int
          BY <3>1
        <4>5. Sum(r) \in Int
          <5>1. IsFiniteSet(r) /\ \A y \in r : f[y] \in Int
            BY FS_Subset
          <5> QED BY <5>1, SumInt
        <4> HIDE DEF r, Sum
        <4> QED BY <3>1, <4>1, <4>3, <4>4, <4>5
      <3> QED BY <3>1, <3>2
    <2> QED BY <2>2
  <1>2. T = SUBSET S
    <2> HIDE DEF T
    <2>1. T \in SUBSET (SUBSET S)
      BY DEF T
    <2> QED BY <1>1, <2>1, Subsets
  <1> QED BY <1>2

\* Natural numbers add up to one that is not less than each of them.
LEMMA SumNat ==
    ASSUME NEW S, IsFiniteSet(S), NEW f, \A x \in S : f[x] \in Nat
    PROVE  /\ SumFunctionOnSet(f, S) \in Nat
           /\ \A x \in S : f[x] <= SumFunctionOnSet(f, S)
  <1> DEFINE T == {s \in SUBSET S : SumFunctionOnSet(f, s) \in Nat}
  <1>1. ASSUME NEW s \in SUBSET S, \A x \in s : s \ {x} \in T
        PROVE  s \in T
    <2>1. IsFiniteSet(s)
      BY FS_Subset
    <2>2. CASE s = {}
      BY <2>2, SumStep
    <2>3. CASE s # {}
      <3>1. /\ Pick(s) \in s
            /\ SumFunctionOnSet(f, s) = f[Pick(s)] + SumFunctionOnSet(f, s \ {Pick(s)})
        BY <2>1, <2>3, SumStep
      <3>2. s \ {Pick(s)} \in T
        BY <1>1, <3>1
      <3> QED BY <3>1, <3>2
    <2> QED BY <2>2, <2>3
  <1>2. T = SUBSET S
    <2> HIDE DEF T
    <2>1. T \in SUBSET (SUBSET S)
      BY DEF T
    <2> QED BY <1>1, <2>1, Subsets
  <1>3. \A x \in S : SumFunctionOnSet(f, S) = f[x] + SumFunctionOnSet(f, S \ {x})
    BY SumTakesOut
  <1>4. \A x \in S : SumFunctionOnSet(f, S \ {x}) \in Nat
    BY <1>2
  <1>5. SumFunctionOnSet(f, S) \in Nat
    BY <1>2
  <1>6. ASSUME NEW x \in S PROVE f[x] <= SumFunctionOnSet(f, S)
    <2> DEFINE a == SumFunctionOnSet(f, S)
               b == SumFunctionOnSet(f, S \ {x})
    <2>1. a = f[x] + b /\ b \in Nat /\ f[x] \in Nat
      BY <1>3, <1>4
    <2> HIDE DEF a, b
    <2>2. f[x] <= a
      BY <2>1
    <2> QED BY <2>2 DEF a
  <1> QED BY <1>5, <1>6

\* One value changes, and the sum by as much.
LEMMA SumUpdate ==
    ASSUME NEW S, IsFiniteSet(S), NEW f, NEW g, NEW y \in S,
           \A x \in S : f[x] \in Int /\ g[x] \in Int,
           \A x \in S : x # y => f[x] = g[x]
    PROVE  SumFunctionOnSet(g, S) = SumFunctionOnSet(f, S) - f[y] + g[y]
  <1>1. IsFiniteSet(S \ {y})
    BY FS_RemoveElement
  <1>2. SumFunctionOnSet(f, S \ {y}) = SumFunctionOnSet(g, S \ {y})
    BY <1>1, SumSame
  <1>3. /\ SumFunctionOnSet(f, S) = f[y] + SumFunctionOnSet(f, S \ {y})
        /\ SumFunctionOnSet(g, S) = g[y] + SumFunctionOnSet(g, S \ {y})
    BY SumTakesOut
  <1>4. SumFunctionOnSet(f, S \ {y}) \in Int
    BY <1>1, SumInt
  <1> QED BY <1>2, <1>3, <1>4

\* A new element adds its value.
LEMMA SumAdd ==
    ASSUME NEW S, IsFiniteSet(S), NEW f, NEW y, y \notin S, f[y] \in Int,
           \A x \in S : f[x] \in Int
    PROVE  SumFunctionOnSet(f, S \cup {y}) = f[y] + SumFunctionOnSet(f, S)
  <1>1. IsFiniteSet(S \cup {y})
    BY FS_AddElement
  <1>2. (S \cup {y}) \ {y} = S
    OBVIOUS
  <1> QED BY <1>1, <1>2, SumTakesOut

\* The sum over renamed arguments.
LEMMA SumRenamed ==
    ASSUME NEW S, IsFiniteSet(S), NEW f, NEW h, NEW g,
           \A x \in S : f[h[x]] \in Int /\ g[x] = f[h[x]],
           \A x, y \in S : h[x] = h[y] => x = y
    PROVE  SumFunctionOnSet(g, S) = SumFunctionOnSet(f, {h[x] : x \in S})
  <1> DEFINE H(s) == {h[x] : x \in s}
             T == {s \in SUBSET S : /\ IsFiniteSet(H(s))
                                  /\ SumFunctionOnSet(g, s) = SumFunctionOnSet(f, H(s))}
  <1>1. ASSUME NEW s \in SUBSET S, \A x \in s : s \ {x} \in T
        PROVE  s \in T
    <2>1. IsFiniteSet(s)
      BY FS_Subset
    <2>2. CASE s = {}
      <3>1. H(s) = {}
        BY <2>2
      <3> QED BY <2>2, <3>1, SumStep, FS_EmptySet
    <2>3. CASE s # {}
      <3>1. PICK x \in s : TRUE
        BY <2>3
      <3>2. /\ IsFiniteSet(H(s \ {x}))
            /\ SumFunctionOnSet(g, s \ {x}) = SumFunctionOnSet(f, H(s \ {x}))
        BY <1>1, <3>1
      <3>3. H(s) = H(s \ {x}) \cup {h[x]} /\ h[x] \notin H(s \ {x})
        BY <3>1
      <3>4. \A y \in H(s) : f[y] \in Int
        OBVIOUS
      <3>5. f[h[x]] \in Int /\ \A y \in H(s \ {x}) : f[y] \in Int
        BY <3>1, <3>4
      <3>6. \A y \in s : g[y] \in Int
        OBVIOUS
      <3> DEFINE R == H(s \ {x})
                 y == h[x]
      <3>7. SumFunctionOnSet(f, R \cup {y}) = f[y] + SumFunctionOnSet(f, R)
        <4>1. IsFiniteSet(R) /\ y \notin R /\ f[y] \in Int /\ \A z \in R : f[z] \in Int
          BY <3>2, <3>3, <3>5
        <4> HIDE DEF R, y, H
        <4> QED BY <4>1, SumAdd
      <3>8. SumFunctionOnSet(g, s) = g[x] + SumFunctionOnSet(g, s \ {x})
        BY <2>1, <3>1, <3>6, SumTakesOut
      <3>9. SumFunctionOnSet(g, s) = SumFunctionOnSet(f, H(s))
        BY <3>1, <3>2, <3>3, <3>7, <3>8
      <3>10. IsFiniteSet(H(s))
        <4>1. IsFiniteSet(R \cup {y})
          BY <3>2, FS_AddElement
        <4> QED BY <3>3, <4>1
      <3> QED BY <3>9, <3>10
    <2> QED BY <2>2, <2>3
  <1>2. T = SUBSET S
    <2> HIDE DEF T
    <2>1. T \in SUBSET (SUBSET S)
      BY DEF T
    <2> QED BY <1>1, <2>1, Subsets
  <1>3. S \in T
    BY <1>2
  <1> QED BY <1>3

\* The sum over one argument.
LEMMA SumOne == ASSUME NEW f, NEW x, f[x] \in Int PROVE SumFunctionOnSet(f, {x}) = f[x]
  <1>1. IsFiniteSet({}) /\ {} \cup {x} = {x} /\ SumFunctionOnSet(f, {}) = 0
    BY FS_EmptySet, SumStep
  <1>2. SumFunctionOnSet(f, {} \cup {x}) = f[x] + SumFunctionOnSet(f, {})
    BY <1>1, SumAdd
  <1> QED BY <1>1, <1>2
=============================================================================
