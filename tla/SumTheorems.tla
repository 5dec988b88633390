----------------------------- MODULE SumTheorems ------------------------------
(***************************************************************************)
(* Sums over finite sets: facts about SumFunctionOnSet, with which the     *)
(* models add up the CPUs, the disks and the points of a chart.            *)
(*                                                                         *)
(* The sum is a fold, and a fold is CHOOSE g : g = [s \in SUBSET S |-> ..  *)
(* g[..] ..], the function that is defined by recursion on the subsets.    *)
(* So the first part shows that there is exactly one such function, which  *)
(* gives the sum its recursion; the second part derives the arithmetic by  *)
(* induction on the set.  Both argue with a smallest counterexample: the   *)
(* subsets of a finite set are well founded under inclusion.               *)
(***************************************************************************)
EXTENDS Functions, Integers, FiniteSetTheorems, WellFoundedInduction, TLAPS

(* A set of subsets of a finite set has a smallest one. *)
LEMMA MinimalSubset ==
    ASSUME NEW S, IsFiniteSet(S), NEW Bad \in SUBSET SUBSET S, Bad # {}
    PROVE  \E T \in Bad : \A U \in SUBSET T : U # T => U \notin Bad
<1>1. IsWellFoundedOn(StrictSubsetOrdering(S), SUBSET S)
  BY FS_StrictSubsetOrderingWellFounded, FS_FiniteSubsetsOfFinite
<1>2. PICK T \in Bad : \A U \in Bad : ~(<<U, T>> \in StrictSubsetOrdering(S))
  BY <1>1, WFMin
<1> QED BY <1>2 DEF StrictSubsetOrdering

(* Induction on finite sets: Good is the set of the subsets for which the  *)
(* claim holds.                                                            *)
LEMMA SetInduction ==
    ASSUME NEW S, IsFiniteSet(S), NEW Good, {} \in Good,
           \A T \in SUBSET S, x \in S : T \in Good /\ x \notin T => T \cup {x} \in Good
    PROVE  S \in Good
<1> DEFINE Bad == {T \in SUBSET S : T \notin Good}
<1> SUFFICES ASSUME S \notin Good PROVE FALSE
  OBVIOUS
<1>1. PICK T \in Bad : \A U \in SUBSET T : U # T => U \notin Bad
  <2>1. Bad \in SUBSET SUBSET S
    OBVIOUS
  <2>2. Bad # {}
    OBVIOUS
  <2> HIDE DEF Bad
  <2> QED BY <2>1, <2>2, MinimalSubset
<1>2. PICK x \in T : TRUE
  OBVIOUS
<1>3. T \ {x} \in Good /\ (T \ {x}) \cup {x} = T
  BY <1>1
<1> QED BY <1>3

-----------------------------------------------------------------------------
(* The recursion.  A fold takes this element next. *)
Pick(s) == CHOOSE x \in s : TRUE

LEMMA PickIn == \A s : s # {} => Pick(s) \in s
BY DEF Pick

(* The function that folds f over the subsets of S. *)
Adds(f, S, g) ==
    g = [s \in SUBSET S |-> IF s = {} THEN 0 ELSE f[Pick(s)] + g[s \ {Pick(s)}]]

(* What such a function does to one subset. *)
LEMMA AddsAt ==
    ASSUME NEW f, NEW S, NEW g, Adds(f, S, g), NEW T \in SUBSET S
    PROVE  g[T] = IF T = {} THEN 0 ELSE f[Pick(T)] + g[T \ {Pick(T)}]
<1> DEFINE h == [s \in SUBSET S |-> IF s = {} THEN 0
                            ELSE f[Pick(s)] + g[s \ {Pick(s)}]]
<1>1. g = h
  BY Zenon DEF Adds
<1>2. h[T] = IF T = {} THEN 0 ELSE f[Pick(T)] + g[T \ {Pick(T)}]
  BY Zenon
<1> QED BY <1>1, <1>2, Zenon

(* Functions that fold over different sets agree on the subsets of both. *)
LEMMA AddsUnique ==
    ASSUME NEW f, NEW S, NEW T, IsFiniteSet(T), T \subseteq S,
           NEW g, Adds(f, S, g), NEW h, Adds(f, T, h)
    PROVE  g[T] = h[T]
<1> DEFINE Bad == {U \in SUBSET T : g[U] # h[U]}
<1> SUFFICES ASSUME Bad # {} PROVE FALSE
  OBVIOUS
<1>1. PICK U \in Bad : \A V \in SUBSET U : V # U => V \notin Bad
  <2>1. Bad \in SUBSET SUBSET T
    OBVIOUS
  <2> HIDE DEF Bad
  <2> QED BY <2>1, MinimalSubset
<1> DEFINE x == Pick(U)
<1>2. /\ g[U] = IF U = {} THEN 0 ELSE f[x] + g[U \ {x}]
      /\ h[U] = IF U = {} THEN 0 ELSE f[x] + h[U \ {x}]
  <2>1. U \in SUBSET S /\ U \in SUBSET T
    OBVIOUS
  <2> HIDE DEF Bad
  <2> QED BY <2>1, AddsAt
<1>3. U # {} => x \in U
  BY PickIn
<1> HIDE DEF x
<1>4. U # {} => g[U \ {x}] = h[U \ {x}]
  BY <1>1, <1>3
<1> QED BY <1>2, <1>4

(* The sum is the value of such a function, if there is one. *)
LEMMA SumIs ==
    ASSUME NEW f, NEW S, \E g : Adds(f, S, g)
    PROVE  \E g : Adds(f, S, g) /\ SumFunctionOnSet(f, S) = g[S]
<1>1. SumFunctionOnSet(f, S) = (CHOOSE g : Adds(f, S, g))[S]
  BY Zenon DEF SumFunctionOnSet, FoldFunctionOnSet, MapThenFoldSet, Adds, Pick
<1> QED BY <1>1, Zenon

(* The recursion, where the subsets have their functions ... *)
LEMMA SumStep ==
    ASSUME NEW f, NEW T, IsFiniteSet(T), \A U \in SUBSET T : \E g : Adds(f, U, g)
    PROVE  SumFunctionOnSet(f, T) =
             IF T = {} THEN 0
             ELSE f[Pick(T)] + SumFunctionOnSet(f, T \ {Pick(T)})
<1>1. PICK g : Adds(f, T, g) /\ SumFunctionOnSet(f, T) = g[T]
  BY SumIs
<1> DEFINE x == Pick(T)
<1>2. g[T] = IF T = {} THEN 0 ELSE f[x] + g[T \ {x}]
  <2>1. T \in SUBSET T
    OBVIOUS
  <2> QED BY <1>1, <2>1, AddsAt
<1>3. PICK h : Adds(f, T \ {x}, h) /\ SumFunctionOnSet(f, T \ {x}) = h[T \ {x}]
  BY SumIs
<1>4. IsFiniteSet(T \ {x}) /\ T \ {x} \subseteq T
  BY FS_Subset
<1>5. g[T \ {x}] = h[T \ {x}]
  BY <1>1, <1>3, <1>4, AddsUnique
<1> QED BY <1>1, <1>2, <1>3, <1>5

(* ... and all have: a smallest set without one could be given the sums    *)
(* over the smaller sets.                                                  *)
LEMMA AddsDefined ==
    ASSUME NEW f, NEW S, IsFiniteSet(S)
    PROVE  \E g : Adds(f, S, g)
<1> DEFINE Bad == {T \in SUBSET S : ~ \E g : Adds(f, T, g)}
<1> SUFFICES ASSUME Bad # {} PROVE FALSE
  OBVIOUS
<1>1. PICK T \in Bad : \A U \in SUBSET T : U # T => U \notin Bad
  <2>1. Bad \in SUBSET SUBSET S
    OBVIOUS
  <2> HIDE DEF Bad
  <2> QED BY <2>1, MinimalSubset
<1> DEFINE Value(s) == IF s = {} THEN 0 ELSE f[Pick(s)] + SumFunctionOnSet(f, s \ {Pick(s)})
           h == [s \in SUBSET T |-> Value(s)]
<1>2. \A U \in SUBSET T : U # T => \E g : Adds(f, U, g)
  BY <1>1
<1>3. ASSUME NEW U \in SUBSET T, U # T
      PROVE  h[U] = SumFunctionOnSet(f, U)
  <2>1. IsFiniteSet(U)
    BY FS_Subset
  <2>2. \A V \in SUBSET U : \E g : Adds(f, V, g)
    BY <1>2, <1>3
  <2>3. SumFunctionOnSet(f, U) = Value(U)
    BY <2>1, <2>2, SumStep, Zenon
  <2> QED BY <2>3, Zenon
<1>4. ASSUME NEW s \in SUBSET T
      PROVE  Value(s) = IF s = {} THEN 0 ELSE f[Pick(s)] + h[s \ {Pick(s)}]
  <2>1. CASE s = {}
    BY <2>1
  <2>2. CASE s # {}
    <3>1. Pick(s) \in s
      BY <2>2, PickIn
    <3>2. s \ {Pick(s)} \in SUBSET T /\ s \ {Pick(s)} # T
      BY <3>1
    <3> HIDE DEF h
    <3>3. h[s \ {Pick(s)}] = SumFunctionOnSet(f, s \ {Pick(s)})
      BY <1>3, <3>2
    <3> QED BY <2>2, <3>3
  <2> QED BY <2>1, <2>2
<1>5. h = [s \in SUBSET T |-> IF s = {} THEN 0 ELSE f[Pick(s)] + h[s \ {Pick(s)}]]
  <2> DEFINE k == [s \in SUBSET T |-> IF s = {} THEN 0 ELSE f[Pick(s)] + h[s \ {Pick(s)}]]
  <2>1. \A s \in SUBSET T : h[s] = k[s]
    BY <1>4, Zenon
  <2> QED BY <2>1, Zenon
<1>6. Adds(f, T, h)
  BY <1>5, Zenon DEF Adds
<1> QED BY <1>6, Zenon

(* So the sum is its first element and the sum of the rest. *)
LEMMA SumUnfolds ==
    ASSUME NEW f, NEW S, IsFiniteSet(S)
    PROVE  SumFunctionOnSet(f, S) =
             IF S = {} THEN 0
             ELSE f[Pick(S)] + SumFunctionOnSet(f, S \ {Pick(S)})
<1>1. \A U \in SUBSET S : \E g : Adds(f, U, g)
  BY AddsDefined, FS_Subset
<1> QED BY <1>1, SumStep

LEMMA SumOfNone == \A f : SumFunctionOnSet(f, {}) = 0
BY SumUnfolds, FS_EmptySet

-----------------------------------------------------------------------------
(* The arithmetic.  A sum of integers is one. *)
LEMMA SumInt ==
    ASSUME NEW S, IsFiniteSet(S), NEW f, \A x \in S : f[x] \in Int
    PROVE  SumFunctionOnSet(f, S) \in Int
<1> DEFINE Bad == {T \in SUBSET S : SumFunctionOnSet(f, T) \notin Int}
<1> SUFFICES ASSUME Bad # {} PROVE FALSE
  OBVIOUS
<1>1. PICK T \in Bad : \A U \in SUBSET T : U # T => U \notin Bad
  <2>1. Bad \in SUBSET SUBSET S
    OBVIOUS
  <2> HIDE DEF Bad
  <2> QED BY <2>1, MinimalSubset
<1> DEFINE x == Pick(T)
<1>2. IsFiniteSet(T)
  BY FS_Subset
<1>3. SumFunctionOnSet(f, T) = IF T = {} THEN 0 ELSE f[x] + SumFunctionOnSet(f, T \ {x})
  BY <1>2, SumUnfolds
<1>4. T # {} => x \in T
  BY PickIn
<1> HIDE DEF x
<1>5. T # {} => f[x] \in Int /\ SumFunctionOnSet(f, T \ {x}) \in Int
  BY <1>1, <1>4
<1> QED BY <1>3, <1>5

(* Any element can be taken first. *)
LEMMA SumTake ==
    ASSUME NEW S, IsFiniteSet(S), NEW f, \A x \in S : f[x] \in Int, NEW x \in S
    PROVE  SumFunctionOnSet(f, S) = f[x] + SumFunctionOnSet(f, S \ {x})
<1> DEFINE Takes(T, y) == SumFunctionOnSet(f, T) = f[y] + SumFunctionOnSet(f, T \ {y})
           Bad == {T \in SUBSET S : \E y \in T : ~Takes(T, y)}
<1> SUFFICES ASSUME Bad # {} PROVE FALSE
  OBVIOUS
<1>1. PICK T \in Bad : \A U \in SUBSET T : U # T => U \notin Bad
  <2>1. Bad \in SUBSET SUBSET S
    OBVIOUS
  <2> HIDE DEF Bad
  <2> QED BY <2>1, MinimalSubset
<1>2. PICK y \in T : ~Takes(T, y)
  BY <1>1
<1> DEFINE c == Pick(T)
<1>3. c \in T
  BY PickIn
<1>4. IsFiniteSet(T)
  BY FS_Subset
<1>5. Takes(T, c)
  BY <1>3, <1>4, SumUnfolds
<1> HIDE DEF c
<1>6. c # y
  BY <1>2, <1>5
<1>7. Takes(T \ {c}, y) /\ Takes(T \ {y}, c)
  BY <1>1, <1>3, <1>6
<1>8. (T \ {c}) \ {y} = (T \ {y}) \ {c}
  OBVIOUS
<1>9. /\ SumFunctionOnSet(f, (T \ {y}) \ {c}) \in Int
      /\ f[c] \in Int /\ f[y] \in Int
  BY <1>3, FS_Subset, SumInt
<1> DEFINE r == SumFunctionOnSet(f, (T \ {y}) \ {c})
           rc == SumFunctionOnSet(f, T \ {c})
           ry == SumFunctionOnSet(f, T \ {y})
           rt == SumFunctionOnSet(f, T)
<1>10. rt = f[c] + rc /\ rc = f[y] + r /\ ry = f[c] + r
  BY <1>5, <1>7, <1>8, Zenon
<1>11. rt # f[y] + ry
  BY <1>2
<1>12. r \in Int
  BY <1>9
<1> HIDE DEF r, rc, ry, rt
<1> QED BY <1>9, <1>10, <1>11, <1>12

(* An element can be added. *)
LEMMA SumAdd ==
    ASSUME NEW S, IsFiniteSet(S), NEW f, NEW x, x \notin S, \A y \in S \cup {x} : f[y] \in Int
    PROVE  SumFunctionOnSet(f, S \cup {x}) = f[x] + SumFunctionOnSet(f, S)
<1>1. IsFiniteSet(S \cup {x}) /\ (S \cup {x}) \ {x} = S
  BY FS_AddElement
<1> QED BY <1>1, SumTake

(* A sum of natural numbers is one. *)
LEMMA SumNat ==
    ASSUME NEW S, IsFiniteSet(S), NEW f, \A x \in S : f[x] \in Nat
    PROVE  SumFunctionOnSet(f, S) \in Nat
<1> DEFINE Good == {T \in SUBSET S : SumFunctionOnSet(f, T) \in Nat}
<1>1. {} \in Good
  BY SumOfNone
<1>2. ASSUME NEW T \in SUBSET S, NEW x \in S, T \in Good, x \notin T
      PROVE  T \cup {x} \in Good
  <2>1. IsFiniteSet(T) /\ \A y \in T \cup {x} : f[y] \in Int
    BY FS_Subset
  <2>2. SumFunctionOnSet(f, T \cup {x}) = f[x] + SumFunctionOnSet(f, T)
    BY <1>2, <2>1, SumAdd
  <2> QED BY <1>2, <2>2
<1> HIDE DEF Good
<1>3. S \in Good
  BY <1>1, <1>2, SetInduction
<1> QED BY <1>3 DEF Good

(* No smaller terms, no smaller sum. *)
LEMMA SumMonotone ==
    ASSUME NEW S, IsFiniteSet(S), NEW f, NEW g,
           \A x \in S : f[x] \in Int /\ g[x] \in Int /\ f[x] <= g[x]
    PROVE  SumFunctionOnSet(f, S) <= SumFunctionOnSet(g, S)
<1> DEFINE Good == {T \in SUBSET S : SumFunctionOnSet(f, T) <= SumFunctionOnSet(g, T)}
<1>1. {} \in Good
  BY SumOfNone
<1>2. ASSUME NEW T \in SUBSET S, NEW x \in S, T \in Good, x \notin T
      PROVE  T \cup {x} \in Good
  <2>1. /\ IsFiniteSet(T)
        /\ \A y \in T \cup {x} : f[y] \in Int
        /\ \A y \in T \cup {x} : g[y] \in Int
    BY FS_Subset
  <2>2. /\ SumFunctionOnSet(f, T \cup {x}) = f[x] + SumFunctionOnSet(f, T)
        /\ SumFunctionOnSet(g, T \cup {x}) = g[x] + SumFunctionOnSet(g, T)
    BY <1>2, <2>1, SumAdd
  <2>3. SumFunctionOnSet(f, T) \in Int /\ SumFunctionOnSet(g, T) \in Int
    BY <2>1, SumInt
  <2> QED BY <1>2, <2>2, <2>3
<1> HIDE DEF Good
<1>3. S \in Good
  BY <1>1, <1>2, SetInduction
<1> QED BY <1>3 DEF Good

(* Only the terms count. *)
LEMMA SumSame ==
    ASSUME NEW S, IsFiniteSet(S), NEW f, NEW g, \A x \in S : f[x] \in Int /\ f[x] = g[x]
    PROVE  SumFunctionOnSet(f, S) = SumFunctionOnSet(g, S)
<1>1. SumFunctionOnSet(f, S) <= SumFunctionOnSet(g, S)
  BY SumMonotone
<1>2. SumFunctionOnSet(g, S) <= SumFunctionOnSet(f, S)
  BY SumMonotone
<1>3. SumFunctionOnSet(f, S) \in Int /\ SumFunctionOnSet(g, S) \in Int
  BY SumInt
<1> QED BY <1>1, <1>2, <1>3

(* The sum moves as the one term that does. *)
LEMMA SumOneMoves ==
    ASSUME NEW S, IsFiniteSet(S), NEW f, NEW g, NEW x \in S,
           \A y \in S : f[y] \in Int /\ g[y] \in Int,
           \A y \in S \ {x} : f[y] = g[y]
    PROVE  SumFunctionOnSet(g, S) = SumFunctionOnSet(f, S) + (g[x] - f[x])
<1>1. IsFiniteSet(S \ {x})
  BY FS_Subset
<1>2. SumFunctionOnSet(f, S \ {x}) = SumFunctionOnSet(g, S \ {x})
  BY <1>1, SumSame
<1>3. /\ SumFunctionOnSet(f, S) = f[x] + SumFunctionOnSet(f, S \ {x})
      /\ SumFunctionOnSet(g, S) = g[x] + SumFunctionOnSet(g, S \ {x})
  BY SumTake
<1>4. SumFunctionOnSet(f, S \ {x}) \in Int
  BY <1>1, SumInt
<1> QED BY <1>2, <1>3, <1>4

(* A sum over fewer indices is no greater. *)
LEMMA SumOfSubset ==
    ASSUME NEW S, IsFiniteSet(S), NEW f, \A x \in S : f[x] \in Nat, NEW P \in SUBSET S
    PROVE  SumFunctionOnSet(f, P) <= SumFunctionOnSet(f, S)
<1> DEFINE Good == {T \in SUBSET S : SumFunctionOnSet(f, T \cap P) <= SumFunctionOnSet(f, T)}
<1>1. {} \in Good
  BY SumOfNone
<1>2. ASSUME NEW T \in SUBSET S, NEW x \in S, T \in Good, x \notin T
      PROVE  T \cup {x} \in Good
  <2>1. /\ IsFiniteSet(T) /\ IsFiniteSet(T \cap P)
        /\ \A y \in T \cup {x} : f[y] \in Int
        /\ \A y \in (T \cap P) \cup {x} : f[y] \in Int
    BY FS_Subset
  <2>2. SumFunctionOnSet(f, T \cup {x}) = f[x] + SumFunctionOnSet(f, T)
    BY <1>2, <2>1, SumAdd
  <2>3. SumFunctionOnSet(f, T) \in Int /\ SumFunctionOnSet(f, T \cap P) \in Int
    BY <2>1, SumInt
  <2> DEFINE before == SumFunctionOnSet(f, T \cap P)
             all    == SumFunctionOnSet(f, T)
             after  == SumFunctionOnSet(f, (T \cup {x}) \cap P)
  <2>4. before <= all
    BY <1>2
  <2>5. after = before \/ after = f[x] + before
    <3>1. CASE x \notin P
      <4>1. (T \cup {x}) \cap P = T \cap P
        BY <3>1
      <4> QED BY <4>1
    <3>2. CASE x \in P
      <4>1. (T \cup {x}) \cap P = (T \cap P) \cup {x} /\ x \notin T \cap P
        BY <1>2, <3>2
      <4> QED BY <2>1, <4>1, SumAdd
    <3> QED BY <3>1, <3>2
  <2>6. f[x] \in Nat /\ before \in Int /\ all \in Int
    BY <2>3
  <2> HIDE DEF before, all, after
  <2>7. after <= f[x] + all
    BY <2>4, <2>5, <2>6
  <2> QED BY <2>2, <2>7 DEF all, after
<1> HIDE DEF Good
<1>3. S \in Good
  BY <1>1, <1>2, SetInduction
<1>4. SumFunctionOnSet(f, S \cap P) <= SumFunctionOnSet(f, S) /\ S \cap P = P
  BY <1>3 DEF Good
<1> QED BY <1>4

(* The sum of equal terms is a product. *)
LEMMA SumOfEqual ==
    ASSUME NEW S, IsFiniteSet(S), NEW c \in Int, NEW f, \A x \in S : f[x] = c
    PROVE  SumFunctionOnSet(f, S) = Cardinality(S) * c
<1> DEFINE Good == {T \in SUBSET S : SumFunctionOnSet(f, T) = Cardinality(T) * c}
<1>1. {} \in Good
  BY SumOfNone, FS_EmptySet
<1>2. ASSUME NEW T \in SUBSET S, NEW x \in S, T \in Good, x \notin T
      PROVE  T \cup {x} \in Good
  <2>1. IsFiniteSet(T) /\ \A y \in T \cup {x} : f[y] \in Int
    BY FS_Subset
  <2>2. SumFunctionOnSet(f, T \cup {x}) = c + SumFunctionOnSet(f, T)
    BY <1>2, <2>1, SumAdd
  <2>3. Cardinality(T \cup {x}) = Cardinality(T) + 1 /\ Cardinality(T) \in Nat
    BY <1>2, <2>1, FS_AddElement, FS_CardinalityType
  <2>4. (Cardinality(T) + 1) * c = Cardinality(T) * c + c
    BY <2>3
  <2>5. Cardinality(T) * c \in Int
    BY <2>3
  <2> QED BY <1>2, <2>2, <2>3, <2>4, <2>5
<1> HIDE DEF Good
<1>3. S \in Good
  BY <1>1, <1>2, SetInduction
<1> QED BY <1>3 DEF Good

(* A finite set of numbers has a last one. *)
LEMMA LastNumber ==
    ASSUME NEW S \in SUBSET Nat, IsFiniteSet(S), S # {}
    PROVE  \E last \in S : \A n \in S : n <= last
<1> DEFINE Good == {T \in SUBSET S : T # {} => \E last \in T : \A n \in T : n <= last}
<1>1. {} \in Good
  OBVIOUS
<1>2. ASSUME NEW T \in SUBSET S, NEW x \in S, T \in Good, x \notin T
      PROVE  T \cup {x} \in Good
  <2>1. CASE T = {}
    BY <2>1
  <2>2. CASE T # {}
    <3>1. PICK last \in T : \A n \in T : n <= last
      BY <1>2, <2>2
    <3>2. CASE x <= last
      BY <3>1, <3>2
    <3>3. CASE ~(x <= last)
      BY <3>1, <3>3
    <3> QED BY <3>2, <3>3
  <2> QED BY <2>1, <2>2
<1> HIDE DEF Good
<1>3. S \in Good
  BY <1>1, <1>2, SetInduction
<1> QED BY <1>3 DEF Good
=============================================================================
