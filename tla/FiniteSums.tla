----------------------------- MODULE FiniteSums -----------------------------
(***************************************************************************)
(* Lemmas about SumFunctionOnSet over finite sets, which the proofs about  *)
(* the byte account of TraceStore need, and the induction they rest on.    *)
(* An induction is stated with a set instead of a predicate: instantiating *)
(* a set is first-order.                                                   *)
(***************************************************************************)
EXTENDS Integers, Functions, FiniteSetTheorems, WellFoundedInduction, TLAPS

NatLess == { p \in Nat \X Nat : p[1] < p[2] }

\* A set of naturals that is not empty has a least element.
LEMMA LeastNat ==
  ASSUME NEW T, T \subseteq Nat, T # {}
  PROVE  \E x \in T : \A y \in T : x <= y
  <1>1. IsWellFoundedOn(NatLess, Nat)
    <2>1. OpToRel(<, Nat) = NatLess
      BY DEF OpToRel, NatLess
    <2> QED
      BY <2>1, NatLessThanWellFounded
  <1>2. PICK x \in T : \A y \in T : <<y, x>> \notin NatLess
    BY <1>1, WFMin
  <1>3. ASSUME NEW y \in T PROVE x <= y
    <2>1. <<y, x>> \in Nat \X Nat
      OBVIOUS
    <2>2. ~ (<<y, x>>[1] < <<y, x>>[2])
      BY <1>2, <2>1 DEF NatLess
    <2> QED
      BY <2>2
  <1> QED
    BY <1>3

\* Induction over the naturals.
LEMMA NatInSet ==
  ASSUME NEW P, 0 \in P, \A n \in Nat : n \in P => n + 1 \in P
  PROVE  Nat \subseteq P
  <1> SUFFICES ASSUME ~ (Nat \subseteq P) PROVE FALSE
    OBVIOUS
  <1>1. PICK x \in Nat \ P : \A y \in Nat \ P : x <= y
    BY LeastNat
  <1>2. x - 1 \in Nat
    OBVIOUS
  <1>3. x - 1 \in P
    BY <1>1, <1>2
  <1> QED
    BY <1>2, <1>3

\* Induction over the subsets of a finite set.
LEMMA SubsetsInSet ==
  ASSUME NEW S, IsFiniteSet(S), NEW P, {} \in P,
         \A T \in SUBSET S, x \in S : (x \notin T /\ T \in P) => T \cup {x} \in P
  PROVE  SUBSET S \subseteq P
  <1> DEFINE Q == { n \in Nat : \A T \in SUBSET S : Cardinality(T) = n => T \in P }
  <1>1. 0 \in Q
    BY FS_EmptySet, FS_Subset
  <1>2. ASSUME NEW n \in Nat, n \in Q PROVE n + 1 \in Q
    <2> SUFFICES ASSUME NEW T \in SUBSET S, Cardinality(T) = n + 1 PROVE T \in P
      OBVIOUS
    <2>1. IsFiniteSet(T)
      BY FS_Subset
    <2>2. PICK x : x \in T
      BY <2>1, FS_EmptySet
    <2>3. Cardinality(T \ {x}) = n
      <3>1. Cardinality(T \ {x}) = Cardinality(T) - 1
        BY <2>1, <2>2, FS_RemoveElement
      <3> QED
        BY <3>1
    <2>4. T \ {x} \in P
      BY <1>2, <2>3
    <2> QED
      BY <2>2, <2>4
  <1> HIDE DEF Q
  <1>3. Nat \subseteq Q
    BY <1>1, <1>2, NatInSet
  <1> QED
    <2> SUFFICES ASSUME NEW T \in SUBSET S PROVE T \in P
      OBVIOUS
    <2>1. Cardinality(T) \in Nat
      BY FS_Subset, FS_CardinalityType
    <2> QED
      BY <1>3, <2>1 DEF Q

-----------------------------------------------------------------------------
\* The element SumFunctionOnSet takes off a set first, and the function on
\* the subsets of S by which it is defined.
First(s) == CHOOSE x \in s : TRUE
Unfold(f, dom, iter) ==
  [s \in dom |-> IF s = {} THEN 0 ELSE f[First(s)] + iter[s \ {First(s)}]]
Iter(f, S) == CHOOSE iter : iter = Unfold(f, SUBSET S, iter)
Small(S, n) == { s \in SUBSET S : Cardinality(s) <= n }

LEMMA SumIsIter ==
  ASSUME NEW f, NEW S
  PROVE  SumFunctionOnSet(f, S) = Iter(f, S)[S]
  BY DEF SumFunctionOnSet, FoldFunctionOnSet, MapThenFoldSet, Iter, Unfold, First

\* What remains of a set without its first element is smaller.
LEMMA SmallRest ==
  ASSUME NEW S, IsFiniteSet(S), NEW s \in SUBSET S, s # {}
  PROVE  /\ First(s) \in s
         /\ Cardinality(s) \in Nat
         /\ Cardinality(s \ {First(s)}) = Cardinality(s) - 1
  <1>1. First(s) \in s
    BY DEF First
  <1> QED
    BY <1>1, FS_Subset, FS_RemoveElement, FS_CardinalityType

\* The function exists when the sets are finite.
LEMMA IterExists ==
  ASSUME NEW f, NEW S, IsFiniteSet(S)
  PROVE  Iter(f, S) = Unfold(f, SUBSET S, Iter(f, S))
  <1> DEFINE P == { n \in Nat : \E g : g = Unfold(f, Small(S, n), g) }
  <1>1. 0 \in P
    <2>1. ASSUME NEW s \in Small(S, 0) PROVE s = {}
      BY FS_Subset, FS_EmptySet, FS_CardinalityType DEF Small
    <2>2. [s \in Small(S, 0) |-> 0]
            = Unfold(f, Small(S, 0), [s \in Small(S, 0) |-> 0])
      BY <2>1 DEF Unfold
    <2> QED
      BY <2>2
  <1>2. ASSUME NEW n \in Nat, n \in P PROVE n + 1 \in P
    <2>1. PICK g : g = Unfold(f, Small(S, n), g)
      BY <1>2
    <2> DEFINE h == Unfold(f, Small(S, n + 1), g)
    <2>2. ASSUME NEW s \in Small(S, n) PROVE h[s] = g[s]
      <3>1. s \in Small(S, n + 1)
        BY FS_Subset, FS_CardinalityType DEF Small
      <3>2. h[s] = IF s = {} THEN 0 ELSE f[First(s)] + g[s \ {First(s)}]
        BY <3>1 DEF Unfold
      <3>3. Unfold(f, Small(S, n), g)[s]
              = IF s = {} THEN 0 ELSE f[First(s)] + g[s \ {First(s)}]
        BY DEF Unfold
      <3> QED
        BY <2>1, <3>2, <3>3
    <2>3. ASSUME NEW s \in Small(S, n + 1), s # {}
          PROVE  h[s \ {First(s)}] = g[s \ {First(s)}]
      <3>1. s \ {First(s)} \in Small(S, n)
        BY <2>3, SmallRest DEF Small
      <3> QED
        BY <2>2, <3>1
    <2>4. h = Unfold(f, Small(S, n + 1), h)
      <3> HIDE DEF h
      <3>1. ASSUME NEW s \in Small(S, n + 1)
            PROVE  (IF s = {} THEN 0 ELSE f[First(s)] + g[s \ {First(s)}])
                     = (IF s = {} THEN 0 ELSE f[First(s)] + h[s \ {First(s)}])
        BY <2>3
      <3> QED
        BY <3>1 DEF Unfold, h
    <2> QED
      BY <2>4
  <1> HIDE DEF P
  <1>3. Cardinality(S) \in P
    BY <1>1, <1>2, NatInSet, FS_CardinalityType
  <1>4. Small(S, Cardinality(S)) = SUBSET S
    BY FS_Subset DEF Small
  <1> QED
    BY <1>3, <1>4 DEF P, Iter

\* It does not depend on the set it is defined on.
LEMMA IterAgrees ==
  ASSUME NEW f, NEW S, IsFiniteSet(S), NEW T \in SUBSET S
  PROVE  \A s \in SUBSET T : Iter(f, T)[s] = Iter(f, S)[s]
  <1> DEFINE P == { n \in Nat : \A s \in Small(T, n) : Iter(f, T)[s] = Iter(f, S)[s] }
  <1>1. IsFiniteSet(T)
    BY FS_Subset
  <1>2. ASSUME NEW s \in SUBSET T
        PROVE  /\ Iter(f, T)[s] = IF s = {} THEN 0
                                  ELSE f[First(s)] + Iter(f, T)[s \ {First(s)}]
               /\ Iter(f, S)[s] = IF s = {} THEN 0
                                  ELSE f[First(s)] + Iter(f, S)[s \ {First(s)}]
    <2> DEFINE a == Iter(f, T)  b == Iter(f, S)
    <2>1. a = Unfold(f, SUBSET T, a) /\ b = Unfold(f, SUBSET S, b)
      BY <1>1, IterExists
    <2>2. s \in SUBSET S
      OBVIOUS
    <2> HIDE DEF a, b
    <2>3. /\ Unfold(f, SUBSET T, a)[s]
               = IF s = {} THEN 0 ELSE f[First(s)] + a[s \ {First(s)}]
          /\ Unfold(f, SUBSET S, b)[s]
               = IF s = {} THEN 0 ELSE f[First(s)] + b[s \ {First(s)}]
      BY <2>2 DEF Unfold
    <2>4. /\ a[s] = IF s = {} THEN 0 ELSE f[First(s)] + a[s \ {First(s)}]
          /\ b[s] = IF s = {} THEN 0 ELSE f[First(s)] + b[s \ {First(s)}]
      BY <2>1, <2>3
    <2> QED
      BY <2>4 DEF a, b
  <1>3. 0 \in P
    <2>1. ASSUME NEW s \in Small(T, 0) PROVE s = {} /\ s \in SUBSET T
      BY <1>1, FS_Subset, FS_EmptySet, FS_CardinalityType DEF Small
    <2> QED
      BY <1>2, <2>1
  <1>4. ASSUME NEW n \in Nat, n \in P PROVE n + 1 \in P
    <2> SUFFICES ASSUME NEW s \in Small(T, n + 1) PROVE Iter(f, T)[s] = Iter(f, S)[s]
      OBVIOUS
    <2>1. s \in SUBSET T
      BY DEF Small
    <2>2. CASE s = {}
      BY <1>2, <2>1, <2>2
    <2>3. CASE s # {}
      <3>1. s \ {First(s)} \in Small(T, n)
        BY <1>1, <2>1, <2>3, SmallRest DEF Small
      <3>2. Iter(f, T)[s \ {First(s)}] = Iter(f, S)[s \ {First(s)}]
        BY <1>4, <3>1
      <3> QED
        BY <1>2, <2>1, <3>2
    <2> QED
      BY <2>2, <2>3
  <1> HIDE DEF P
  <1>5. Nat \subseteq P
    BY <1>3, <1>4, NatInSet
  <1> QED
    <2> SUFFICES ASSUME NEW s \in SUBSET T PROVE Iter(f, T)[s] = Iter(f, S)[s]
      OBVIOUS
    <2>1. Cardinality(s) \in Nat
      BY <1>1, FS_Subset, FS_CardinalityType
    <2>2. s \in Small(T, Cardinality(s))
      BY <2>1 DEF Small
    <2> QED
      BY <1>5, <2>1, <2>2 DEF P

-----------------------------------------------------------------------------
\* The equations of SumFunctionOnSet.
LEMMA SumFirst ==
  ASSUME NEW f, NEW S, IsFiniteSet(S)
  PROVE  SumFunctionOnSet(f, S)
           = IF S = {} THEN 0 ELSE f[First(S)] + SumFunctionOnSet(f, S \ {First(S)})
  <1> DEFINE i == Iter(f, S)
  <1>1. i = Unfold(f, SUBSET S, i)
    BY IterExists
  <1> HIDE DEF i
  <1>2. Unfold(f, SUBSET S, i)[S] = IF S = {} THEN 0 ELSE f[First(S)] + i[S \ {First(S)}]
    BY DEF Unfold
  <1>3. i[S] = IF S = {} THEN 0 ELSE f[First(S)] + i[S \ {First(S)}]
    BY <1>1, <1>2
  <1>4. i[S \ {First(S)}] = SumFunctionOnSet(f, S \ {First(S)})
    BY SumIsIter, IterAgrees DEF i
  <1>5. i[S] = SumFunctionOnSet(f, S)
    BY SumIsIter DEF i
  <1> QED
    BY <1>3, <1>4, <1>5

LEMMA SumEmpty ==
  ASSUME NEW f
  PROVE  SumFunctionOnSet(f, {}) = 0
  BY SumFirst, FS_EmptySet

\* A sum of naturals is a natural.
LEMMA SumNat ==
  ASSUME NEW S, IsFiniteSet(S), NEW f, \A x \in S : f[x] \in Nat
  PROVE  SumFunctionOnSet(f, S) \in Nat
  <1> DEFINE P == { n \in Nat : \A T \in Small(S, n) : SumFunctionOnSet(f, T) \in Nat }
  <1>1. 0 \in P
    <2>1. ASSUME NEW T \in Small(S, 0) PROVE T = {}
      BY FS_Subset, FS_EmptySet, FS_CardinalityType DEF Small
    <2>2. \A T \in Small(S, 0) : SumFunctionOnSet(f, T) = 0
      BY <2>1, SumEmpty
    <2> QED
      BY <2>2
  <1>2. ASSUME NEW n \in Nat, n \in P PROVE n + 1 \in P
    <2> SUFFICES ASSUME NEW T \in Small(S, n + 1) PROVE SumFunctionOnSet(f, T) \in Nat
      OBVIOUS
    <2>1. CASE T = {}
      BY <2>1, SumEmpty
    <2>2. CASE T # {}
      <3>1. T \in SUBSET S /\ IsFiniteSet(T)
        BY FS_Subset DEF Small
      <3>2. First(T) \in T /\ T \ {First(T)} \in Small(S, n)
        BY <2>2, <3>1, SmallRest DEF Small
      <3>3. SumFunctionOnSet(f, T) = f[First(T)] + SumFunctionOnSet(f, T \ {First(T)})
        BY <2>2, <3>1, SumFirst
      <3>4. SumFunctionOnSet(f, T \ {First(T)}) \in Nat
        BY <1>2, <3>2
      <3>5. f[First(T)] \in Nat
        BY <3>1, <3>2
      <3> QED
        BY <3>3, <3>4, <3>5
    <2> QED
      BY <2>1, <2>2
  <1> HIDE DEF P
  <1>3. Cardinality(S) \in P /\ Cardinality(S) \in Nat
    BY <1>1, <1>2, NatInSet, FS_CardinalityType
  <1>4. S \in Small(S, Cardinality(S))
    BY <1>3 DEF Small
  <1> QED
    BY <1>3, <1>4 DEF P

\* Any element may be taken off first.
LEMMA SumRemove ==
  ASSUME NEW S, IsFiniteSet(S), NEW f, \A x \in S : f[x] \in Nat, NEW e \in S
  PROVE  SumFunctionOnSet(f, S) = f[e] + SumFunctionOnSet(f, S \ {e})
  <1> DEFINE Sum(T) == SumFunctionOnSet(f, T)
             P == { n \in Nat : \A T \in Small(S, n), x \in S :
                                  x \in T => Sum(T) = f[x] + Sum(T \ {x}) }
  <1>1. 0 \in P
    BY FS_Subset, FS_EmptySet, FS_CardinalityType DEF Small
  <1>2. ASSUME NEW n \in Nat, n \in P PROVE n + 1 \in P
    <2> SUFFICES ASSUME NEW T \in Small(S, n + 1), NEW x \in S, x \in T
                 PROVE  Sum(T) = f[x] + Sum(T \ {x})
      OBVIOUS
    <2> DEFINE y == First(T)  rest == T \ {x, y}
    <2>1. T \in SUBSET S /\ IsFiniteSet(T)
      BY FS_Subset DEF Small
    <2>2. y \in T /\ T \ {y} \in Small(S, n)
      BY <2>1, SmallRest DEF Small
    <2>3. Sum(T) = f[y] + Sum(T \ {y})
      BY <2>1, SumFirst
    <2>4. CASE x = y
      BY <2>3, <2>4
    <2>5. CASE x # y
      <3>1. T \ {x} \in Small(S, n)
        <4>1. Cardinality(T \ {x}) = Cardinality(T) - 1 /\ Cardinality(T) \in Nat
          BY <2>1, FS_RemoveElement, FS_CardinalityType
        <4>2. Cardinality(T) <= n + 1
          BY DEF Small
        <4> QED
          BY <2>1, <4>1, <4>2 DEF Small
      <3>2. y \in T \ {x} /\ x \in T \ {y} /\ y \in S
        BY <2>1, <2>2, <2>5
      <3> HIDE DEF y
      <3>3. Sum(T \ {y}) = f[x] + Sum((T \ {y}) \ {x})
        BY <1>2, <2>2, <3>2
      <3>4. Sum(T \ {x}) = f[y] + Sum((T \ {x}) \ {y})
        BY <1>2, <3>1, <3>2
      <3>5. (T \ {y}) \ {x} = rest /\ (T \ {x}) \ {y} = rest
        OBVIOUS
      <3>6. IsFiniteSet(rest) /\ rest \subseteq S
        BY <2>1, FS_Subset
      <3>7. Sum(rest) \in Nat
        BY <3>6, SumNat
      <3>8. f[x] \in Nat /\ f[y] \in Nat
        BY <3>2
      <3>9. Sum(T \ {y}) = f[x] + Sum(rest) /\ Sum(T \ {x}) = f[y] + Sum(rest)
        BY <3>3, <3>4, <3>5
      <3> HIDE DEF Sum, rest
      <3> QED
        BY <2>3, <3>7, <3>8, <3>9
    <2> QED
      BY <2>4, <2>5
  <1> HIDE DEF P
  <1>3. Cardinality(S) \in P /\ Cardinality(S) \in Nat
    BY <1>1, <1>2, NatInSet, FS_CardinalityType
  <1>4. S \in Small(S, Cardinality(S))
    BY <1>3 DEF Small
  <1> QED
    BY <1>3, <1>4 DEF P

\* What an element adds.
LEMMA SumInsert ==
  ASSUME NEW S, IsFiniteSet(S), NEW f, NEW e, e \notin S,
         \A x \in S \cup {e} : f[x] \in Nat
  PROVE  SumFunctionOnSet(f, S \cup {e}) = f[e] + SumFunctionOnSet(f, S)
  <1>1. IsFiniteSet(S \cup {e})
    BY FS_AddElement
  <1>2. (S \cup {e}) \ {e} = S
    OBVIOUS
  <1> QED
    BY <1>1, <1>2, SumRemove

\* Functions that agree on a set have the same sum over it.
LEMMA SumEqual ==
  ASSUME NEW S, IsFiniteSet(S), NEW f, NEW g,
         \A x \in S : f[x] \in Nat /\ f[x] = g[x]
  PROVE  SumFunctionOnSet(f, S) = SumFunctionOnSet(g, S)
  <1> DEFINE P == { T \in SUBSET S : SumFunctionOnSet(f, T) = SumFunctionOnSet(g, T) }
  <1>1. {} \in P
    BY SumEmpty
  <1>2. ASSUME NEW T \in SUBSET S, NEW x \in S, x \notin T, T \in P
        PROVE  T \cup {x} \in P
    <2>1. IsFiniteSet(T)
      BY FS_Subset
    <2>2. SumFunctionOnSet(f, T \cup {x}) = f[x] + SumFunctionOnSet(f, T)
      BY <1>2, <2>1, SumInsert
    <2>3. SumFunctionOnSet(g, T \cup {x}) = g[x] + SumFunctionOnSet(g, T)
      BY <1>2, <2>1, SumInsert
    <2> QED
      BY <1>2, <2>2, <2>3
  <1> HIDE DEF P
  <1>3. SUBSET S \subseteq P
    BY <1>1, <1>2, SubsetsInSet
  <1> QED
    BY <1>3 DEF P

\* The sum over disjoint sets.
LEMMA SumUnion ==
  ASSUME NEW S, IsFiniteSet(S), NEW R, IsFiniteSet(R), R \cap S = {}, NEW f,
         \A x \in R \cup S : f[x] \in Nat
  PROVE  SumFunctionOnSet(f, R \cup S) = SumFunctionOnSet(f, R) + SumFunctionOnSet(f, S)
  <1> DEFINE Sum(T) == SumFunctionOnSet(f, T)
             P == { T \in SUBSET S : Sum(R \cup T) = Sum(R) + Sum(T) }
  <1>1. Sum(R) \in Nat /\ \A T \in SUBSET S : Sum(T) \in Nat
    BY SumNat, FS_Subset
  <1>2. {} \in P
    <2>1. R \cup {} = R
      OBVIOUS
    <2>2. Sum({}) = 0
      BY SumEmpty
    <2> HIDE DEF Sum
    <2> QED
      BY <1>1, <2>1, <2>2
  <1>3. ASSUME NEW T \in SUBSET S, NEW x \in S, x \notin T, T \in P
        PROVE  T \cup {x} \in P
    <2>1. IsFiniteSet(T) /\ IsFiniteSet(R \cup T)
      BY FS_Subset, FS_Union
    <2>2. Sum(T \cup {x}) = f[x] + Sum(T)
      BY <1>3, <2>1, SumInsert
    <2>3. Sum((R \cup T) \cup {x}) = f[x] + Sum(R \cup T)
      <3>1. x \notin R \cup T
        BY <1>3
      <3> QED
        BY <2>1, <3>1, SumInsert
    <2>4. (R \cup T) \cup {x} = R \cup (T \cup {x})
      OBVIOUS
    <2>5. f[x] \in Nat
      OBVIOUS
    <2> HIDE DEF Sum
    <2>6. Sum(R \cup T) = Sum(R) + Sum(T)
      BY <1>3
    <2>7. Sum(R) \in Nat /\ Sum(T) \in Nat
      BY <1>1
    <2>8. Sum(R \cup (T \cup {x})) = f[x] + (Sum(R) + Sum(T))
      BY <2>3, <2>4, <2>6
    <2>9. Sum(R \cup (T \cup {x})) = Sum(R) + Sum(T \cup {x})
      BY <2>2, <2>5, <2>7, <2>8
    <2> QED
      BY <2>9
  <1> HIDE DEF P
  <1>4. SUBSET S \subseteq P
    BY <1>2, <1>3, SubsetsInSet
  <1> QED
    BY <1>4 DEF P

\* The sum of two functions added point by point.
LEMMA SumPlus ==
  ASSUME NEW S, IsFiniteSet(S), NEW f, NEW g, NEW h,
         \A x \in S : f[x] \in Nat /\ g[x] \in Nat /\ h[x] = f[x] + g[x]
  PROVE  SumFunctionOnSet(h, S) = SumFunctionOnSet(f, S) + SumFunctionOnSet(g, S)
  <1> DEFINE Sum(k, T) == SumFunctionOnSet(k, T)
             P == { T \in SUBSET S : Sum(h, T) = Sum(f, T) + Sum(g, T) }
  <1>1. \A T \in SUBSET S : Sum(f, T) \in Nat /\ Sum(g, T) \in Nat
    BY SumNat, FS_Subset
  <1>2. {} \in P
    BY SumEmpty
  <1>3. ASSUME NEW T \in SUBSET S, NEW x \in S, x \notin T, T \in P
        PROVE  T \cup {x} \in P
    <2>1. IsFiniteSet(T)
      BY FS_Subset
    <2>2. /\ Sum(f, T \cup {x}) = f[x] + Sum(f, T)
          /\ Sum(g, T \cup {x}) = g[x] + Sum(g, T)
      BY <1>3, <2>1, SumInsert
    <2>3. Sum(h, T \cup {x}) = h[x] + Sum(h, T)
      <3>1. \A y \in T \cup {x} : h[y] \in Nat
        OBVIOUS
      <3> QED
        BY <1>3, <2>1, <3>1, SumInsert
    <2>4. f[x] \in Nat /\ g[x] \in Nat /\ h[x] = f[x] + g[x]
      OBVIOUS
    <2> HIDE DEF Sum
    <2>5. Sum(h, T) = Sum(f, T) + Sum(g, T)
      BY <1>3
    <2> QED
      BY <1>1, <2>2, <2>3, <2>4, <2>5
  <1> HIDE DEF P
  <1>4. SUBSET S \subseteq P
    BY <1>2, <1>3, SubsetsInSet
  <1> QED
    BY <1>4 DEF P

\* The sum of a function on R to which add was added on I.
LEMMA SumMerged ==
  ASSUME NEW R, IsFiniteSet(R), NEW I, IsFiniteSet(I), NEW old, NEW add, NEW new,
         \A x \in R : old[x] \in Nat,
         \A x \in I : add[x] \in Nat,
         \A x \in R \ I : new[x] = old[x],
         \A x \in I \ R : new[x] = add[x],
         \A x \in R \cap I : new[x] = old[x] + add[x]
  PROVE  SumFunctionOnSet(new, R \cup I)
           = SumFunctionOnSet(old, R) + SumFunctionOnSet(add, I)
  <1> DEFINE Sum(k, T) == SumFunctionOnSet(k, T)
  <1>1. /\ IsFiniteSet(R \ I) /\ IsFiniteSet(I \ R) /\ IsFiniteSet(R \cap I)
        /\ R \ I \subseteq R /\ I \ R \subseteq I
    BY FS_Subset
  <1>2. R = (R \ I) \cup (R \cap I) /\ I = (I \ R) \cup (R \cap I)
        /\ R \cup I = (R \ I) \cup I
    OBVIOUS
  <1>3. \A x \in R \cup I : new[x] \in Nat
    OBVIOUS
  <1>4. Sum(old, R) = Sum(old, R \ I) + Sum(old, R \cap I)
    <2>1. Sum(old, (R \ I) \cup (R \cap I)) = Sum(old, R \ I) + Sum(old, R \cap I)
      BY <1>1, SumUnion
    <2> QED
      BY <1>2, <2>1
  <1>5. Sum(add, I) = Sum(add, I \ R) + Sum(add, R \cap I)
    <2>1. Sum(add, (I \ R) \cup (R \cap I)) = Sum(add, I \ R) + Sum(add, R \cap I)
      BY <1>1, SumUnion
    <2> QED
      BY <1>2, <2>1
  <1>6. Sum(new, R \cup I) = Sum(new, R \ I) + Sum(new, I)
    <2>1. Sum(new, (R \ I) \cup I) = Sum(new, R \ I) + Sum(new, I)
      BY <1>1, <1>3, SumUnion
    <2> QED
      BY <1>2, <2>1
  <1>7. Sum(new, I) = Sum(new, I \ R) + Sum(new, R \cap I)
    <2>1. Sum(new, (I \ R) \cup (R \cap I)) = Sum(new, I \ R) + Sum(new, R \cap I)
      BY <1>1, <1>3, SumUnion
    <2> QED
      BY <1>2, <2>1
  <1>8. Sum(new, R \ I) = Sum(old, R \ I)
    BY <1>1, <1>3, SumEqual
  <1>9. Sum(new, I \ R) = Sum(add, I \ R)
    BY <1>1, <1>3, SumEqual
  <1>10. Sum(new, R \cap I) = Sum(old, R \cap I) + Sum(add, R \cap I)
    BY <1>1, SumPlus
  <1>11. /\ Sum(old, R \ I) \in Nat /\ Sum(old, R \cap I) \in Nat
         /\ Sum(add, I \ R) \in Nat /\ Sum(add, R \cap I) \in Nat
    BY <1>1, SumNat
  <1> HIDE DEF Sum
  <1>12. Sum(new, R \cup I) = Sum(old, R) + Sum(add, I)
    BY <1>4, <1>5, <1>6, <1>7, <1>8, <1>9, <1>10, <1>11
  <1> QED
    BY <1>12 DEF Sum
=============================================================================
