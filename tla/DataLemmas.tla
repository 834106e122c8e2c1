----------------------------- MODULE DataLemmas -----------------------------
(***************************************************************************)
(* What the other proofs need to know of data, in a form the provers can   *)
(* use.  A set takes the place of the predicate in the induction rules,    *)
(* and a function that of the summand in the sums of the community         *)
(* modules; lists are functions on 1 .. n; a side of the naive book is a   *)
(* map from prices to lists.                                               *)
(***************************************************************************)
EXTENDS Functions, SequenceTheorems, FiniteSetTheorems, TLAPS

LessThan == {pair \in Nat \X Nat : pair[1] < pair[2]}

(* Every set of naturals that is not empty has a least element.             *)
LEMMA LeastElement ==
    ASSUME NEW T \in SUBSET Nat, T # {}
    PROVE  \E x \in T : \A y \in T : x <= y
<1>1. IsWellFoundedOn(LessThan, Nat)
  BY NatLessThanWellFounded DEF OpToRel, LessThan
<1>2. PICK x \in T : \A y \in T : <<y, x>> \notin LessThan
  BY <1>1, WFMin
<1>3. ASSUME NEW y \in T, y < x PROVE FALSE
  <2>1. <<y, x>> \in Nat \X Nat /\ <<y, x>>[1] = y /\ <<y, x>>[2] = x
    OBVIOUS
  <2>2. <<y, x>> \in LessThan
    BY <2>1, <1>3, Zenon DEF LessThan
  <2> QED
    BY <2>2, <1>2
<1>4. \A y \in T : x <= y
  BY <1>3
<1> QED
  BY <1>4

(* Induction over the naturals.                                             *)
LEMMA NatSetInduction ==
    ASSUME NEW T, 0 \in T, \A n \in Nat : n \in T => n + 1 \in T
    PROVE  Nat \subseteq T
<1> DEFINE Out == {n \in Nat : n \notin T}
<1> SUFFICES ASSUME Out # {} PROVE FALSE
  OBVIOUS
<1>1. PICK x \in Out : \A y \in Out : x <= y
  BY LeastElement
<1>2. x \in Nat /\ x # 0 /\ x \notin T
  OBVIOUS
<1>3. x - 1 \in Nat /\ x - 1 \notin Out
  BY <1>1, <1>2
<1>4. x - 1 \in T
  BY <1>3
<1>5. (x - 1) + 1 \in T
  BY <1>3, <1>4
<1> QED
  BY <1>2, <1>5

(* Induction over the subsets of a finite set, by adding an element.        *)
LEMMA SubsetInduction ==
    ASSUME NEW S, IsFiniteSet(S), NEW T, {} \in T,
           \A X \in SUBSET S : X \in T => \A x \in S \ X : X \union {x} \in T
    PROVE  SUBSET S \subseteq T
<1> DEFINE D == {n \in Nat : \A X \in SUBSET S : Cardinality(X) = n => X \in T}
<1>0. \A X \in SUBSET S : IsFiniteSet(X) /\ Cardinality(X) \in Nat
  BY FS_Subset, FS_CardinalityType
<1>1. 0 \in D
  BY <1>0, FS_EmptySet
<1>2. ASSUME NEW n \in Nat, n \in D PROVE n + 1 \in D
  <2> SUFFICES ASSUME NEW X \in SUBSET S, Cardinality(X) = n + 1 PROVE X \in T
    OBVIOUS
  <2>0. IsFiniteSet(X) /\ X # {}
    BY <1>0, FS_EmptySet
  <2>1. PICK x : x \in X
    BY <2>0
  <2>2. IsFiniteSet(X \ {x}) /\ Cardinality(X \ {x}) = n
    <3>1. IsFiniteSet(X \ {x}) /\ Cardinality(X \ {x}) = Cardinality(X) - 1
      BY <2>0, <2>1, FS_RemoveElement, Zenon
    <3> QED
      BY <3>1
  <2>3. X \ {x} \in T
    BY <2>2, <1>2
  <2>4. (X \ {x}) \union {x} \in T
    BY <2>1, <2>3
  <2> QED
    BY <2>1, <2>4
<1> HIDE DEF D
<1>3. Nat \subseteq D
  BY <1>1, <1>2, NatSetInduction
<1> QED
  BY <1>0, <1>3 DEF D

-----------------------------------------------------------------------------
(* How SumFunctionOnSet recurs: on some element of the set.                 *)
Pick(X) == CHOOSE x \in X : TRUE

SumsTo(g, f, U) ==
    g = [X \in SUBSET U |-> IF X = {} THEN 0 ELSE f[Pick(X)] + g[X \ {Pick(X)}]]

LEMMA SumExpanded ==
    \A f, U : SumFunctionOnSet(f, U) = (CHOOSE g : SumsTo(g, f, U))[U]
BY DEF SumFunctionOnSet, FoldFunctionOnSet, MapThenFoldSet, SumsTo, Pick

LEMMA PickIn == \A X : X # {} => Pick(X) \in X
BY DEF Pick

LEMMA SumsToExists ==
    ASSUME NEW f, NEW U, IsFiniteSet(U)
    PROVE  \E g : SumsTo(g, f, U)
<1> DEFINE Upto(n) == {X \in SUBSET U : Cardinality(X) <= n}
           Sums(g, n) == g = [X \in Upto(n) |-> IF X = {} THEN 0
                                                ELSE f[Pick(X)] + g[X \ {Pick(X)}]]
           D == {n \in Nat : \E g : Sums(g, n)}
<1>0. \A X \in SUBSET U : IsFiniteSet(X) /\ Cardinality(X) \in Nat
  BY FS_Subset, FS_CardinalityType
<1>00. \A X \in SUBSET U : X # {} => /\ X \ {Pick(X)} \in SUBSET U
                                     /\ Cardinality(X \ {Pick(X)}) = Cardinality(X) - 1
                                     /\ Cardinality(X) # 0
  BY <1>0, PickIn, FS_RemoveElement, FS_EmptySet
<1>1. 0 \in D
  <2> DEFINE g == [X \in Upto(0) |-> 0]
  <2>1. \A X \in Upto(0) : X = {}
    <3> TAKE X \in Upto(0)
    <3>1. X \in SUBSET U /\ Cardinality(X) <= 0
      OBVIOUS
    <3>2. Cardinality(X) = 0
      BY <3>1, <1>0
    <3> QED
      BY <3>1, <3>2, <1>00
  <2>2. Sums(g, 0)
    BY <2>1
  <2> QED
    BY <2>2
<1>2. ASSUME NEW n \in Nat, n \in D PROVE n + 1 \in D
  <2>1. PICK g : Sums(g, n)
    BY <1>2
  <2> DEFINE h == [X \in Upto(n + 1) |-> IF X = {} THEN 0
                                         ELSE f[Pick(X)] + g[X \ {Pick(X)}]]
  <2>2. \A X \in Upto(n) : X \in Upto(n + 1)
    BY <1>0
  <2>3. \A X \in Upto(n) : h[X] = g[X]
    <3> TAKE X \in Upto(n)
    <3>1. h[X] = IF X = {} THEN 0 ELSE f[Pick(X)] + g[X \ {Pick(X)}]
      BY <2>2
    <3>2. g[X] = IF X = {} THEN 0 ELSE f[Pick(X)] + g[X \ {Pick(X)}]
      BY <2>1
    <3> QED
      BY <3>1, <3>2
  <2>4. \A X \in Upto(n + 1) : X # {} => X \ {Pick(X)} \in Upto(n)
    BY <1>0, <1>00
  <2>5. \A X \in Upto(n + 1) : X # {} => g[X \ {Pick(X)}] = h[X \ {Pick(X)}]
    BY <2>3, <2>4
  <2>6. h = [X \in Upto(n + 1) |-> IF X = {} THEN 0 ELSE f[Pick(X)] + h[X \ {Pick(X)}]]
    <3> HIDE DEF Upto
    <3> QED BY <2>5, Zenon
  <2> HIDE DEF h
  <2>7. Sums(h, n + 1)
    BY <2>6
  <2> HIDE DEF Sums
  <2>8. n + 1 \in Nat /\ \E k : Sums(k, n + 1)
    BY <2>7
  <2> QED
    BY <2>8, Zenon
<1> HIDE DEF D
<1>3. Nat \subseteq D
  BY <1>1, <1>2, NatSetInduction
<1>4. Cardinality(U) \in D
  BY <1>0, <1>3
<1>5. \A X \in SUBSET U : Cardinality(X) <= Cardinality(U)
  BY FS_Subset
<1>6. Upto(Cardinality(U)) = SUBSET U
  BY <1>5
<1>7. PICK g : Sums(g, Cardinality(U))
  BY <1>4 DEF D
<1> QED
  BY <1>6, <1>7 DEF SumsTo

(* The recursion does not depend on the set it was started from.            *)
LEMMA SumRecursion ==
    ASSUME NEW f, NEW U, IsFiniteSet(U)
    PROVE  \A X \in SUBSET U :
              SumFunctionOnSet(f, X) =
                IF X = {} THEN 0
                ELSE f[Pick(X)] + SumFunctionOnSet(f, X \ {Pick(X)})
<1> DEFINE Iter(V) == CHOOSE g : SumsTo(g, f, V)
<1>0. ASSUME NEW V, IsFiniteSet(V) PROVE SumsTo(Iter(V), f, V)
  BY <1>0, SumsToExists
<1>1. ASSUME NEW V \in SUBSET U, NEW W \in SUBSET V
      PROVE  Iter(V)[W] = Iter(W)[W]
  <2> DEFINE D == {n \in Nat : \A X \in SUBSET W : Cardinality(X) = n => Iter(V)[X] = Iter(W)[X]}
  <2>0. IsFiniteSet(V) /\ IsFiniteSet(W) /\ IsFiniteSet(U)
    BY FS_Subset
  <2>00. \A X \in SUBSET W : IsFiniteSet(X) /\ Cardinality(X) \in Nat
    BY <2>0, FS_Subset, FS_CardinalityType
  <2>000. \A X \in SUBSET W : X # {} => /\ X \ {Pick(X)} \in SUBSET W
                                        /\ Cardinality(X \ {Pick(X)}) = Cardinality(X) - 1
                                        /\ Cardinality(X) # 0
    BY <2>00, PickIn, FS_RemoveElement, FS_EmptySet
  <2>1. SumsTo(Iter(V), f, V) /\ SumsTo(Iter(W), f, W)
    BY <1>0, <2>0
  <2> HIDE DEF Iter
  <2>2. \A X \in SUBSET W :
           /\ Iter(V)[X] = IF X = {} THEN 0 ELSE f[Pick(X)] + Iter(V)[X \ {Pick(X)}]
           /\ Iter(W)[X] = IF X = {} THEN 0 ELSE f[Pick(X)] + Iter(W)[X \ {Pick(X)}]
    BY <2>1 DEF SumsTo
  <2>3. 0 \in D
    BY <2>2, <2>000
  <2>4. ASSUME NEW n \in Nat, n \in D PROVE n + 1 \in D
    <3> SUFFICES ASSUME NEW X \in SUBSET W, Cardinality(X) = n + 1
                 PROVE  Iter(V)[X] = Iter(W)[X]
      OBVIOUS
    <3>1. X # {}
      BY FS_EmptySet
    <3>2. X \ {Pick(X)} \in SUBSET W /\ Cardinality(X \ {Pick(X)}) = n
      BY <3>1, <2>000
    <3>3. Iter(V)[X \ {Pick(X)}] = Iter(W)[X \ {Pick(X)}]
      BY <3>2, <2>4
    <3> QED
      BY <3>1, <3>3, <2>2
  <2> HIDE DEF D
  <2>5. Nat \subseteq D
    BY <2>3, <2>4, NatSetInduction
  <2> QED
    BY <2>5, <2>00 DEF D
<1> TAKE X \in SUBSET U
<1>2. IsFiniteSet(X)
  BY FS_Subset
<1>3. SumsTo(Iter(X), f, X)
  BY <1>0, <1>2
<1>4. SumFunctionOnSet(f, X) = Iter(X)[X]
  BY SumExpanded
<1>5. CASE X = {}
  BY <1>3, <1>4, <1>5 DEF SumsTo
<1>6. CASE X # {}
  <2>1. X \ {Pick(X)} \in SUBSET X
    OBVIOUS
  <2>2. Iter(X)[X \ {Pick(X)}] = Iter(X \ {Pick(X)})[X \ {Pick(X)}]
    BY <1>1, <2>1
  <2>3. SumFunctionOnSet(f, X \ {Pick(X)}) = Iter(X \ {Pick(X)})[X \ {Pick(X)}]
    BY SumExpanded
  <2>4. Iter(X)[X] = f[Pick(X)] + Iter(X)[X \ {Pick(X)}]
    <3> HIDE DEF Iter
    <3> QED BY <1>3, <1>6 DEF SumsTo
  <2> QED
    BY <1>4, <1>6, <2>2, <2>3, <2>4
<1> QED
  BY <1>5, <1>6

-----------------------------------------------------------------------------
(* Sums of integers, element by element.                                    *)
LEMMA SumEmpty == \A f : SumFunctionOnSet(f, {}) = 0
<1> TAKE f
<1>1. IsFiniteSet({})
  BY FS_EmptySet
<1> QED
  BY <1>1, SumRecursion

LEMMA SumType ==
    ASSUME NEW S, IsFiniteSet(S), NEW f, \A x \in S : f[x] \in Int
    PROVE  \A X \in SUBSET S : SumFunctionOnSet(f, X) \in Int
<1> DEFINE D == {n \in Nat : \A X \in SUBSET S :
                                Cardinality(X) = n => SumFunctionOnSet(f, X) \in Int}
<1>0. \A X \in SUBSET S : IsFiniteSet(X) /\ Cardinality(X) \in Nat
  BY FS_Subset, FS_CardinalityType
<1>00. \A X \in SUBSET S : X # {} => /\ Pick(X) \in X
                                     /\ X \ {Pick(X)} \in SUBSET S
                                     /\ Cardinality(X \ {Pick(X)}) = Cardinality(X) - 1
                                     /\ Cardinality(X) # 0
  BY <1>0, PickIn, FS_RemoveElement, FS_EmptySet
<1>1. 0 \in D
  <2> SUFFICES ASSUME NEW X \in SUBSET S, Cardinality(X) = 0
               PROVE  SumFunctionOnSet(f, X) \in Int
    OBVIOUS
  <2>1. X = {}
    BY <1>00
  <2> QED
    BY <2>1, SumEmpty
<1>2. ASSUME NEW n \in Nat, n \in D PROVE n + 1 \in D
  <2> SUFFICES ASSUME NEW X \in SUBSET S, Cardinality(X) = n + 1
               PROVE  SumFunctionOnSet(f, X) \in Int
    OBVIOUS
  <2>1. X # {}
    BY FS_EmptySet
  <2>2. Cardinality(X \ {Pick(X)}) = n
    BY <2>1, <1>00
  <2>3. SumFunctionOnSet(f, X \ {Pick(X)}) \in Int
    BY <2>1, <2>2, <1>00, <1>2
  <2>4. f[Pick(X)] \in Int
    BY <2>1, <1>00
  <2>5. SumFunctionOnSet(f, X) = f[Pick(X)] + SumFunctionOnSet(f, X \ {Pick(X)})
    BY <2>1, SumRecursion
  <2> QED
    BY <2>3, <2>4, <2>5
<1> HIDE DEF D
<1>3. Nat \subseteq D
  BY <1>1, <1>2, NatSetInduction
<1> QED
  BY <1>3, <1>0 DEF D

(* Any element may be taken out first, not only the picked one.             *)
LEMMA SumInsert ==
    ASSUME NEW S, IsFiniteSet(S), NEW f, \A x \in S : f[x] \in Int
    PROVE  \A X \in SUBSET S : \A x \in S \ X :
              SumFunctionOnSet(f, X \union {x}) = f[x] + SumFunctionOnSet(f, X)
<1> DEFINE D == {n \in Nat : \A X \in SUBSET S : Cardinality(X) = n =>
                    \A x \in S \ X : SumFunctionOnSet(f, X \union {x})
                                        = f[x] + SumFunctionOnSet(f, X)}
<1>0. \A X \in SUBSET S : IsFiniteSet(X) /\ Cardinality(X) \in Nat
  BY FS_Subset, FS_CardinalityType
<1>00. \A X \in SUBSET S : X # {} => /\ Pick(X) \in X
                                     /\ X \ {Pick(X)} \in SUBSET S
                                     /\ Cardinality(X \ {Pick(X)}) = Cardinality(X) - 1
                                     /\ Cardinality(X) # 0
  BY <1>0, PickIn, FS_RemoveElement, FS_EmptySet
<1>1. 0 \in D
  <2> SUFFICES ASSUME NEW x \in S
               PROVE  SumFunctionOnSet(f, {x}) = f[x] + SumFunctionOnSet(f, {})
    BY <1>00
  <2>1. Pick({x}) = x /\ {x} \ {x} = {}
    BY PickIn
  <2> QED
    BY <2>1, SumRecursion
<1>2. ASSUME NEW n \in Nat, n \in D PROVE n + 1 \in D
  <2> SUFFICES ASSUME NEW X \in SUBSET S, Cardinality(X) = n + 1, NEW x \in S \ X
               PROVE  SumFunctionOnSet(f, X \union {x}) = f[x] + SumFunctionOnSet(f, X)
    OBVIOUS
  <2> DEFINE Y == X \union {x}
             c == Pick(Y)
             Z == X \ {c}
  <2>1. c \in Y /\ Y \in SUBSET S /\ Y # {}
    BY PickIn
  <2>2. SumFunctionOnSet(f, Y) = f[c] + SumFunctionOnSet(f, Y \ {c})
    BY <2>1, SumRecursion
  <2>3. CASE c = x
    <3>1. Y \ {c} = X
      BY <2>3
    <3> QED
      BY <2>2, <2>3, <3>1
  <2>4. CASE c # x
    <3>1. c \in X /\ Z \in SUBSET S /\ Y \ {c} = Z \union {x} /\ X = Z \union {c}
          /\ x \in S \ Z /\ c \in S \ Z
      BY <2>1, <2>4
    <3>2. Cardinality(Z) = n
      <4>1. IsFiniteSet(X)
        BY <1>0
      <4>2. Cardinality(X \ {c}) = Cardinality(X) - 1
        <5> HIDE DEF c
        <5> QED BY <3>1, <4>1, FS_RemoveElement, Zenon
      <4> QED
        BY <4>2
    <3> HIDE DEF Z, Y, c
    <3>3. /\ SumFunctionOnSet(f, Z \union {x}) = f[x] + SumFunctionOnSet(f, Z)
          /\ SumFunctionOnSet(f, Z \union {c}) = f[c] + SumFunctionOnSet(f, Z)
      BY <3>1, <3>2, <1>2
    <3>4. f[x] \in Int /\ f[c] \in Int /\ SumFunctionOnSet(f, Z) \in Int
      BY <3>1, SumType
    <3>5. SumFunctionOnSet(f, Y) = f[x] + SumFunctionOnSet(f, X)
      <4>1. SumFunctionOnSet(f, Y) = f[c] + SumFunctionOnSet(f, Z \union {x})
        BY <2>2, <3>1, Zenon
      <4>2. SumFunctionOnSet(f, X) = f[c] + SumFunctionOnSet(f, Z)
        BY <3>1, <3>3, Zenon
      <4> QED
        BY <4>1, <4>2, <3>3, <3>4
    <3> QED
      BY <3>5 DEF Y
  <2> QED
    BY <2>3, <2>4
<1> HIDE DEF D
<1>3. Nat \subseteq D
  BY <1>1, <1>2, NatSetInduction
<1> QED
  BY <1>3, <1>0 DEF D

LEMMA SumRemove ==
    ASSUME NEW S, IsFiniteSet(S), NEW f, \A x \in S : f[x] \in Int, NEW x \in S
    PROVE  SumFunctionOnSet(f, S) = f[x] + SumFunctionOnSet(f, S \ {x})
<1>1. S \ {x} \in SUBSET S /\ x \in S \ (S \ {x}) /\ (S \ {x}) \union {x} = S
  OBVIOUS
<1> QED
  BY <1>1, SumInsert

(* Functions that agree on a set have the same sum over it.                 *)
LEMMA SumSame ==
    ASSUME NEW S, IsFiniteSet(S), NEW f, NEW g, \A x \in S : f[x] \in Int /\ g[x] = f[x]
    PROVE  SumFunctionOnSet(g, S) = SumFunctionOnSet(f, S)
<1> DEFINE T == {X \in SUBSET S : SumFunctionOnSet(g, X) = SumFunctionOnSet(f, X)}
<1>1. {} \in T
  BY SumEmpty
<1>2. ASSUME NEW X \in SUBSET S, X \in T, NEW x \in S \ X
      PROVE  X \union {x} \in T
  <2>1. /\ SumFunctionOnSet(f, X \union {x}) = f[x] + SumFunctionOnSet(f, X)
        /\ SumFunctionOnSet(g, X \union {x}) = g[x] + SumFunctionOnSet(g, X)
    BY SumInsert
  <2> QED
    BY <2>1, <1>2
<1> HIDE DEF T
<1>3. SUBSET S \subseteq T
  BY <1>1, <1>2, SubsetInduction
<1> QED
  BY <1>3 DEF T

(* Sums of naturals.                                                        *)
LEMMA SumNat ==
    ASSUME NEW S, IsFiniteSet(S), NEW f, \A x \in S : f[x] \in Nat
    PROVE  /\ SumFunctionOnSet(f, S) \in Nat
           /\ \A x \in S : f[x] <= SumFunctionOnSet(f, S)
<1> DEFINE T == {X \in SUBSET S : SumFunctionOnSet(f, X) \in Nat}
<1>1. {} \in T
  BY SumEmpty
<1>2. ASSUME NEW X \in SUBSET S, X \in T, NEW x \in S \ X
      PROVE  X \union {x} \in T
  <2>1. SumFunctionOnSet(f, X \union {x}) = f[x] + SumFunctionOnSet(f, X)
    BY SumInsert
  <2> QED
    BY <2>1, <1>2
<1> HIDE DEF T
<1>3. SUBSET S \subseteq T
  BY <1>1, <1>2, SubsetInduction
<1>4. \A X \in SUBSET S : SumFunctionOnSet(f, X) \in Nat
  BY <1>3 DEF T
<1>5. ASSUME NEW x \in S PROVE f[x] <= SumFunctionOnSet(f, S)
  <2>1. SumFunctionOnSet(f, S) = f[x] + SumFunctionOnSet(f, S \ {x})
    BY SumRemove
  <2>2. SumFunctionOnSet(f, S \ {x}) \in Nat
    BY <1>4
  <2> QED
    BY <2>1, <2>2
<1> QED
  BY <1>4, <1>5

(* A sum after one summand has changed.                                     *)
LEMMA SumChange ==
    ASSUME NEW S, IsFiniteSet(S), NEW f, NEW g, NEW x \in S,
           \A y \in S : f[y] \in Int /\ g[y] \in Int,
           \A y \in S \ {x} : g[y] = f[y]
    PROVE  SumFunctionOnSet(g, S) = SumFunctionOnSet(f, S) - f[x] + g[x]
<1>1. IsFiniteSet(S \ {x})
  BY FS_RemoveElement
<1>2. SumFunctionOnSet(g, S \ {x}) = SumFunctionOnSet(f, S \ {x})
  BY <1>1, SumSame
<1>3. SumFunctionOnSet(f, S) = f[x] + SumFunctionOnSet(f, S \ {x})
  BY SumRemove
<1>4. SumFunctionOnSet(g, S) = g[x] + SumFunctionOnSet(g, S \ {x})
  BY SumRemove
<1>5. SumFunctionOnSet(f, S \ {x}) \in Int /\ f[x] \in Int /\ g[x] \in Int
  BY SumType
<1> QED
  BY <1>2, <1>3, <1>4, <1>5

(* The sum over a set and one that does not meet it.                        *)
LEMMA SumUnion ==
    ASSUME NEW S, IsFiniteSet(S), NEW f, \A x \in S : f[x] \in Int, NEW R \in SUBSET S
    PROVE  SumFunctionOnSet(f, S) = SumFunctionOnSet(f, R) + SumFunctionOnSet(f, S \ R)
<1> DEFINE U == S \ R
           T == {X \in SUBSET U : SumFunctionOnSet(f, R \union X)
                                    = SumFunctionOnSet(f, R) + SumFunctionOnSet(f, X)}
<1>0. IsFiniteSet(U) /\ U \in SUBSET S
  BY FS_Subset
<1>00. \A X \in SUBSET U : SumFunctionOnSet(f, X) \in Int /\ SumFunctionOnSet(f, R) \in Int
  BY <1>0, SumType
<1>1. {} \in T
  BY SumEmpty, <1>00
<1>2. ASSUME NEW X \in SUBSET U, X \in T, NEW x \in U \ X
      PROVE  X \union {x} \in T
  <2>1. SumFunctionOnSet(f, X \union {x}) = f[x] + SumFunctionOnSet(f, X)
    BY <1>0, SumInsert
  <2>2. R \union (X \union {x}) = (R \union X) \union {x} /\ R \union X \in SUBSET S
        /\ x \in S \ (R \union X)
    OBVIOUS
  <2>3. SumFunctionOnSet(f, (R \union X) \union {x}) = f[x] + SumFunctionOnSet(f, R \union X)
    BY <2>2, SumInsert
  <2>4. f[x] \in Int /\ X \union {x} \in SUBSET U
    OBVIOUS
  <2>5. SumFunctionOnSet(f, R \union X) = SumFunctionOnSet(f, R) + SumFunctionOnSet(f, X)
    BY <1>2
  <2> HIDE DEF U
  <2>6. SumFunctionOnSet(f, R \union (X \union {x}))
          = SumFunctionOnSet(f, R) + SumFunctionOnSet(f, X \union {x})
    BY <2>1, <2>2, <2>3, <2>4, <2>5, <1>00
  <2> QED
    BY <2>4, <2>6
<1> HIDE DEF T
<1>3. SUBSET U \subseteq T
  BY <1>0, <1>1, <1>2, SubsetInduction, SMTT(40)
<1>4. U \in T
  BY <1>3
<1>5. R \union U = S
  OBVIOUS
<1> QED
  BY <1>4, <1>5 DEF T

LEMMA SumOfZeros ==
    ASSUME NEW S, IsFiniteSet(S), NEW f, \A x \in S : f[x] = 0
    PROVE  SumFunctionOnSet(f, S) = 0
<1> DEFINE T == {X \in SUBSET S : SumFunctionOnSet(f, X) = 0}
<1>1. {} \in T
  BY SumEmpty
<1>2. ASSUME NEW X \in SUBSET S, X \in T, NEW x \in S \ X PROVE X \union {x} \in T
  <2>1. SumFunctionOnSet(f, X \union {x}) = f[x] + SumFunctionOnSet(f, X)
    BY SumInsert
  <2>2. SumFunctionOnSet(f, X) = 0 /\ f[x] = 0
    BY <1>2
  <2> QED
    BY <2>1, <2>2
<1>3. S \in SUBSET S
  OBVIOUS
<1> HIDE DEF T
<1>4. SUBSET S \subseteq T
  BY <1>1, <1>2, SubsetInduction
<1> QED
  BY <1>3, <1>4 DEF T

LEMMA SumHasPositive ==
    ASSUME NEW S, IsFiniteSet(S), NEW f, \A x \in S : f[x] \in Nat,
           SumFunctionOnSet(f, S) # 0
    PROVE  \E x \in S : f[x] > 0
<1> SUFFICES ASSUME \A x \in S : ~(f[x] > 0) PROVE FALSE
  OBVIOUS
<1>1. \A x \in S : f[x] = 0
  OBVIOUS
<1> QED
  BY <1>1, SumOfZeros

LEMMA SumPointwise ==
    ASSUME NEW S, IsFiniteSet(S), NEW f, NEW g, NEW h,
           \A x \in S : f[x] \in Int /\ g[x] \in Int /\ h[x] = f[x] + g[x]
    PROVE  SumFunctionOnSet(h, S) = SumFunctionOnSet(f, S) + SumFunctionOnSet(g, S)
<1> DEFINE T == {X \in SUBSET S : SumFunctionOnSet(h, X)
                                    = SumFunctionOnSet(f, X) + SumFunctionOnSet(g, X)}
<1>1. {} \in T
  BY SumEmpty
<1>2. ASSUME NEW X \in SUBSET S, X \in T, NEW x \in S \ X PROVE X \union {x} \in T
  <2>1. \A y \in S : h[y] \in Int
    OBVIOUS
  <2>2. /\ SumFunctionOnSet(h, X \union {x}) = h[x] + SumFunctionOnSet(h, X)
        /\ SumFunctionOnSet(f, X \union {x}) = f[x] + SumFunctionOnSet(f, X)
        /\ SumFunctionOnSet(g, X \union {x}) = g[x] + SumFunctionOnSet(g, X)
    BY <2>1, SumInsert
  <2>3. SumFunctionOnSet(f, X) \in Int /\ SumFunctionOnSet(g, X) \in Int
    BY SumType
  <2>4. SumFunctionOnSet(h, X) = SumFunctionOnSet(f, X) + SumFunctionOnSet(g, X)
    BY <1>2
  <2> QED
    BY <2>2, <2>3, <2>4
<1>3. S \in SUBSET S
  OBVIOUS
<1> HIDE DEF T
<1>4. SUBSET S \subseteq T
  BY <1>1, <1>2, SubsetInduction
<1> QED
  BY <1>3, <1>4 DEF T

LEMMA SumAtMost ==
    ASSUME NEW S, IsFiniteSet(S), NEW f, \A x \in S : f[x] \in Nat,
           NEW X \in SUBSET S, NEW Y \in SUBSET S, \A x \in X : x \in Y \/ f[x] = 0
    PROVE  SumFunctionOnSet(f, X) <= SumFunctionOnSet(f, Y)
<1>1. IsFiniteSet(X) /\ IsFiniteSet(Y)
  BY FS_Subset
<1>2. IsFiniteSet(X \ Y) /\ IsFiniteSet(Y \ X) /\ X \cap Y \in SUBSET X /\ X \cap Y \in SUBSET Y
  BY <1>1, FS_Subset, FS_Difference
<1>3. X \ (X \cap Y) = X \ Y /\ Y \ (X \cap Y) = Y \ X
  OBVIOUS
<1>4. SumFunctionOnSet(f, X) = SumFunctionOnSet(f, X \cap Y) + SumFunctionOnSet(f, X \ Y)
  BY <1>1, <1>2, <1>3, SumUnion
<1>5. SumFunctionOnSet(f, Y) = SumFunctionOnSet(f, X \cap Y) + SumFunctionOnSet(f, Y \ X)
  BY <1>1, <1>2, <1>3, SumUnion
<1>6. SumFunctionOnSet(f, X \ Y) = 0
  BY <1>2, SumOfZeros
<1>7. SumFunctionOnSet(f, Y \ X) \in Nat
  BY <1>2, SumNat
<1>8. SumFunctionOnSet(f, X \cap Y) \in Int
  BY SumType
<1> QED
  BY <1>4, <1>5, <1>6, <1>7, <1>8

-----------------------------------------------------------------------------
(* Products and quotients.                                                  *)
LEMMA ProductType == \A a, b \in Nat : a * b \in Nat
OBVIOUS

LEMMA ProductAscends == \A a, b, n \in Nat : a <= b => a * n <= b * n /\ n * a <= n * b
OBVIOUS

LEMMA ProductCancels == \A a, b \in Nat : \A n \in Nat \ {0} : a * n <= b * n => a <= b
<1> TAKE a, b \in Nat
<1> TAKE n \in Nat \ {0}
<1> SUFFICES ASSUME b + 1 <= a PROVE b * n < a * n
  OBVIOUS
<1>1. (b + 1) * n <= a * n
  BY ProductAscends
<1>2. (b + 1) * n = b * n + n
  OBVIOUS
<1>3. b * n \in Nat /\ a * n \in Nat /\ n >= 1
  BY ProductType
<1> QED
  BY <1>1, <1>2, <1>3

LEMMA QuotientFacts ==
    ASSUME NEW a \in Nat, NEW n \in Nat \ {0}
    PROVE  /\ a \div n \in Nat /\ a % n \in 0 .. n - 1
           /\ a = (a \div n) * n + (a % n)
OBVIOUS

LEMMA QuotientBounds ==
    ASSUME NEW a \in Nat, NEW n \in Nat \ {0}
    PROVE  (a \div n) * n <= a /\ a < (a \div n + 1) * n
<1>1. PICK q \in Nat, r \in 0 .. n - 1 : q = a \div n /\ a = q * n + r
  BY QuotientFacts
<1>2. (q + 1) * n = q * n + n /\ q * n \in Nat
  BY <1>1, ProductType
<1> QED
  BY <1>1, <1>2

LEMMA QuotientAtMost ==
    ASSUME NEW a \in Nat, NEW n \in Nat \ {0}, NEW k \in Nat, a <= k * n
    PROVE  a \div n <= k
<1>1. PICK q \in Nat : q = a \div n /\ q * n <= a
  BY QuotientBounds, QuotientFacts
<1>2. q * n \in Nat /\ k * n \in Nat
  BY ProductType
<1>3. q * n <= k * n
  BY <1>1, <1>2
<1> QED
  BY <1>1, <1>3, ProductCancels

LEMMA QuotientAtLeast ==
    ASSUME NEW a \in Nat, NEW n \in Nat \ {0}, NEW k \in Nat, k * n <= a
    PROVE  k <= a \div n
<1>1. PICK q \in Nat : q = a \div n /\ a < (q + 1) * n
  BY QuotientBounds, QuotientFacts
<1>2. (q + 1) * n \in Nat /\ k * n \in Nat
  BY ProductType
<1>3. ~(q + 1 <= k)
  BY <1>1, <1>2, ProductAscends
<1> QED
  BY <1>1, <1>3

LEMMA QuotientAscends ==
    ASSUME NEW a \in Nat, NEW b \in Nat, a <= b, NEW n \in Nat \ {0}
    PROVE  a \div n <= b \div n
<1>1. PICK q \in Nat : q = a \div n /\ q * n <= a
  BY QuotientBounds, QuotientFacts
<1>2. q * n \in Nat
  BY ProductType
<1>3. q * n <= b
  BY <1>1, <1>2
<1> QED
  BY <1>1, <1>3, QuotientAtLeast

-----------------------------------------------------------------------------
(* Lists, as functions on 1 .. n.                                           *)
Appended(w, n, i) == [k \in 1 .. n + 1 |-> IF k = n + 1 THEN i ELSE w[k]]

Without(w, n, m) == [k \in 1 .. n - 1 |-> IF k < m THEN w[k] ELSE w[k + 1]]

WithHead(w, n, x) == [k \in 1 .. n |-> IF k = 1 THEN x ELSE w[k]]

(* A function on 1 .. n is a sequence.                                      *)
LEMMA ListIsSeq ==
    ASSUME NEW X, NEW n \in Nat, NEW w, w \in [1 .. n -> X]
    PROVE  w \in Seq(X) /\ Len(w) = n /\ DOMAIN w = 1 .. n
<1>1. w \in Seq(X)
  BY SeqDef
<1> QED
  BY <1>1, LenProperties

LEMMA SameSeq ==
    ASSUME NEW X, NEW s \in Seq(X), NEW n \in Nat, Len(s) = n,
           NEW t, t = [k \in 1 .. n |-> t[k]], \A k \in 1 .. n : t[k] = s[k]
    PROVE  s = t
<1>1. s = [k \in 1 .. n |-> s[k]]
  BY LenProperties
<1> QED
  BY <1>1

LEMMA AppendIsAppended ==
    ASSUME NEW X, NEW s \in Seq(X), NEW x \in X
    PROVE  /\ Append(s, x) = Appended(s, Len(s), x)
           /\ Appended(s, Len(s), x) \in Seq(X) /\ Len(Appended(s, Len(s), x)) = Len(s) + 1
           /\ Appended(s, Len(s), x) # <<>>
<1> DEFINE a == Append(s, x)
<1>1. a \in Seq(X) /\ Len(a) = Len(s) + 1
      /\ (\A k \in 1 .. Len(s) : a[k] = s[k]) /\ a[Len(s) + 1] = x
  BY AppendProperties
<1>2. PICK n \in Nat : n = Len(s)
  BY LenProperties
<1> HIDE DEF a
<1>3. \A k \in 1 .. n + 1 : Appended(s, n, x)[k] = a[k]
  BY <1>1, <1>2 DEF Appended
<1>4. Appended(s, n, x) = [k \in 1 .. n + 1 |-> Appended(s, n, x)[k]]
  BY DEF Appended
<1>5. a = Appended(s, n, x)
  BY <1>1, <1>2, <1>3, <1>4, SameSeq
<1>6. a # <<>>
  BY <1>1, <1>2, EmptySeq
<1> QED
  BY <1>1, <1>2, <1>5, <1>6 DEF a

LEMMA RemovedIsWithout ==
    ASSUME NEW X, NEW s \in Seq(X), NEW m \in 1 .. Len(s)
    PROVE  /\ SubSeq(s, 1, m - 1) \o SubSeq(s, m + 1, Len(s)) = Without(s, Len(s), m)
           /\ Without(s, Len(s), m) \in Seq(X) /\ Len(Without(s, Len(s), m)) = Len(s) - 1
<1>1. PICK n \in Nat : n = Len(s)
  BY LenProperties
<1>2. m \in 1 .. n /\ m \in Int /\ n - 1 \in Nat
  BY <1>1
<1>3. \A i \in 1 .. n : s[i] \in X
  BY <1>1, ElementOfSeq
<1> DEFINE a == SubSeq(s, 1, m - 1)
           b == SubSeq(s, m + 1, n)
<1>4. /\ a \in Seq(X) /\ Len(a) = m - 1
      /\ \A k \in 1 .. m - 1 : a[k] = s[k]
  <2>1. 1 \in Int /\ m - 1 \in Int /\ \A i \in 1 .. m - 1 : s[i] \in X
    BY <1>2, <1>3
  <2>2. /\ a \in Seq(X) /\ Len(a) = IF 1 <= m - 1 THEN m - 1 - 1 + 1 ELSE 0
        /\ \A k \in 1 .. m - 1 - 1 + 1 : a[k] = s[1 + k - 1]
    BY ONLY <2>1, SubSeqProperties, SMTT(30) DEF a
  <2> HIDE DEF a
  <2> QED
    BY <1>2, <2>2
<1>5. /\ b \in Seq(X) /\ Len(b) = n - m
      /\ \A k \in 1 .. n - m : b[k] = s[m + k]
  <2>1. m + 1 \in Int /\ n \in Int /\ \A i \in m + 1 .. n : s[i] \in X
    BY <1>2, <1>3
  <2>2. /\ b \in Seq(X) /\ Len(b) = IF m + 1 <= n THEN n - (m + 1) + 1 ELSE 0
        /\ \A k \in 1 .. n - (m + 1) + 1 : b[k] = s[(m + 1) + k - 1]
    BY ONLY <2>1, SubSeqProperties, SMTT(30) DEF b
  <2> HIDE DEF b
  <2> QED
    BY <1>2, <2>2
<1> HIDE DEF a, b
<1>6. /\ a \o b \in Seq(X) /\ Len(a \o b) = Len(a) + Len(b)
      /\ \A k \in 1 .. Len(a) + Len(b) : (a \o b)[k] = IF k <= Len(a) THEN a[k] ELSE b[k - Len(a)]
  BY <1>4, <1>5, ConcatProperties
<1>7. Len(a) + Len(b) = n - 1
  BY <1>2, <1>4, <1>5
<1>8. \A k \in 1 .. n - 1 : Without(s, n, m)[k] = (a \o b)[k]
  <2> TAKE k \in 1 .. n - 1
  <2>1. Without(s, n, m)[k] = IF k < m THEN s[k] ELSE s[k + 1]
    BY DEF Without
  <2>2. (a \o b)[k] = IF k <= m - 1 THEN a[k] ELSE b[k - (m - 1)]
    BY <1>4, <1>6, <1>7
  <2>3. CASE k < m
    <3>1. k \in 1 .. m - 1
      BY <1>2, <2>3
    <3> QED
      BY <1>2, <1>4, <2>1, <2>2, <2>3, <3>1
  <2>4. CASE ~(k < m)
    <3>1. k - (m - 1) \in 1 .. n - m /\ m + (k - (m - 1)) = k + 1 /\ ~(k <= m - 1)
      BY <1>2, <2>4
    <3> QED
      BY <1>5, <2>1, <2>2, <2>4, <3>1
  <2> QED
    BY <2>3, <2>4
<1>9. Without(s, n, m) = [k \in 1 .. n - 1 |-> Without(s, n, m)[k]]
  BY DEF Without
<1>10. a \o b = Without(s, n, m)
  <2>1. PICK c \in Seq(X) : c = a \o b
    BY <1>6
  <2>2. Len(c) = n - 1 /\ \A k \in 1 .. n - 1 : Without(s, n, m)[k] = c[k]
    BY <1>6, <1>7, <1>8, <2>1
  <2>3. c = [k \in 1 .. n - 1 |-> c[k]]
    BY <2>1, <2>2, LenProperties
  <2> QED
    BY <1>9, <2>1, <2>2, <2>3
<1> QED
  BY <1>1, <1>6, <1>7, <1>10 DEF a, b

LEMMA TailIsWithout ==
    ASSUME NEW X, NEW s \in Seq(X), s # <<>>
    PROVE  /\ Len(s) \in Nat \ {0} /\ 1 \in 1 .. Len(s) /\ Head(s) = s[1] /\ s[1] \in X
           /\ <<>> \o Tail(s) = Without(s, Len(s), 1)
<1>1. Len(s) \in Nat \ {0}
  BY EmptySeq
<1>2. PICK n \in Nat : n = Len(s) /\ n # 0
  BY <1>1
<1>3. Tail(s) \in Seq(X) /\ Len(Tail(s)) = n - 1
      /\ \A k \in 1 .. n - 1 : Tail(s)[k] = s[k + 1]
  BY <1>2, HeadTailProperties
<1>4. <<>> \o Tail(s) = Tail(s)
  BY <1>3, ConcatEmptySeq
<1>5. \A k \in 1 .. n - 1 : Without(s, n, 1)[k] = Tail(s)[k]
  <2> TAKE k \in 1 .. n - 1
  <2>1. Without(s, n, 1)[k] = s[k + 1]
    BY DEF Without
  <2> QED
    BY <1>3, <2>1
<1>6. Without(s, n, 1) = [k \in 1 .. n - 1 |-> Without(s, n, 1)[k]]
  BY DEF Without
<1>7. n - 1 \in Nat
  BY <1>2
<1>8. Tail(s) = Without(s, n, 1)
  BY <1>3, <1>5, <1>6, <1>7, SameSeq
<1>9. Head(s) = s[1] /\ 1 \in 1 .. n
  BY <1>2
<1>10. s[1] \in X
  BY <1>2, <1>9, ElementOfSeq
<1> QED
  BY <1>1, <1>2, <1>4, <1>8, <1>9, <1>10

LEMMA HeadReplaced ==
    ASSUME NEW X, NEW s \in Seq(X), s # <<>>, NEW x \in X
    PROVE  /\ <<x>> \o Tail(s) = WithHead(s, Len(s), x)
           /\ WithHead(s, Len(s), x) \in Seq(X)
           /\ Len(WithHead(s, Len(s), x)) = Len(s) /\ WithHead(s, Len(s), x) # <<>>
<1>2. PICK n \in Nat : n = Len(s) /\ n # 0
  BY EmptySeq
<1> DEFINE t == Tail(s)
           u == <<x>>
<1>3. t \in Seq(X) /\ Len(t) = n - 1
      /\ \A k \in 1 .. n - 1 : t[k] = s[k + 1]
  BY <1>2, HeadTailProperties
<1>4. u \in Seq(X) /\ Len(u) = 1 /\ u[1] = x
  OBVIOUS
<1> HIDE DEF t, u
<1>5. /\ u \o t \in Seq(X) /\ Len(u \o t) = Len(u) + Len(t)
      /\ \A k \in 1 .. Len(u) + Len(t) : (u \o t)[k] = IF k <= Len(u) THEN u[k] ELSE t[k - Len(u)]
  <2>1. \A a, b \in Seq(X) :
           /\ a \o b \in Seq(X) /\ Len(a \o b) = Len(a) + Len(b)
           /\ \A k \in 1 .. Len(a) + Len(b) :
                 (a \o b)[k] = IF k <= Len(a) THEN a[k] ELSE b[k - Len(a)]
    BY ConcatProperties
  <2> QED
    BY <1>3, <1>4, <2>1, Zenon
<1>6. Len(u) + Len(t) = n
  BY <1>2, <1>3, <1>4
<1>7. \A k \in 1 .. n : WithHead(s, n, x)[k] = (u \o t)[k]
  <2> TAKE k \in 1 .. n
  <2>1. WithHead(s, n, x)[k] = IF k = 1 THEN x ELSE s[k]
    BY DEF WithHead
  <2>2. (u \o t)[k] = IF k <= 1 THEN u[k] ELSE t[k - 1]
    BY <1>4, <1>5, <1>6
  <2>3. CASE k = 1
    BY <1>4, <2>1, <2>2, <2>3
  <2>4. CASE k # 1
    <3>1. k - 1 \in 1 .. n - 1 /\ (k - 1) + 1 = k /\ ~(k <= 1)
      BY <2>4
    <3> QED
      BY <1>3, <2>1, <2>2, <2>4, <3>1
  <2> QED
    BY <2>3, <2>4
<1>8. WithHead(s, n, x) = [k \in 1 .. n |-> WithHead(s, n, x)[k]]
  BY DEF WithHead
<1>9. u \o t = WithHead(s, n, x)
  <2>1. PICK c \in Seq(X) : c = u \o t
    BY <1>5
  <2>2. Len(c) = n /\ \A k \in 1 .. n : WithHead(s, n, x)[k] = c[k]
    BY <1>5, <1>6, <1>7, <2>1
  <2>3. c = [k \in 1 .. n |-> c[k]]
    BY <2>1, <2>2, LenProperties
  <2> QED
    BY <1>8, <2>1, <2>2, <2>3
<1>10. WithHead(s, n, x) \in Seq(X) /\ Len(WithHead(s, n, x)) = n
  BY <1>5, <1>6, <1>9
<1>11. WithHead(s, n, x) # <<>>
  BY <1>2, <1>10, EmptySeq
<1> QED
  BY <1>2, <1>9, <1>10, <1>11 DEF t, u

-----------------------------------------------------------------------------
(* Maps from prices to lists, one for each of S, as the naive book keeps    *)
(* them: no list in them is empty.                                          *)
PriceMaps(S, X) == [S -> UNION {[P -> Seq(X) \ {<<>>}] : P \in SUBSET Int}]

AtPrice(L, side, price) == IF price \in DOMAIN L[side] THEN L[side][price] ELSE <<>>

StoredAt(L, side, price, list) ==
    [L EXCEPT ![side] =
        [p \in (IF list = <<>> THEN DOMAIN L[side] \ {price} ELSE DOMAIN L[side] \union {price}) |->
            IF p = price THEN list ELSE L[side][p]]]

LEMMA PriceMapFacts ==
    ASSUME NEW S, NEW X, NEW L \in PriceMaps(S, X), NEW side \in S
    PROVE  /\ DOMAIN L[side] \in SUBSET Int
           /\ \A p \in DOMAIN L[side] : L[side][p] \in Seq(X) /\ L[side][p] # <<>>
           /\ \A p : AtPrice(L, side, p) \in Seq(X)
           /\ \A p : p \in DOMAIN L[side] <=> AtPrice(L, side, p) # <<>>
<1>1. L[side] \in UNION {[P -> Seq(X) \ {<<>>}] : P \in SUBSET Int}
  BY DEF PriceMaps
<1>2. PICK P \in SUBSET Int : L[side] \in [P -> Seq(X) \ {<<>>}]
  BY <1>1
<1>3. /\ DOMAIN L[side] \in SUBSET Int
      /\ \A p \in DOMAIN L[side] : L[side][p] \in Seq(X) /\ L[side][p] # <<>>
  BY <1>2
<1>4. <<>> \in Seq(X)
  OBVIOUS
<1>5. \A p : AtPrice(L, side, p) \in Seq(X)
  BY <1>3, <1>4 DEF AtPrice
<1>6. \A p : p \in DOMAIN L[side] <=> AtPrice(L, side, p) # <<>>
  BY <1>3 DEF AtPrice
<1> QED
  BY <1>1, <1>3, <1>5, <1>6

LEMMA PriceMapForm ==
    ASSUME NEW S, NEW X, NEW L \in PriceMaps(S, X), NEW side \in S
    PROVE  L[side] = [p \in DOMAIN L[side] |-> L[side][p]]
<1>1. L[side] \in UNION {[P -> Seq(X) \ {<<>>}] : P \in SUBSET Int}
  BY DEF PriceMaps
<1>2. PICK P \in SUBSET Int : L[side] \in [P -> Seq(X) \ {<<>>}]
  BY <1>1
<1> QED
  BY <1>2

LEMMA StoredAtEffect ==
    ASSUME NEW S, NEW X, NEW L \in PriceMaps(S, X), NEW side \in S, NEW price \in Int,
           NEW list \in Seq(X)
    PROVE  LET M == StoredAt(L, side, price, list) IN
           /\ M \in PriceMaps(S, X)
           /\ \A s \in S : \A p :
                 AtPrice(M, s, p) = IF s = side /\ p = price THEN list ELSE AtPrice(L, s, p)
<1>1. /\ DOMAIN L[side] \in SUBSET Int
      /\ \A p \in DOMAIN L[side] : L[side][p] \in Seq(X) /\ L[side][p] # <<>>
  BY PriceMapFacts
<1> DEFINE D == IF list = <<>> THEN DOMAIN L[side] \ {price} ELSE DOMAIN L[side] \union {price}
           f == [p \in D |-> IF p = price THEN list ELSE L[side][p]]
           M == [L EXCEPT ![side] = f]
<1>2. D \in SUBSET Int
  BY <1>1
<1>3. \A p \in D : f[p] \in Seq(X) \ {<<>>}
  BY <1>1
<1>4. f = [p \in D |-> f[p]] /\ DOMAIN f = D
  OBVIOUS
<1>5. \A p : (IF p \in DOMAIN f THEN f[p] ELSE <<>>)
               = IF p = price THEN list ELSE AtPrice(L, side, p)
  BY DEF AtPrice
<1> HIDE DEF D, f
<1>6. f \in [D -> Seq(X) \ {<<>>}]
  BY <1>3, <1>4
<1>7. f \in UNION {[P -> Seq(X) \ {<<>>}] : P \in SUBSET Int}
  BY <1>2, <1>6
<1>8. L \in [S -> UNION {[P -> Seq(X) \ {<<>>}] : P \in SUBSET Int}]
  BY DEF PriceMaps
<1>9. M \in [S -> UNION {[P -> Seq(X) \ {<<>>}] : P \in SUBSET Int}]
  BY <1>7, <1>8
<1>10. M \in PriceMaps(S, X)
  BY <1>9 DEF PriceMaps
<1>11. ASSUME NEW s \in S, NEW p
       PROVE  AtPrice(M, s, p) = IF s = side /\ p = price THEN list ELSE AtPrice(L, s, p)
  <2>1. M[s] = IF s = side THEN f ELSE L[s]
    BY <1>8
  <2> HIDE DEF M
  <2>2. CASE s = side
    BY <1>5, <2>1, <2>2 DEF AtPrice
  <2>3. CASE s # side
    BY <2>1, <2>3 DEF AtPrice
  <2> QED
    BY <2>2, <2>3
<1>12. StoredAt(L, side, price, list) = M
  BY DEF StoredAt, f, D
<1> HIDE DEF M
<1> QED
  BY <1>10, <1>11, <1>12

LEMMA SamePriceMaps ==
    ASSUME NEW S, NEW X, NEW L \in PriceMaps(S, X), NEW M \in PriceMaps(S, X),
           \A side \in S : \A p \in Int : AtPrice(M, side, p) = AtPrice(L, side, p)
    PROVE  M = L
<1>1. ASSUME NEW side \in S PROVE M[side] = L[side]
  <2>1. /\ DOMAIN L[side] \in SUBSET Int
        /\ \A p : p \in DOMAIN L[side] <=> AtPrice(L, side, p) # <<>>
    BY PriceMapFacts
  <2>2. /\ DOMAIN M[side] \in SUBSET Int
        /\ \A p : p \in DOMAIN M[side] <=> AtPrice(M, side, p) # <<>>
    BY PriceMapFacts
  <2>7. L[side] = [p \in DOMAIN L[side] |-> L[side][p]]
    BY PriceMapForm
  <2>8. M[side] = [p \in DOMAIN M[side] |-> M[side][p]]
    BY PriceMapForm
  <2>3. \A p \in Int : p \in DOMAIN M[side] <=> p \in DOMAIN L[side]
    BY <2>1, <2>2
  <2>4. DOMAIN M[side] = DOMAIN L[side]
    BY <2>1, <2>2, <2>3
  <2>5. \A p \in DOMAIN L[side] : M[side][p] = L[side][p]
    BY <2>1, <2>4 DEF AtPrice
  <2>6. M[side] = [p \in DOMAIN L[side] |-> L[side][p]]
    BY <2>8, <2>4, <2>5
  <2> QED
    BY <2>7, <2>6
<1>2. M = [side \in S |-> M[side]] /\ L = [side \in S |-> L[side]]
  BY DEF PriceMaps
<1> QED
  BY <1>1, <1>2

(* A finite set of integers has a largest element and a smallest one.       *)
LEMMA ExtremesExist ==
    ASSUME NEW S, S \in SUBSET Int, IsFiniteSet(S), S # {}
    PROVE  /\ \E x \in S : \A y \in S : x >= y
           /\ \E x \in S : \A y \in S : x <= y
<1> DEFINE Bounded(X) == /\ \E x \in X : \A y \in X : x >= y
                         /\ \E x \in X : \A y \in X : x <= y
           T == {X \in SUBSET S : X = {} \/ Bounded(X)}
<1>1. {} \in T
  OBVIOUS
<1>2. ASSUME NEW X \in SUBSET S, X \in T, NEW z \in S \ X
      PROVE  X \union {z} \in T
  <2>1. CASE X = {}
    <3>1. Bounded({z})
      OBVIOUS
    <3> QED
      BY <2>1, <3>1
  <2>2. CASE Bounded(X)
    <3>1. PICK a \in X : \A y \in X : a >= y
      BY <2>2
    <3>2. PICK b \in X : \A y \in X : b <= y
      BY <2>2
    <3>3. \E x \in X \union {z} : \A y \in X \union {z} : x >= y
      <4>1. CASE z >= a
        BY <3>1, <4>1
      <4>2. CASE a >= z
        BY <3>1, <4>2
      <4> QED
        BY <4>1, <4>2
    <3>4. \E x \in X \union {z} : \A y \in X \union {z} : x <= y
      <4>1. CASE z <= b
        BY <3>2, <4>1
      <4>2. CASE b <= z
        BY <3>2, <4>2
      <4> QED
        BY <4>1, <4>2
    <3> QED
      BY <3>3, <3>4
  <2> QED
    BY <1>2, <2>1, <2>2
<1> HIDE DEF T
<1>3. SUBSET S \subseteq T
  BY <1>1, <1>2, SubsetInduction
<1>4. S \in T
  BY <1>3
<1> QED
  BY <1>4 DEF T
=============================================================================
