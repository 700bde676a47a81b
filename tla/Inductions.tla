----------------------------- MODULE Inductions -----------------------------
(***************************************************************************)
(* What the proofs need of the recursive functions of the models.          *)
(*                                                                         *)
(* The first part is about sums.  Every total of the models is             *)
(* SumFunctionOnSet(amount, S): the amounts of the calls, exposures or     *)
(* rounds in a finite set S.  The fold behind it is a recursive function   *)
(* on the subsets of S that takes an element by CHOOSE; it is shown to     *)
(* exist, to be independent of the choices, and to be additive and         *)
(* monotone.                                                               *)
(*                                                                         *)
(* The second part is about the trees of Merkle: a proof that verifies     *)
(* against the root of a tree is of an entry of that tree, or of a tree    *)
(* that begins with its entries, and the consistency proof the log makes   *)
(* of two such trees verifies.                                             *)
(*                                                                         *)
(* Each induction is on a natural number, the size of a set, the width of  *)
(* a span or the steps of a walk, and has the shape of a least             *)
(* counterexample: the numbers at which it goes wrong are a set of         *)
(* naturals, its least element is one step away from one that does not.    *)
(***************************************************************************)
EXTENDS Merkle, FiniteSetsExt, FiniteSetTheorems, SequenceTheorems, TLAPS

(* A nonempty set of naturals has a least element. *)
LEMMA LeastCounterexample ==
  ASSUME NEW T, T \subseteq Nat, T # {}
  PROVE  \E m \in T : \A k \in T : m <= k
<1>1. PICK x \in T : \A y \in T : ~(<<y, x>> \in OpToRel(<, Nat))
  BY NatLessThanWellFounded, WFMin
<1>2. ASSUME NEW k \in T PROVE x <= k
  <2>1. ~(k < x)
    BY <1>1, <1>2 DEF OpToRel
  <2>2. QED
    BY <2>1
<1>3. QED
  BY <1>2

-----------------------------------------------------------------------------
(* The recursion of the fold, of a function g on the subsets of S.         *)
SumBody(f, g, s) ==
  IF s = {} THEN 0
  ELSE LET x == CHOOSE x \in s : TRUE IN f[x] + g[s \ {x}]

SumRecOn(f, D, g) == g = [s \in D |-> SumBody(f, g, s)]

SumRec(f, S, g) == SumRecOn(f, SUBSET S, g)

(* The library sums through that recursion. *)
LEMMA SumIsRec ==
  ASSUME NEW f, NEW S
  PROVE  SumFunctionOnSet(f, S) = (CHOOSE g : SumRec(f, S, g))[S]
BY DEF SumFunctionOnSet, FoldFunctionOnSet, MapThenFoldSet, SumRec, SumRecOn, SumBody

(* The subsets of at most n elements: g is built for n + 1 from g for n. *)
SmallSubsets(S, n) == {s \in SUBSET S : IsFiniteSet(s) /\ Cardinality(s) <= n}

(* A finite set without one of its elements is one smaller. *)
LEMMA SmallerRest ==
  ASSUME NEW s, IsFiniteSet(s), NEW x \in s
  PROVE  /\ IsFiniteSet(s \ {x}) /\ Cardinality(s \ {x}) = Cardinality(s) - 1
         /\ Cardinality(s) \in Nat \ {0}
<1>1. IsFiniteSet(s \ {x}) /\ Cardinality(s \ {x}) = Cardinality(s) - 1
  BY FS_RemoveElement
<1>2. Cardinality(s) \in Nat /\ Cardinality(s \ {x}) \in Nat
  BY <1>1, FS_CardinalityType
<1>3. Cardinality(s) # 0
  BY <1>1, <1>2
<1>4. QED
  BY <1>1, <1>2, <1>3

(* For every n a function satisfies the recursion on the small subsets. *)
LEMMA SumRecUpTo ==
  ASSUME NEW f, NEW S, NEW n \in Nat
  PROVE  \E g : SumRecOn(f, SmallSubsets(S, n), g)
<1> DEFINE Bad == {m \in Nat : ~\E g : SumRecOn(f, SmallSubsets(S, m), g)}
<1>1. SUFFICES ASSUME Bad # {} PROVE FALSE
  OBVIOUS
<1>2. PICK m \in Bad : \A k \in Bad : m <= k
  BY <1>1, LeastCounterexample
<1>3. m \in Nat /\ ~\E g : SumRecOn(f, SmallSubsets(S, m), g)
  BY <1>2
<1>4. CASE m = 0
  <2> DEFINE g == [s \in SmallSubsets(S, 0) |-> 0]
  <2>1. ASSUME NEW s \in SmallSubsets(S, 0) PROVE s = {}
    <3>1. IsFiniteSet(s) /\ Cardinality(s) <= 0
      BY DEF SmallSubsets
    <3>2. Cardinality(s) \in Nat
      BY <3>1, FS_CardinalityType
    <3>3. Cardinality(s) = 0
      BY <3>1, <3>2
    <3>4. QED
      BY <3>1, <3>3, FS_EmptySet
  <2>2. g = [s \in SmallSubsets(S, 0) |-> SumBody(f, g, s)]
    BY <2>1 DEF SumBody
  <2>3. QED
    BY <1>4, <1>3, <2>2 DEF SumRecOn
<1>5. CASE m # 0
  <2>1. m - 1 \in Nat /\ m - 1 \notin Bad
    BY <1>2, <1>5
  <2>2. PICK g : g = [s \in SmallSubsets(S, m - 1) |-> SumBody(f, g, s)]
    BY <2>1 DEF SumRecOn
  <2> DEFINE h == [s \in SmallSubsets(S, m) |-> SumBody(f, g, s)]
  <2>3. ASSUME NEW s \in SmallSubsets(S, m), s # {}, NEW x \in s
        PROVE  s \ {x} \in SmallSubsets(S, m - 1) /\ s \ {x} \in SmallSubsets(S, m)
    <3>1. s \in SUBSET S /\ IsFiniteSet(s) /\ Cardinality(s) <= m
      BY DEF SmallSubsets
    <3>2. IsFiniteSet(s \ {x}) /\ Cardinality(s \ {x}) = Cardinality(s) - 1 /\ Cardinality(s) \in Nat
      BY <3>1, SmallerRest
    <3>3. Cardinality(s \ {x}) <= m - 1 /\ Cardinality(s \ {x}) <= m
      BY <3>1, <3>2, <1>3
    <3>4. QED
      BY <3>1, <3>2, <3>3 DEF SmallSubsets
  <2>4. ASSUME NEW s \in SmallSubsets(S, m - 1) PROVE h[s] = g[s]
    <3>1. s \in SmallSubsets(S, m)
      <4>1. s \in SUBSET S /\ IsFiniteSet(s) /\ Cardinality(s) <= m - 1
        BY DEF SmallSubsets
      <4>2. Cardinality(s) \in Nat
        BY <4>1, FS_CardinalityType
      <4>3. Cardinality(s) <= m
        BY <4>1, <4>2, <1>3
      <4>4. QED
        BY <4>1, <4>3 DEF SmallSubsets
    <3>2. QED
      BY <2>2, <3>1
  <2>5. ASSUME NEW s \in SmallSubsets(S, m) PROVE SumBody(f, g, s) = SumBody(f, h, s)
    <3>1. CASE s = {}
      BY <3>1 DEF SumBody
    <3>2. CASE s # {}
      <4> DEFINE x == CHOOSE x \in s : TRUE
      <4>1. x \in s
        BY <3>2
      <4>2. g[s \ {x}] = h[s \ {x}]
        BY <4>1, <2>3, <2>4, <3>2
      <4>3. QED
        BY <4>2, <3>2 DEF SumBody
    <3>3. QED
      BY <3>1, <3>2
  <2>6. h = [s \in SmallSubsets(S, m) |-> SumBody(f, h, s)]
    <3> HIDE DEF h
    <3>1. [s \in SmallSubsets(S, m) |-> SumBody(f, g, s)] = [s \in SmallSubsets(S, m) |-> SumBody(f, h, s)]
      BY <2>5
    <3>2. QED
      BY <3>1 DEF h
  <2>7. QED
    BY <1>3, <2>6 DEF SumRecOn
<1>6. QED
  BY <1>4, <1>5

(* For a finite S, one satisfies it on all of them. *)
LEMMA SumRecExists ==
  ASSUME NEW f, NEW S, IsFiniteSet(S)
  PROVE  \E g : SumRec(f, S, g)
<1>1. Cardinality(S) \in Nat
  BY FS_CardinalityType
<1>2. SmallSubsets(S, Cardinality(S)) = SUBSET S
  <2>1. ASSUME NEW s \in SUBSET S
        PROVE  IsFiniteSet(s) /\ Cardinality(s) <= Cardinality(S)
    BY FS_Subset
  <2>2. QED
    BY <2>1 DEF SmallSubsets
<1>3. \E g : SumRecOn(f, SmallSubsets(S, Cardinality(S)), g)
  BY <1>1, SumRecUpTo
<1>4. QED
  BY <1>2, <1>3 DEF SumRec

(* So the function the fold chooses satisfies it. *)
LEMMA SumRecHolds ==
  ASSUME NEW f, NEW S, IsFiniteSet(S)
  PROVE  SumRec(f, S, CHOOSE g : SumRec(f, S, g))
BY SumRecExists

(* Two functions that satisfy it agree wherever both are defined, so the set
   a total started from does not matter. *)
LEMMA SumRecAgree ==
  ASSUME NEW f, NEW S, NEW T, NEW g, NEW h, SumRec(f, S, g), SumRec(f, T, h),
         NEW s, IsFiniteSet(s), s \subseteq S, s \subseteq T
  PROVE  g[s] = h[s]
<1> DEFINE Differ(u) == IsFiniteSet(u) /\ u \subseteq S /\ u \subseteq T /\ g[u] # h[u]
           Bad == {n \in Nat : \E u : Differ(u) /\ Cardinality(u) = n}
<1>1. SUFFICES ASSUME Differ(s) PROVE FALSE
  OBVIOUS
<1>2. Cardinality(s) \in Bad
  BY <1>1, FS_CardinalityType
<1>3. PICK n \in Bad : \A k \in Bad : n <= k
  BY <1>2, LeastCounterexample
<1>4. PICK u : Differ(u) /\ Cardinality(u) = n
  BY <1>3
<1>5. g[u] = SumBody(f, g, u) /\ h[u] = SumBody(f, h, u)
  BY <1>4 DEF SumRec, SumRecOn
<1>6. u # {}
  BY <1>4, <1>5 DEF SumBody
<1> DEFINE x == CHOOSE x \in u : TRUE
<1>7. x \in u
  BY <1>6
<1>8. IsFiniteSet(u \ {x}) /\ Cardinality(u \ {x}) = n - 1 /\ n \in Nat \ {0}
  BY <1>4, <1>7, SmallerRest
<1>9. n - 1 \in Nat /\ ~(n <= n - 1)
  BY <1>8
<1>10. n - 1 \notin Bad
  BY <1>3, <1>9
<1>11. g[u \ {x}] = h[u \ {x}]
  BY <1>4, <1>8, <1>9, <1>10
<1>12. g[u] = h[u]
  BY <1>5, <1>6, <1>11 DEF SumBody
<1>13. QED
  BY <1>4, <1>12

(* One step of the fold: some element, and the total of the others. *)
LEMMA SumChosen ==
  ASSUME NEW f, NEW S, IsFiniteSet(S), S # {}
  PROVE  \E x \in S : SumFunctionOnSet(f, S) = f[x] + SumFunctionOnSet(f, S \ {x})
<1> DEFINE g == CHOOSE g : SumRec(f, S, g)
           x == CHOOSE x \in S : TRUE
           h == CHOOSE h : SumRec(f, S \ {x}, h)
<1>1. x \in S
  OBVIOUS
<1>2. IsFiniteSet(S \ {x})
  BY FS_RemoveElement
<1>3. SumRec(f, S, g) /\ SumRec(f, S \ {x}, h)
  BY <1>2, SumRecHolds
<1>4. SumFunctionOnSet(f, S) = g[S] /\ SumFunctionOnSet(f, S \ {x}) = h[S \ {x}]
  BY SumIsRec
<1> HIDE DEF g, h
<1>5. g[S \ {x}] = h[S \ {x}]
  BY <1>2, <1>3, SumRecAgree
<1>6. g[S] = SumBody(f, g, S)
  BY <1>3 DEF SumRec, SumRecOn
<1>7. g[S] = f[x] + g[S \ {x}]
  BY <1>6 DEF SumBody
<1>8. QED
  BY <1>1, <1>4, <1>5, <1>7

-----------------------------------------------------------------------------
(* Nothing spent is zero. *)
LEMMA SumEmpty == ASSUME NEW f PROVE SumFunctionOnSet(f, {}) = 0
<1> DEFINE g == CHOOSE g : SumRec(f, {}, g)
<1>1. SumRec(f, {}, g)
  BY FS_EmptySet, SumRecHolds
<1>2. SumFunctionOnSet(f, {}) = g[{}]
  BY SumIsRec
<1> HIDE DEF g
<1>3. QED
  BY <1>1, <1>2 DEF SumRec, SumRecOn, SumBody

(* A total of natural amounts is natural. *)
LEMMA SumTyped ==
  ASSUME NEW f, NEW S, IsFiniteSet(S), \A y \in S : f[y] \in Nat
  PROVE  SumFunctionOnSet(f, S) \in Nat
<1> DEFINE Wrong(u) == IsFiniteSet(u) /\ (\A y \in u : f[y] \in Nat) /\ SumFunctionOnSet(f, u) \notin Nat
           Bad == {n \in Nat : \E u : Wrong(u) /\ Cardinality(u) = n}
<1>1. SUFFICES ASSUME Wrong(S) PROVE FALSE
  OBVIOUS
<1>2. Cardinality(S) \in Bad
  BY <1>1, FS_CardinalityType
<1>3. PICK n \in Bad : \A k \in Bad : n <= k
  BY <1>2, LeastCounterexample
<1>4. PICK u : Wrong(u) /\ Cardinality(u) = n
  BY <1>3
<1>5. u # {}
  BY <1>4, SumEmpty
<1>6. PICK x \in u : SumFunctionOnSet(f, u) = f[x] + SumFunctionOnSet(f, u \ {x})
  BY <1>4, <1>5, SumChosen
<1>7. IsFiniteSet(u \ {x}) /\ Cardinality(u \ {x}) = n - 1 /\ n \in Nat \ {0}
  BY <1>4, SmallerRest
<1>8. n - 1 \in Nat /\ ~(n <= n - 1)
  BY <1>7
<1>9. ~Wrong(u \ {x})
  BY <1>3, <1>7, <1>8
<1>10. SumFunctionOnSet(f, u \ {x}) \in Nat
  BY <1>4, <1>7, <1>9
<1>11. f[x] \in Nat
  BY <1>4
<1>12. SumFunctionOnSet(f, u) \in Nat
  BY <1>6, <1>10, <1>11
<1>13. QED
  BY <1>4, <1>12

(* Any element may be taken first: the total does not depend on the order in
   which the fold visits the calls. *)
LEMMA SumRemove ==
  ASSUME NEW f, NEW S, IsFiniteSet(S), \A y \in S : f[y] \in Nat, NEW x \in S
  PROVE  SumFunctionOnSet(f, S) = f[x] + SumFunctionOnSet(f, S \ {x})
<1> DEFINE Sum(u) == SumFunctionOnSet(f, u)
           Wrong(u) == IsFiniteSet(u) /\ (\A y \in u : f[y] \in Nat)
                         /\ \E y \in u : Sum(u) # f[y] + Sum(u \ {y})
           Bad == {n \in Nat : \E u : Wrong(u) /\ Cardinality(u) = n}
<1>1. SUFFICES ASSUME Wrong(S) PROVE FALSE
  OBVIOUS
<1>2. Cardinality(S) \in Bad
  BY <1>1, FS_CardinalityType
<1>3. PICK n \in Bad : \A k \in Bad : n <= k
  BY <1>2, LeastCounterexample
<1>4. PICK u : Wrong(u) /\ Cardinality(u) = n
  BY <1>3
<1>5. PICK y \in u : Sum(u) # f[y] + Sum(u \ {y})
  BY <1>4
<1>6. PICK z \in u : Sum(u) = f[z] + Sum(u \ {z})
  BY <1>4, SumChosen
<1>7. ASSUME NEW v \in u
      PROVE  /\ IsFiniteSet(u \ {v}) /\ Cardinality(u \ {v}) = n - 1 /\ n \in Nat \ {0}
             /\ ~Wrong(u \ {v})
  <2>1. IsFiniteSet(u \ {v}) /\ Cardinality(u \ {v}) = n - 1 /\ n \in Nat \ {0}
    BY <1>4, SmallerRest
  <2>2. n - 1 \in Nat /\ ~(n <= n - 1)
    BY <2>1
  <2>3. QED
    BY <1>3, <2>1, <2>2
<1>8. y # z
  BY <1>5, <1>6
<1>9. Sum(u \ {z}) = f[y] + Sum((u \ {z}) \ {y})
  BY <1>4, <1>7, <1>8
<1>10. Sum(u \ {y}) = f[z] + Sum((u \ {y}) \ {z})
  BY <1>4, <1>7, <1>8
<1>11. (u \ {y}) \ {z} = (u \ {z}) \ {y}
  OBVIOUS
<1>12. IsFiniteSet((u \ {z}) \ {y})
  BY <1>7, FS_RemoveElement
<1>13. Sum((u \ {z}) \ {y}) \in Nat /\ f[y] \in Nat /\ f[z] \in Nat
  BY <1>4, <1>12, SumTyped
<1> HIDE DEF Sum
<1>14. Sum(u \ {y}) = f[z] + Sum((u \ {z}) \ {y})
  BY <1>10, <1>11
<1>15. \A a, b, c \in Nat : a + (b + c) = b + (a + c)
  OBVIOUS
<1>16. f[z] + (f[y] + Sum((u \ {z}) \ {y})) = f[y] + (f[z] + Sum((u \ {z}) \ {y}))
  BY <1>13, <1>15
<1>17. Sum(u) = f[y] + Sum(u \ {y})
  BY <1>6, <1>9, <1>14, <1>16
<1>18. QED
  BY <1>5, <1>17

(* One more call adds its amount. *)
LEMMA SumAdd ==
  ASSUME NEW f, NEW S, IsFiniteSet(S), \A y \in S : f[y] \in Nat, NEW x, x \notin S, f[x] \in Nat
  PROVE  SumFunctionOnSet(f, S \cup {x}) = f[x] + SumFunctionOnSet(f, S)
<1>1. IsFiniteSet(S \cup {x})
  BY FS_AddElement
<1>2. (S \cup {x}) \ {x} = S
  OBVIOUS
<1>3. SumFunctionOnSet(f, S \cup {x}) = f[x] + SumFunctionOnSet(f, (S \cup {x}) \ {x})
  BY <1>1, SumRemove
<1>4. QED
  BY <1>2, <1>3

(* Totals over disjoint sets add up. *)
LEMMA SumDisjoint ==
  ASSUME NEW f, NEW S, NEW T, IsFiniteSet(S), IsFiniteSet(T), S \cap T = {},
         \A y \in S \cup T : f[y] \in Nat
  PROVE  SumFunctionOnSet(f, S \cup T) = SumFunctionOnSet(f, S) + SumFunctionOnSet(f, T)
<1> DEFINE Sum(u) == SumFunctionOnSet(f, u)
           Wrong(u) == u \subseteq T /\ Sum(S \cup u) # Sum(S) + Sum(u)
           Bad == {n \in Nat : \E u : Wrong(u) /\ Cardinality(u) = n}
<1>1. ASSUME NEW u, u \subseteq T PROVE IsFiniteSet(u) /\ Cardinality(u) \in Nat /\ IsFiniteSet(S \cup u)
  BY <1>1, FS_Subset, FS_CardinalityType, FS_Union
<1>2. SUFFICES ASSUME Wrong(T) PROVE FALSE
  OBVIOUS
<1>3. Cardinality(T) \in Bad
  BY <1>2, FS_CardinalityType
<1>4. PICK n \in Bad : \A k \in Bad : n <= k
  BY <1>3, LeastCounterexample
<1>5. PICK u : Wrong(u) /\ Cardinality(u) = n
  BY <1>4
<1>6. Sum(S) \in Nat
  BY SumTyped
<1>7. u # {}
  <2>1. S \cup {} = S /\ Sum({}) = 0
    BY SumEmpty
  <2> HIDE DEF Sum
  <2>2. QED
    BY <1>5, <1>6, <2>1
<1>8. PICK x : x \in u
  BY <1>7
<1>9. IsFiniteSet(u \ {x}) /\ Cardinality(u \ {x}) = n - 1 /\ n \in Nat \ {0}
  BY <1>1, <1>5, <1>8, SmallerRest
<1>10. n - 1 \in Nat /\ ~(n <= n - 1)
  BY <1>9
<1>11. ~Wrong(u \ {x})
  BY <1>4, <1>9, <1>10
<1>12. Sum(S \cup (u \ {x})) = Sum(S) + Sum(u \ {x})
  BY <1>5, <1>11
<1>13. (S \cup u) \ {x} = S \cup (u \ {x})
  BY <1>5, <1>8
<1>14. Sum(u) = f[x] + Sum(u \ {x})
  BY <1>1, <1>5, <1>8, SumRemove
<1>15. Sum(S \cup u) = f[x] + Sum(S \cup (u \ {x}))
  <2>1. IsFiniteSet(S \cup u) /\ x \in S \cup u /\ \A y \in S \cup u : f[y] \in Nat
    BY <1>1, <1>5, <1>8
  <2>2. Sum(S \cup u) = f[x] + Sum((S \cup u) \ {x})
    BY <2>1, SumRemove
  <2>3. QED
    BY <1>13, <2>2
<1>16. Sum(u \ {x}) \in Nat /\ f[x] \in Nat
  BY <1>5, <1>8, <1>9, SumTyped
<1> HIDE DEF Sum
<1>17. Sum(S \cup u) = Sum(S) + Sum(u)
  BY <1>6, <1>12, <1>14, <1>15, <1>16
<1>18. QED
  BY <1>5, <1>17

(* More calls never total less. *)
LEMMA SumMonotone ==
  ASSUME NEW f, NEW S, NEW T, IsFiniteSet(T), S \subseteq T, \A y \in T : f[y] \in Nat
  PROVE  SumFunctionOnSet(f, S) <= SumFunctionOnSet(f, T)
<1> DEFINE Sum(u) == SumFunctionOnSet(f, u)
<1>1. IsFiniteSet(S) /\ IsFiniteSet(T \ S)
  BY FS_Subset
<1>2. Sum(S \cup (T \ S)) = Sum(S) + Sum(T \ S)
  BY <1>1, SumDisjoint
<1>3. S \cup (T \ S) = T
  OBVIOUS
<1>4. Sum(S) \in Nat /\ Sum(T \ S) \in Nat
  BY <1>1, SumTyped
<1> HIDE DEF Sum
<1>5. Sum(T) = Sum(S) + Sum(T \ S)
  BY <1>2, <1>3
<1>6. \A a, b, c \in Nat : a = b + c => b <= a
  OBVIOUS
<1>7. Sum(T) \in Nat
  BY SumTyped DEF Sum
<1>8. Sum(S) <= Sum(T)
  BY <1>4, <1>5, <1>6, <1>7
<1>9. QED
  BY <1>8 DEF Sum

-----------------------------------------------------------------------------
(* Trees: the hashes of spans, and powers of two.                          *)

(* No two different things have one hash. *)
LEMMA HashesApart ==
  /\ \A a, b : LeafHash(a) = LeafHash(b) => a = b
  /\ \A l, r, x, y : NodeHash(l, r) = NodeHash(x, y) => l = x /\ r = y
  /\ \A a, l, r : LeafHash(a) # NodeHash(l, r) /\ LeafHash(a) # EmptyRoot /\ NodeHash(l, r) # EmptyRoot
  /\ IsHash(EmptyRoot) /\ \A a, l, r : IsHash(LeafHash(a)) /\ IsHash(NodeHash(l, r))
BY DEF LeafHash, NodeHash, EmptyRoot, IsHash, NotAHash

-----------------------------------------------------------------------------
(* The split point.                                                        *)

Doubled(n, g, k) == IF 2 * k < n THEN g[2 * k] ELSE k

DoublesOn(n, D, g) == g = [k \in D |-> Doubled(n, g, k)]

LEMMA SplitIsDoubled == ASSUME NEW n PROVE SplitPoint(n) = (CHOOSE g : DoublesOn(n, 1 .. n, g))[1]
BY DEF SplitPoint, DoublesOn, Doubled

(* The doubling ends: it is defined from above. *)
LEMMA DoublingExists == ASSUME NEW n \in Nat PROVE \E g : DoublesOn(n, 1 .. n, g)
<1> DEFINE Bad == {w \in Nat : w <= n /\ ~\E g : DoublesOn(n, (n - w) + 1 .. n, g)}
<1>1. Bad = {}
  <2> SUFFICES ASSUME Bad # {} PROVE FALSE
    OBVIOUS
  <2>1. PICK w \in Bad : \A v \in Bad : w <= v
    BY LeastCounterexample
  <2>2. w \in Nat /\ w <= n /\ ~\E g : DoublesOn(n, (n - w) + 1 .. n, g)
    BY <2>1
  <2>3. CASE w = 0
    <3> DEFINE g == [k \in {} |-> Doubled(n, 0, k)]
    <3>1. (n - w) + 1 .. n = {}
      BY <2>3
    <3>2. g = [k \in {} |-> Doubled(n, g, k)]
      OBVIOUS
    <3>3. QED
      BY <2>2, <3>1, <3>2 DEF DoublesOn
  <2>4. CASE w # 0
    <3> DEFINE D == (n - w) + 1 .. n
               E == (n - (w - 1)) + 1 .. n
    <3>1. w - 1 \in Nat /\ w - 1 <= n /\ ~(w <= w - 1)
      BY <2>2, <2>4
    <3>2. w - 1 \notin Bad
      BY <2>1, <3>1
    <3>3. PICK g : g = [k \in E |-> Doubled(n, g, k)]
      BY <3>1, <3>2 DEF DoublesOn
    <3> DEFINE h == [k \in D |-> Doubled(n, g, k)]
    <3>4. \A k \in E : h[k] = g[k]
      BY <2>2, <3>3
    <3>5. ASSUME NEW k \in D PROVE Doubled(n, g, k) = Doubled(n, h, k)
      <4>1. 2 * k < n => 2 * k \in E
        BY <2>2
      <4> HIDE DEF h, E
      <4>2. QED
        BY <3>4, <4>1 DEF Doubled
    <3>6. h = [k \in D |-> Doubled(n, h, k)]
      <4> HIDE DEF h
      <4>1. [k \in D |-> Doubled(n, g, k)] = [k \in D |-> Doubled(n, h, k)]
        BY <3>5
      <4>2. QED
        BY <4>1 DEF h
    <3>7. QED
      BY <3>6, <2>2 DEF DoublesOn
  <2>5. QED
    BY <2>3, <2>4
<1>2. n \in Nat /\ n \notin Bad
  BY <1>1
<1>3. (n - n) + 1 .. n = 1 .. n
  OBVIOUS
<1>4. QED
  BY <1>2, <1>3

(* Powers of two: what every set holds that holds 1 and is closed under doubling. *)
ClosedUnderDoubling(S) == 1 \in S /\ \A p \in S : 2 * p \in S

Powers == {p \in Nat : \A S \in SUBSET Nat : ClosedUnderDoubling(S) => p \in S}

LEMMA PowersDouble == Powers \subseteq Nat \ {0} /\ ClosedUnderDoubling(Powers)
<1>1. Powers \subseteq Nat \ {0}
  <2>1. ClosedUnderDoubling(Nat \ {0})
    BY DEF ClosedUnderDoubling
  <2>2. QED
    BY <2>1 DEF Powers
<1>2. \A p \in Powers : 2 * p \in Powers
  BY DEF Powers, ClosedUnderDoubling
<1>3. 1 \in Powers
  BY DEF Powers, ClosedUnderDoubling
<1>4. QED
  BY <1>1, <1>2, <1>3 DEF ClosedUnderDoubling

(* The split point of n is the power of two below n that is at least its half. *)
LEMMA SplitInside ==
  ASSUME NEW n \in Nat, n >= 2
  PROVE  /\ SplitPoint(n) \in 1 .. n - 1
         /\ SplitPoint(n) \in Powers /\ n <= 2 * SplitPoint(n)
<1> DEFINE g == CHOOSE g : DoublesOn(n, 1 .. n, g)
<1>1. DoublesOn(n, 1 .. n, g)
  BY DoublingExists
<1>2. SplitPoint(n) = g[1]
  BY SplitIsDoubled
<1> HIDE DEF g
<1> DEFINE Good(k) == g[k] \in 1 .. n - 1 /\ g[k] \in Powers /\ n <= 2 * g[k]
           Bad == {w \in Nat : \E k \in Powers : k < n /\ w = n - k /\ ~Good(k)}
<1>3. Bad = {}
  <2> SUFFICES ASSUME Bad # {} PROVE FALSE
    OBVIOUS
  <2>1. PICK w \in Bad : \A v \in Bad : w <= v
    BY LeastCounterexample
  <2>2. PICK k \in Powers : k < n /\ w = n - k /\ ~Good(k)
    BY <2>1
  <2>3. k \in Nat \ {0} /\ 2 * k \in Powers
    BY PowersDouble DEF ClosedUnderDoubling
  <2>4. g[k] = Doubled(n, g, k)
    <3>1. k \in 1 .. n
      BY <2>2, <2>3
    <3>2. QED
      BY ONLY <3>1, <1>1 DEF DoublesOn
  <2>5. CASE 2 * k < n
    <3>1. n - 2 * k \in Nat /\ ~(w <= n - 2 * k)
      BY <2>2, <2>3, <2>5
    <3>2. Good(2 * k)
      <4> HIDE DEF Good
      <4>1. QED
        BY <2>1, <2>3, <2>5, <3>1
    <3>3. g[k] = g[2 * k]
      BY <2>4, <2>5 DEF Doubled
    <3>4. QED
      BY <2>2, <3>2, <3>3
  <2>6. CASE ~(2 * k < n)
    <3>1. g[k] = k
      BY <2>4, <2>6 DEF Doubled
    <3>2. QED
      BY <2>2, <2>3, <2>6, <3>1
  <2>7. QED
    BY <2>5, <2>6
<1>4. 1 \in Powers
  BY PowersDouble DEF ClosedUnderDoubling
<1>5. Good(1)
  <2> HIDE DEF Good
  <2>1. n - 1 \in Nat /\ 1 < n
    OBVIOUS
  <2>2. QED
    BY <1>3, <1>4, <2>1
<1>6. QED
  BY <1>2, <1>5

-----------------------------------------------------------------------------
(* The hash of every span.                                                 *)

HashOf(entries, g, se) ==
  LET s == se[1]  e == se[2]  k == SplitPoint(e - s)
  IN IF e = s THEN EmptyRoot
     ELSE IF e = s + 1 THEN LeafHash(entries[e])
     ELSE NodeHash(g[<<s, s + k>>], g[<<s + k, e>>])

HashesOn(entries, D, g) == g = [se \in D |-> HashOf(entries, g, se)]

LEMMA SpanHashIs == ASSUME NEW entries PROVE SpanHash(entries) = CHOOSE g : HashesOn(entries, Spans(entries), g)
BY DEF SpanHash, HashesOn, HashOf

(* The spans of width w at most. *)
Narrow(entries, w) == {se \in Spans(entries) : se[2] - se[1] <= w}

(* A span of width 2 or more is cut into two that are narrower. *)
LEMMA Halves ==
  ASSUME NEW entries, Len(entries) \in Nat, NEW se \in Spans(entries), se[2] - se[1] >= 2,
         NEW k, k = SplitPoint(se[2] - se[1])
  PROVE  /\ se[1] \in Nat /\ se[2] \in Nat /\ k \in 1 .. (se[2] - se[1]) - 1
         /\ <<se[1], se[1] + k>> \in Spans(entries) /\ <<se[1] + k, se[2]>> \in Spans(entries)
<1>1. se[1] \in 0 .. Len(entries) /\ se[2] \in 0 .. Len(entries) /\ se[1] <= se[2]
  BY DEF Spans
<1>2. k \in 1 .. (se[2] - se[1]) - 1
  BY <1>1, SplitInside
<1>3. se[1] + k \in 0 .. Len(entries) /\ se[1] <= se[1] + k /\ se[1] + k <= se[2]
  BY <1>1, <1>2
<1>4. QED
  BY <1>1, <1>2, <1>3 DEF Spans

LEMMA HashesExist ==
  ASSUME NEW entries, Len(entries) \in Nat
  PROVE  \E g : HashesOn(entries, Spans(entries), g)
<1> DEFINE Bad == {w \in Nat : ~\E g : HashesOn(entries, Narrow(entries, w), g)}
<1>1. Bad = {}
  <2> SUFFICES ASSUME Bad # {} PROVE FALSE
    OBVIOUS
  <2>1. PICK w \in Bad : \A v \in Bad : w <= v
    BY LeastCounterexample
  <2>2. w \in Nat /\ ~\E g : HashesOn(entries, Narrow(entries, w), g)
    BY <2>1
  <2> DEFINE E == IF w = 0 THEN {} ELSE Narrow(entries, w - 1)
  <2>3. PICK g : g = [se \in E |-> HashOf(entries, g, se)]
    <3>1. CASE w = 0
      <4> DEFINE g == [se \in {} |-> 0]
      <4>1. g = [se \in {} |-> HashOf(entries, g, se)]
        OBVIOUS
      <4>2. QED
        BY <3>1, <4>1
    <3>2. CASE w # 0
      <4>1. w - 1 \in Nat /\ w - 1 \notin Bad
        BY <2>1, <3>2
      <4>2. QED
        BY <3>2, <4>1 DEF HashesOn
    <3>3. QED
      BY <3>1, <3>2
  <2> DEFINE h == [se \in Narrow(entries, w) |-> HashOf(entries, g, se)]
  <2>4. ASSUME NEW se \in E PROVE h[se] = g[se]
    <3>1. se \in Narrow(entries, w)
      <4>1. w # 0 /\ se \in Spans(entries) /\ se[2] - se[1] <= w - 1
        BY DEF Narrow
      <4>2. se[1] \in Nat /\ se[2] \in Nat
        BY <4>1 DEF Spans
      <4>3. QED
        BY <4>1, <4>2, <2>2 DEF Narrow
    <3>2. QED
      BY <2>3, <3>1
  <2>5. ASSUME NEW se \in Narrow(entries, w) PROVE HashOf(entries, g, se) = HashOf(entries, h, se)
    <3> DEFINE k == SplitPoint(se[2] - se[1])
    <3>1. se \in Spans(entries) /\ se[2] - se[1] <= w /\ se[1] \in Nat /\ se[2] \in Nat /\ se[1] <= se[2]
      BY DEF Narrow, Spans
    <3>2. CASE se[2] - se[1] >= 2
      <4>1. /\ k \in 1 .. (se[2] - se[1]) - 1
            /\ <<se[1], se[1] + k>> \in Spans(entries) /\ <<se[1] + k, se[2]>> \in Spans(entries)
        BY <3>1, <3>2, Halves
      <4>2. /\ w # 0 /\ (se[1] + k) - se[1] <= w - 1 /\ se[2] - (se[1] + k) <= w - 1
        BY <3>1, <3>2, <4>1, <2>2
      <4>3. <<se[1], se[1] + k>> \in E /\ <<se[1] + k, se[2]>> \in E
        BY <4>1, <4>2 DEF Narrow
      <4> HIDE DEF h, E
      <4>4. QED
        BY <4>3, <2>4 DEF HashOf
    <3>3. CASE ~(se[2] - se[1] >= 2)
      <4>1. se[2] = se[1] \/ se[2] = se[1] + 1
        BY <3>1, <3>3
      <4>2. QED
        BY <4>1 DEF HashOf
    <3>4. QED
      BY <3>2, <3>3
  <2>6. h = [se \in Narrow(entries, w) |-> HashOf(entries, h, se)]
    <3> HIDE DEF h
    <3>1. [se \in Narrow(entries, w) |-> HashOf(entries, g, se)] = [se \in Narrow(entries, w) |-> HashOf(entries, h, se)]
      BY <2>5
    <3>2. QED
      BY <3>1 DEF h
  <2>7. QED
    BY <2>2, <2>6 DEF HashesOn
<1>2. Narrow(entries, Len(entries)) = Spans(entries)
  BY DEF Narrow, Spans
<1>3. Len(entries) \notin Bad
  BY <1>1
<1>4. QED
  BY <1>2, <1>3

(* What mth is of a span. *)
LEMMA HashOfSpan ==
  ASSUME NEW entries, Len(entries) \in Nat, NEW s \in 0 .. Len(entries), NEW e \in s .. Len(entries)
  PROVE  LET mth == SpanHash(entries)  k == SplitPoint(e - s) IN
         /\ e = s => mth[<<s, e>>] = EmptyRoot
         /\ e = s + 1 => mth[<<s, e>>] = LeafHash(entries[e])
         /\ e >= s + 2 => /\ k \in 1 .. (e - s) - 1
                          /\ mth[<<s, e>>] = NodeHash(mth[<<s, s + k>>], mth[<<s + k, e>>])
<1> DEFINE g == SpanHash(entries)
           se == <<s, e>>
<1>1. HashesOn(entries, Spans(entries), g)
  BY HashesExist, SpanHashIs
<1>2. se \in Spans(entries) /\ se[1] = s /\ se[2] = e
  BY DEF Spans
<1> HIDE DEF g, se
<1>3. g[se] = HashOf(entries, g, se)
  BY <1>1, <1>2 DEF HashesOn
<1>4. ASSUME e >= s + 2 PROVE SplitPoint(e - s) \in 1 .. (e - s) - 1
  <2>1. e - s \in Nat /\ e - s >= 2
    BY <1>4
  <2>2. QED
    BY <2>1, SplitInside
<1>5. e = s => g[se] = EmptyRoot
  BY <1>2, <1>3 DEF HashOf
<1>6. e = s + 1 => g[se] = LeafHash(entries[e])
  BY <1>2, <1>3 DEF HashOf
<1>7. e >= s + 2 => g[se] = NodeHash(g[<<s, s + SplitPoint(e - s)>>], g[<<s + SplitPoint(e - s), e>>])
  BY <1>2, <1>3 DEF HashOf
<1>8. QED
  BY <1>4, <1>5, <1>6, <1>7 DEF g, se

-----------------------------------------------------------------------------
(* Equal hashes are of equal entries; an inclusion proof that verifies is  *)
(* of an entry.                                                            *)

(* The entries of A[s:e) are those of B[t:f). *)
SameEntries(A, s, e, B, t, f) == e - s = f - t /\ \A i \in 1 .. e - s : A[s + i] = B[t + i]

HashClash(A, B, a, b, c, d) == SpanHash(A)[<<a, b>>] = SpanHash(B)[<<c, d>>] /\ ~SameEntries(A, a, b, B, c, d)

ClashAt(A, B, w) == \E a \in 0 .. Len(A), c \in 0 .. Len(B) :
                      \E b \in a .. Len(A), d \in c .. Len(B) : w = b - a /\ HashClash(A, B, a, b, c, d)

(* Two spans that are cut alike into halves of the same entries hold the same. *)
LEMMA HalvesJoin ==
  ASSUME NEW A, NEW B, NEW a \in Nat, NEW b \in Nat, NEW c \in Nat, NEW d \in Nat, NEW j \in Nat, NEW k \in Nat,
         a + j <= b, c + k <= d,
         SameEntries(A, a, a + j, B, c, c + k), SameEntries(A, a + j, b, B, c + k, d)
  PROVE  j = k /\ SameEntries(A, a, b, B, c, d)
<1>1. j = k /\ b - a = d - c
  BY DEF SameEntries
<1>2. \A i \in 1 .. (a + j) - a : A[a + i] = B[c + i]
  BY DEF SameEntries
<1>3. \A i \in 1 .. b - (a + j) : A[(a + j) + i] = B[(c + k) + i]
  BY DEF SameEntries
<1>4. ASSUME NEW i \in 1 .. b - a PROVE A[a + i] = B[c + i]
  <2>1. CASE i <= j
    <3>1. i \in 1 .. (a + j) - a
      BY <2>1
    <3>2. QED
      BY <1>2, <3>1
  <2>2. CASE ~(i <= j)
    <3>1. i - j \in 1 .. b - (a + j) /\ (a + j) + (i - j) = a + i /\ (c + k) + (i - j) = c + i
      BY <1>1, <2>2
    <3>2. A[(a + j) + (i - j)] = B[(c + k) + (i - j)]
      BY <1>3, <3>1
    <3>3. QED
      BY <3>1, <3>2
  <2>3. QED
    BY <2>1, <2>2
<1>5. QED
  BY <1>1, <1>4 DEF SameEntries

LEMMA NoHashClash ==
  ASSUME NEW A, NEW B, Len(A) \in Nat, Len(B) \in Nat
  PROVE  \A w \in Nat : ~ClashAt(A, B, w)
<1> DEFINE Bad == {w \in Nat : ClashAt(A, B, w)}
<1>1. SUFFICES ASSUME Bad # {} PROVE FALSE
  OBVIOUS
<1>2. PICK w \in Bad : \A v \in Bad : w <= v
  BY <1>1, LeastCounterexample
<1>3. w \in Nat /\ ClashAt(A, B, w) /\ \A v \in Nat : ClashAt(A, B, v) => w <= v
  BY <1>2
<1> HIDE DEF Bad
<1>4. PICK a \in 0 .. Len(A), c \in 0 .. Len(B) :
        \E b \in a .. Len(A), d \in c .. Len(B) : w = b - a /\ HashClash(A, B, a, b, c, d)
  BY <1>3 DEF ClashAt
<1>5. PICK b \in a .. Len(A), d \in c .. Len(B) : w = b - a /\ HashClash(A, B, a, b, c, d)
  BY <1>4
<1> DEFINE j == SplitPoint(b - a)
           k == SplitPoint(d - c)
           x == SpanHash(A)[<<a, b>>]
           y == SpanHash(B)[<<c, d>>]
           xl == SpanHash(A)[<<a, a + j>>]
           xr == SpanHash(A)[<<a + j, b>>]
           yl == SpanHash(B)[<<c, c + k>>]
           yr == SpanHash(B)[<<c + k, d>>]
<1>6. /\ b = a => x = EmptyRoot
      /\ b = a + 1 => x = LeafHash(A[b])
      /\ b >= a + 2 => j \in 1 .. (b - a) - 1 /\ x = NodeHash(xl, xr)
  BY HashOfSpan
<1>7. /\ d = c => y = EmptyRoot
      /\ d = c + 1 => y = LeafHash(B[d])
      /\ d >= c + 2 => k \in 1 .. (d - c) - 1 /\ y = NodeHash(yl, yr)
  BY HashOfSpan
<1>8. x = y /\ ~SameEntries(A, a, b, B, c, d)
  BY <1>5 DEF HashClash
<1>9. /\ a \in Nat /\ b \in Nat /\ c \in Nat /\ d \in Nat /\ a <= b /\ b <= Len(A) /\ c <= d /\ d <= Len(B)
      /\ b = a \/ b = a + 1 \/ b >= a + 2
      /\ d = c \/ d = c + 1 \/ d >= c + 2
  OBVIOUS
<1> HIDE DEF j, k, x, y
<1>10. CASE b = a
  <2>1. d = c
    BY ONLY <1>6, <1>7, <1>8, <1>9, <1>10, HashesApart
  <2>2. QED
    BY <1>8, <1>9, <1>10, <2>1 DEF SameEntries
<1>11. CASE b = a + 1
  <2>1. d = c + 1 /\ A[b] = B[d]
    BY ONLY <1>6, <1>7, <1>8, <1>9, <1>11, HashesApart
  <2>2. b - a = d - c /\ \A i \in 1 .. b - a : i = 1
    BY <1>9, <1>11, <2>1
  <2>3. QED
    BY <1>8, <1>11, <2>1, <2>2 DEF SameEntries
<1>12. CASE b >= a + 2
  <2>1. d >= c + 2 /\ xl = yl /\ xr = yr
    <3> HIDE DEF xl, xr, yl, yr
    <3>1. QED
      BY ONLY <1>6, <1>7, <1>8, <1>9, <1>12, HashesApart
  <2>2. /\ j \in Nat /\ k \in Nat /\ 1 <= j /\ 1 <= k /\ a + j < b /\ c + k < d
        /\ a + j \in a .. Len(A) /\ a + j \in 0 .. Len(A) /\ b \in a + j .. Len(A)
        /\ c + k \in c .. Len(B) /\ c + k \in 0 .. Len(B) /\ d \in c + k .. Len(B)
    BY <1>6, <1>7, <1>9, <1>12, <2>1
  <2>3. SameEntries(A, a, a + j, B, c, c + k)
    <3>1. (a + j) - a \in Nat /\ ~(w <= (a + j) - a)
      BY <1>5, <1>9, <2>2
    <3>2. ~ClashAt(A, B, (a + j) - a)
      BY <1>3, <3>1
    <3>3. ~HashClash(A, B, a, a + j, c, c + k)
      BY <2>2, <3>2 DEF ClashAt
    <3>4. QED
      BY <2>1, <3>3 DEF HashClash
  <2>4. SameEntries(A, a + j, b, B, c + k, d)
    <3>1. b - (a + j) \in Nat /\ ~(w <= b - (a + j))
      BY <1>5, <1>9, <2>2
    <3>2. ~ClashAt(A, B, b - (a + j))
      BY <1>3, <3>1
    <3>3. ~HashClash(A, B, a + j, b, c + k, d)
      BY <2>2, <3>2 DEF ClashAt
    <3>4. QED
      BY <2>1, <3>3 DEF HashClash
  <2>5. a + j <= b /\ c + k <= d
    BY <1>9, <2>2
  <2>6. QED
    BY <1>8, <1>9, <2>2, <2>3, <2>4, <2>5, HalvesJoin
<1>13. QED
  BY <1>9, <1>10, <1>11, <1>12

(* Two spans of one hash hold the same entries, of whatever trees they are. *)
LEMMA SameHashSameEntries ==
  ASSUME NEW A, NEW B, Len(A) \in Nat, Len(B) \in Nat,
         NEW s \in 0 .. Len(A), NEW e \in s .. Len(A), NEW t \in 0 .. Len(B), NEW f \in t .. Len(B),
         SpanHash(A)[<<s, e>>] = SpanHash(B)[<<t, f>>]
  PROVE  SameEntries(A, s, e, B, t, f)
<1>1. e - s \in Nat
  OBVIOUS
<1>2. ~ClashAt(A, B, e - s)
  BY <1>1, NoHashClash
<1>3. ~HashClash(A, B, s, e, t, f)
  BY <1>2 DEF ClashAt
<1>4. QED
  BY <1>3 DEF HashClash

(* So no two lists of entries have one root. *)
LEMMA SameRootSameEntries ==
  ASSUME NEW A, NEW B, Len(A) \in Nat, Len(B) \in Nat, MerkleRoot(A) = MerkleRoot(B)
  PROVE  Len(A) = Len(B) /\ \A i \in 1 .. Len(A) : A[i] = B[i]
<1>1. SameEntries(A, 0, Len(A), B, 0, Len(B))
  BY SameHashSameEntries DEF MerkleRoot
<1>2. Len(A) = Len(B) /\ \A i \in 1 .. Len(A) : A[0 + i] = B[0 + i]
  BY <1>1 DEF SameEntries
<1>3. QED
  BY <1>2

-----------------------------------------------------------------------------
(* Inclusion.                                                              *)

WalkedTo(start, path, g, i) == IF i = 0 THEN start ELSE InclusionStep(g[i - 1], path[i])

WalksOn(start, path, last, g) == g = [i \in 0 .. last |-> WalkedTo(start, path, g, i)]

LEMMA WalkIs ==
  ASSUME NEW start, NEW path
  PROVE  InclusionWalk(start, path) = (CHOOSE g : WalksOn(start, path, Len(path), g))[Len(path)]
BY DEF InclusionWalk, WalksOn, WalkedTo

LEMMA WalkExists == ASSUME NEW start, NEW path, NEW last \in Nat PROVE \E g : WalksOn(start, path, last, g)
<1> DEFINE Bad == {m \in Nat : ~\E g : WalksOn(start, path, m, g)}
<1>1. SUFFICES ASSUME Bad # {} PROVE FALSE
  OBVIOUS
<1>2. PICK m \in Bad : \A k \in Bad : m <= k
  BY <1>1, LeastCounterexample
<1>3. m \in Nat /\ ~\E g : WalksOn(start, path, m, g)
  BY <1>2
<1>4. CASE m = 0
  <2> DEFINE g == [i \in 0 .. 0 |-> start]
  <2>1. g = [i \in 0 .. 0 |-> WalkedTo(start, path, g, i)]
    BY DEF WalkedTo
  <2>2. QED
    BY <1>3, <1>4, <2>1 DEF WalksOn
<1>5. CASE m # 0
  <2>1. m - 1 \in Nat /\ m - 1 \notin Bad
    BY <1>2, <1>5
  <2>2. PICK g : g = [i \in 0 .. m - 1 |-> WalkedTo(start, path, g, i)]
    BY <2>1 DEF WalksOn
  <2> DEFINE h == [i \in 0 .. m |-> WalkedTo(start, path, g, i)]
  <2>3. \A i \in 0 .. m - 1 : h[i] = g[i]
    BY <1>3, <2>2
  <2>4. ASSUME NEW i \in 0 .. m PROVE WalkedTo(start, path, g, i) = WalkedTo(start, path, h, i)
    <3>1. i = 0 \/ i - 1 \in 0 .. m - 1
      BY <1>3
    <3> HIDE DEF h
    <3>2. QED
      BY <2>3, <3>1 DEF WalkedTo
  <2>5. h = [i \in 0 .. m |-> WalkedTo(start, path, h, i)]
    <3> HIDE DEF h
    <3>1. [i \in 0 .. m |-> WalkedTo(start, path, g, i)] = [i \in 0 .. m |-> WalkedTo(start, path, h, i)]
      BY <2>4
    <3>2. QED
      BY <3>1 DEF h
  <2>6. QED
    BY <1>3, <2>5 DEF WalksOn
<1>6. QED
  BY <1>4, <1>5

-----------------------------------------------------------------------------
(* A consistency proof that verifies is of a tree that begins the other.   *)

(* A span whose hash is a node's is cut in two, of which the node was made. *)
LEMMA HashIsNode ==
  ASSUME NEW entries, Len(entries) \in Nat, NEW s \in 0 .. Len(entries), NEW e \in s .. Len(entries),
         NEW l, NEW r, SpanHash(entries)[<<s, e>>] = NodeHash(l, r)
  PROVE  /\ SplitPoint(e - s) \in 1 .. (e - s) - 1
         /\ l = SpanHash(entries)[<<s, s + SplitPoint(e - s)>>]
         /\ r = SpanHash(entries)[<<s + SplitPoint(e - s), e>>]
<1> DEFINE x == SpanHash(entries)[<<s, e>>]
           k == SplitPoint(e - s)
           lc == SpanHash(entries)[<<s, s + k>>]
           rc == SpanHash(entries)[<<s + k, e>>]
<1>1. /\ e = s => x = EmptyRoot
      /\ e = s + 1 => x = LeafHash(entries[e])
      /\ e >= s + 2 => k \in 1 .. (e - s) - 1 /\ x = NodeHash(lc, rc)
  BY HashOfSpan
<1>2. x = NodeHash(l, r)
  OBVIOUS
<1>3. e = s \/ e = s + 1 \/ e >= s + 2
  OBVIOUS
<1>4. k \in 1 .. (e - s) - 1 /\ l = lc /\ r = rc
  <2> HIDE DEF x, k, lc, rc
  <2>1. QED
    BY ONLY <1>1, <1>2, <1>3, HashesApart
<1>5. QED
  BY <1>4

-----------------------------------------------------------------------------
(* Consistency.                                                            *)

FirstOfBoth(nodes, pos) == [ok |-> TRUE, fr |-> nodes[1], sr |-> nodes[1], pos |-> pos]

BothWalkedTo(nodes, pos, g, i) ==
  IF i = 1 THEN FirstOfBoth(nodes, pos) ELSE ConsistencyStep(g[i - 1], nodes[i])

BothWalkOn(nodes, pos, last, g) == g = [i \in 1 .. last |-> BothWalkedTo(nodes, pos, g, i)]

LEMMA BothWalkIs ==
  ASSUME NEW nodes, NEW pos
  PROVE  ConsistencyWalk(nodes, pos) = (CHOOSE g : BothWalkOn(nodes, pos, Len(nodes), g))[Len(nodes)]
BY DEF ConsistencyWalk, BothWalkOn, BothWalkedTo, FirstOfBoth

LEMMA BothWalkExists ==
  ASSUME NEW nodes, NEW pos, NEW last \in Nat PROVE \E g : BothWalkOn(nodes, pos, last, g)
<1> DEFINE Bad == {m \in Nat : ~\E g : BothWalkOn(nodes, pos, m, g)}
<1>1. SUFFICES ASSUME Bad # {} PROVE FALSE
  OBVIOUS
<1>2. PICK m \in Bad : \A k \in Bad : m <= k
  BY <1>1, LeastCounterexample
<1>3. m \in Nat /\ ~\E g : BothWalkOn(nodes, pos, m, g)
  BY <1>2
<1>4. CASE m = 0
  <2> DEFINE g == [i \in 1 .. 0 |-> 0]
  <2>1. g = [i \in 1 .. 0 |-> BothWalkedTo(nodes, pos, g, i)]
    OBVIOUS
  <2>2. QED
    BY <1>3, <1>4, <2>1 DEF BothWalkOn
<1>5. CASE m # 0
  <2>1. m - 1 \in Nat /\ m - 1 \notin Bad
    BY <1>2, <1>5
  <2>2. PICK g : g = [i \in 1 .. m - 1 |-> BothWalkedTo(nodes, pos, g, i)]
    BY <2>1 DEF BothWalkOn
  <2> DEFINE h == [i \in 1 .. m |-> BothWalkedTo(nodes, pos, g, i)]
  <2>3. \A i \in 1 .. m - 1 : h[i] = g[i]
    BY <1>3, <2>2
  <2>4. ASSUME NEW i \in 1 .. m PROVE BothWalkedTo(nodes, pos, g, i) = BothWalkedTo(nodes, pos, h, i)
    <3>1. i = 1 \/ i - 1 \in 1 .. m - 1
      BY <1>3
    <3> HIDE DEF h
    <3>2. QED
      BY <2>3, <3>1 DEF BothWalkedTo
  <2>5. h = [i \in 1 .. m |-> BothWalkedTo(nodes, pos, h, i)]
    <3> HIDE DEF h
    <3>1. [i \in 1 .. m |-> BothWalkedTo(nodes, pos, g, i)] = [i \in 1 .. m |-> BothWalkedTo(nodes, pos, h, i)]
      BY <2>4
    <3>2. QED
      BY <3>1 DEF h
  <2>6. QED
    BY <1>3, <2>5 DEF BothWalkOn
<1>6. QED
  BY <1>4, <1>5

(* The two hashes of a walk are of A's end, from s on, and of a span of B that
   begins at s too, and up to there the entries of A and B are the same. *)
AgreesTo(A, B, s) == \A i \in 1 .. s : A[i] = B[i]

OfBothTrees(A, B, w) ==
  /\ w.ok
  /\ \E s \in 0 .. Len(A) : \E e \in s .. Len(B) :
       /\ s \in 0 .. Len(B)
       /\ w.fr = SpanHash(A)[<<s, Len(A)>>] /\ w.sr = SpanHash(B)[<<s, e>>]
       /\ AgreesTo(A, B, s)

(* One step back. *)
LEMMA StepsFromBothTrees ==
  ASSUME NEW A, NEW B, Len(A) \in Nat, Len(B) \in Nat, NEW w, NEW c,
         OfBothTrees(A, B, ConsistencyStep(w, c))
  PROVE  OfBothTrees(A, B, w)
<1> DEFINE v == ConsistencyStep(w, c)
           M == SpanHash(A)
           N == SpanHash(B)
           m == Len(A)
<1>1. v.ok /\ \E s \in 0 .. m : \E e \in s .. Len(B) :
         s \in 0 .. Len(B) /\ v.fr = M[<<s, m>>] /\ v.sr = N[<<s, e>>] /\ AgreesTo(A, B, s)
  BY DEF OfBothTrees
<1>2. PICK s \in 0 .. m : \E e \in s .. Len(B) :
         s \in 0 .. Len(B) /\ v.fr = M[<<s, m>>] /\ v.sr = N[<<s, e>>] /\ AgreesTo(A, B, s)
  BY <1>1
<1>3. PICK e \in s .. Len(B) :
         s \in 0 .. Len(B) /\ v.fr = M[<<s, m>>] /\ v.sr = N[<<s, e>>] /\ AgreesTo(A, B, s)
  BY <1>2
<1>4. w.ok /\ \/ v.fr = NodeHash(c, w.fr) /\ v.sr = NodeHash(c, w.sr)
              \/ v.fr = w.fr /\ v.sr = NodeHash(w.sr, c)
  BY <1>1 DEF ConsistencyStep
<1>5. m \in s .. Len(A) /\ s \in Nat /\ e \in Nat /\ m \in Nat
  OBVIOUS
<1> HIDE DEF v, M, N, m
<1>6. CASE v.fr = NodeHash(c, w.fr) /\ v.sr = NodeHash(c, w.sr)
  <2>1. PICK j \in 1 .. (m - s) - 1 : c = M[<<s, s + j>>] /\ w.fr = M[<<s + j, m>>]
    <3>1. SpanHash(A)[<<s, m>>] = NodeHash(c, w.fr) /\ s \in 0 .. Len(A) /\ m \in s .. Len(A)
      BY <1>3, <1>5, <1>6 DEF M, m
    <3>2. /\ SplitPoint(m - s) \in 1 .. (m - s) - 1
          /\ c = SpanHash(A)[<<s, s + SplitPoint(m - s)>>] /\ w.fr = SpanHash(A)[<<s + SplitPoint(m - s), m>>]
      BY <3>1, HashIsNode
    <3>3. QED
      BY <3>2 DEF M
  <2>2. PICK k \in 1 .. (e - s) - 1 : c = N[<<s, s + k>>] /\ w.sr = N[<<s + k, e>>]
    <3>1. SpanHash(B)[<<s, e>>] = NodeHash(c, w.sr) /\ s \in 0 .. Len(B)
      BY <1>3, <1>6 DEF N
    <3>2. /\ SplitPoint(e - s) \in 1 .. (e - s) - 1
          /\ c = SpanHash(B)[<<s, s + SplitPoint(e - s)>>] /\ w.sr = SpanHash(B)[<<s + SplitPoint(e - s), e>>]
      BY <3>1, HashIsNode
    <3>3. QED
      BY <3>2 DEF N
  <2>3. /\ s + j \in s .. m /\ s + j \in 0 .. m /\ s + k \in s .. Len(B) /\ s + k \in 0 .. Len(B)
        /\ e \in s + k .. Len(B) /\ j \in Nat /\ k \in Nat
    BY <1>5, <2>1, <2>2
  <2>4. SameEntries(A, s, s + j, B, s, s + k)
    BY <1>3, <2>1, <2>2, <2>3, SameHashSameEntries DEF M, N, m
  <2>5. j = k /\ \A i \in 1 .. j : A[s + i] = B[s + i]
    <3>1. (s + j) - s = (s + k) - s /\ \A i \in 1 .. (s + j) - s : A[s + i] = B[s + i]
      BY <2>4 DEF SameEntries
    <3>2. (s + j) - s = j /\ (s + k) - s = k
      BY <1>5, <2>3
    <3>3. QED
      BY <3>1, <3>2
  <2>6. AgreesTo(A, B, s + j)
    <3> SUFFICES ASSUME NEW i \in 1 .. s + j PROVE A[i] = B[i]
      BY DEF AgreesTo
    <3>1. CASE i <= s
      BY <1>3, <1>5, <3>1 DEF AgreesTo
    <3>2. CASE ~(i <= s)
      <4>1. i - s \in 1 .. j /\ s + (i - s) = i
        BY <1>5, <2>3, <3>2
      <4>2. A[s + (i - s)] = B[s + (i - s)]
        BY <2>5, <4>1
      <4>3. QED
        BY <4>1, <4>2
    <3>3. QED
      BY <3>1, <3>2
  <2>7. /\ s + j \in 0 .. Len(A) /\ e \in s + j .. Len(B) /\ s + j \in 0 .. Len(B)
        /\ w.fr = SpanHash(A)[<<s + j, Len(A)>>] /\ w.sr = SpanHash(B)[<<s + j, e>>]
    BY <2>1, <2>2, <2>3, <2>5 DEF M, N, m
  <2>8. QED
    BY <1>4, <2>6, <2>7 DEF OfBothTrees
<1>7. CASE v.fr = w.fr /\ v.sr = NodeHash(w.sr, c)
  <2>1. PICK k \in 1 .. (e - s) - 1 : w.sr = N[<<s, s + k>>]
    <3>1. SpanHash(B)[<<s, e>>] = NodeHash(w.sr, c) /\ s \in 0 .. Len(B)
      BY <1>3, <1>7 DEF N
    <3>2. /\ SplitPoint(e - s) \in 1 .. (e - s) - 1
          /\ w.sr = SpanHash(B)[<<s, s + SplitPoint(e - s)>>] /\ c = SpanHash(B)[<<s + SplitPoint(e - s), e>>]
      BY <3>1, HashIsNode
    <3>3. QED
      BY <3>2 DEF N
  <2>2. s + k \in s .. Len(B)
    BY <1>5, <2>1
  <2>3. QED
    BY <1>3, <1>4, <1>7, <2>1, <2>2 DEF OfBothTrees, M, N, m
<1>8. QED
  BY <1>4, <1>6, <1>7

(* A walk whose hashes end at the roots of A and of B: A's entries are B's first. *)
LEMMA WalkProvesPrefix ==
  ASSUME NEW A, NEW B, Len(A) \in Nat, Len(B) \in Nat, NEW nodes, Len(nodes) \in Nat \ {0}, NEW pos,
         WalksToBoth(ConsistencyWalk(nodes, pos), MerkleRoot(A), MerkleRoot(B))
  PROVE  Len(A) <= Len(B) /\ AgreesTo(A, B, Len(A))
<1> DEFINE g == CHOOSE g : BothWalkOn(nodes, pos, Len(nodes), g)
           last == Len(nodes)
           Bad == {d \in Nat : d < last /\ ~OfBothTrees(A, B, g[last - d])}
<1>1. BothWalkOn(nodes, pos, last, g)
  BY BothWalkExists
<1>2. g[last] = ConsistencyWalk(nodes, pos)
  BY BothWalkIs
<1>3. ASSUME NEW i \in 1 .. last PROVE g[i] = BothWalkedTo(nodes, pos, g, i)
  BY <1>1, <1>3 DEF BothWalkOn
<1> HIDE DEF g
<1>4. OfBothTrees(A, B, g[last])
  <2>1. g[last].ok /\ g[last].fr = SpanHash(A)[<<0, Len(A)>>] /\ g[last].sr = SpanHash(B)[<<0, Len(B)>>]
    BY <1>2 DEF WalksToBoth, MerkleRoot
  <2>2. AgreesTo(A, B, 0) /\ 0 \in 0 .. Len(A) /\ 0 \in 0 .. Len(B) /\ Len(B) \in 0 .. Len(B)
    BY DEF AgreesTo
  <2>3. QED
    BY <2>1, <2>2 DEF OfBothTrees
<1>5. Bad = {}
  <2> SUFFICES ASSUME Bad # {} PROVE FALSE
    OBVIOUS
  <2>1. PICK d \in Bad : \A x \in Bad : d <= x
    BY LeastCounterexample
  <2>2. d \in Nat /\ d < last /\ ~OfBothTrees(A, B, g[last - d])
    BY <2>1
  <2>3. d # 0
    <3>1. last - 0 = last
      OBVIOUS
    <3>2. QED
      BY <1>4, <2>2, <3>1
  <2> DEFINE i == last - (d - 1)
  <2>4. i \in 1 .. last /\ i # 1 /\ i - 1 = last - d /\ d - 1 \in Nat /\ d - 1 < last /\ ~(d <= d - 1)
    BY <2>2, <2>3
  <2>5. d - 1 \notin Bad
    BY <2>1, <2>4
  <2>6. OfBothTrees(A, B, g[i])
    BY <2>4, <2>5
  <2> HIDE DEF i, Bad
  <2>7. g[i] = ConsistencyStep(g[i - 1], nodes[i])
    BY <1>3, <2>4 DEF BothWalkedTo
  <2>8. OfBothTrees(A, B, g[i - 1])
    BY <2>6, <2>7, StepsFromBothTrees
  <2>9. QED
    BY <2>2, <2>4, <2>8
<1>6. OfBothTrees(A, B, g[1])
  <2>1. last - 1 \in Nat /\ last - 1 < last /\ last - (last - 1) = 1
    OBVIOUS
  <2>2. last - 1 \notin Bad
    BY <1>5
  <2> HIDE DEF last
  <2>3. QED
    BY <2>1, <2>2
<1>7. g[1].fr = g[1].sr
  <2>1. g[1] = FirstOfBoth(nodes, pos)
    BY <1>3 DEF BothWalkedTo
  <2>2. QED
    BY <2>1 DEF FirstOfBoth
<1>8. PICK s \in 0 .. Len(A) : \E e \in s .. Len(B) :
        /\ s \in 0 .. Len(B)
        /\ g[1].fr = SpanHash(A)[<<s, Len(A)>>] /\ g[1].sr = SpanHash(B)[<<s, e>>]
        /\ AgreesTo(A, B, s)
  BY <1>6 DEF OfBothTrees
<1>9. PICK e \in s .. Len(B) :
        /\ s \in 0 .. Len(B)
        /\ g[1].fr = SpanHash(A)[<<s, Len(A)>>] /\ g[1].sr = SpanHash(B)[<<s, e>>]
        /\ AgreesTo(A, B, s)
  BY <1>8
<1>10. SameEntries(A, s, Len(A), B, s, e)
  <2>1. Len(A) \in s .. Len(A)
    OBVIOUS
  <2>2. QED
    BY <1>7, <1>9, <2>1, SameHashSameEntries
<1>11. e = Len(A) /\ \A i \in 1 .. Len(A) - s : A[s + i] = B[s + i]
  BY <1>10 DEF SameEntries
<1>12. ASSUME NEW i \in 1 .. Len(A) PROVE A[i] = B[i]
  <2>1. CASE i <= s
    BY <1>9, <2>1 DEF AgreesTo
  <2>2. CASE ~(i <= s)
    <3>1. i - s \in 1 .. Len(A) - s /\ s + (i - s) = i
      BY <2>2
    <3>2. A[s + (i - s)] = B[s + (i - s)]
      BY <1>11, <3>1
    <3>3. QED
      BY <3>1, <3>2
  <2>3. QED
    BY <2>1, <2>2
<1>13. QED
  BY <1>11, <1>12 DEF AgreesTo

(* verifyConsistency holds, of the roots of two trees of the sizes given, only
   when the entries of the first are the first entries of the second. *)
THEOREM ConsistencyIsSound ==
  ASSUME NEW S, NEW A, NEW B, Len(A) \in Nat, Len(B) \in Nat, NEW path \in Seq(S),
         VerifyConsistency(Len(A), MerkleRoot(A), Len(B), MerkleRoot(B), path)
  PROVE  Len(A) <= Len(B) /\ AgreesTo(A, B, Len(A))
<1>1. CASE Len(A) = Len(B)
  <2>1. MerkleRoot(A) = MerkleRoot(B)
    BY <1>1 DEF VerifyConsistency
  <2>2. QED
    BY <1>1, <2>1, SameRootSameEntries DEF AgreesTo
<1>2. CASE Len(A) # Len(B) /\ Len(A) = 0
  BY <1>2 DEF AgreesTo
<1>3. CASE Len(A) # Len(B) /\ Len(A) # 0
  <2> DEFINE nodes == IF IsPowerOfTwo(Len(A)) THEN <<MerkleRoot(A)>> \o path ELSE path
             pos == LastFullNode([fn |-> Len(A) - 1, sn |-> Len(B) - 1])
  <2>1. path # <<>> /\ WalksToBoth(ConsistencyWalk(nodes, pos), MerkleRoot(A), MerkleRoot(B))
    BY <1>3 DEF VerifyConsistency
  <2>2. Len(path) \in Nat \ {0}
    BY <2>1, EmptySeq
  <2>3. Len(<<MerkleRoot(A)>> \o path) = 1 + Len(path)
    <3>1. <<MerkleRoot(A)>> \in Seq(S \cup {MerkleRoot(A)}) /\ path \in Seq(S \cup {MerkleRoot(A)})
      OBVIOUS
    <3>2. QED
      BY <3>1, ConcatProperties
  <2>4. Len(nodes) \in Nat \ {0}
    BY <2>2, <2>3
  <2> HIDE DEF nodes, pos
  <2>5. QED
    BY <2>1, <2>4, WalkProvesPrefix
<1>4. QED
  BY <1>1, <1>2, <1>3

-----------------------------------------------------------------------------
(* Powers of two, and the node over an entry on their levels.              *)

(* A power of two is 1 or twice another. *)
LEMMA PowerIsDouble == \A p \in Powers : p = 1 \/ \E q \in Powers : p = 2 * q
<1> DEFINE T == {p \in Powers : p = 1 \/ \E q \in Powers : p = 2 * q}
<1>1. T \in SUBSET Nat
  BY PowersDouble
<1>2. ClosedUnderDoubling(T)
  BY PowersDouble DEF ClosedUnderDoubling
<1>3. QED
  BY <1>1, <1>2 DEF Powers

(* The smaller of two divides the larger, an even number of times if they differ. *)
LEMMA PowersDivide == \A k \in Powers : \A p \in Powers : p <= k => \E r \in Powers : k = p * r
<1> DEFINE T == {k \in Powers : \A p \in Powers : p <= k => \E r \in Powers : k = p * r}
<1>1. T \in SUBSET Nat
  BY PowersDouble
<1>2. 1 \in T
  <2> SUFFICES ASSUME NEW p \in Powers, p <= 1 PROVE 1 = p * 1
    BY PowersDouble DEF ClosedUnderDoubling
  <2>1. p = 1
    BY PowersDouble
  <2>2. QED
    BY <2>1
<1>3. ASSUME NEW k \in T PROVE 2 * k \in T
  <2>1. k \in Powers /\ 2 * k \in Powers /\ k \in Nat
    BY PowersDouble DEF ClosedUnderDoubling
  <2> SUFFICES ASSUME NEW p \in Powers, p <= 2 * k PROVE \E r \in Powers : 2 * k = p * r
    BY <2>1
  <2>2. CASE p = 1
    BY <2>1, <2>2
  <2>3. CASE p # 1
    <3>1. PICK q \in Powers : p = 2 * q
      BY <2>3, PowerIsDouble
    <3>2. q \in Nat /\ q <= k
      BY <3>1, <2>1, PowersDouble
    <3>3. PICK r \in Powers : k = q * r
      BY <3>2
    <3>4. r \in Nat
      BY PowersDouble
    <3>5. 2 * (q * r) = (2 * q) * r
      BY <3>2, <3>4
    <3>6. QED
      BY <3>1, <3>3, <3>5
  <2>4. QED
    BY <2>2, <2>3
<1>4. ClosedUnderDoubling(T)
  BY <1>2, <1>3 DEF ClosedUnderDoubling
<1>5. QED
  BY <1>1, <1>4 DEF Powers

LEMMA LargerIsTwice ==
  ASSUME NEW p \in Powers, NEW k \in Powers, p < k
  PROVE  2 * p <= k /\ \E r \in Powers : k = p * (2 * r)
<1>1. p \in Nat \ {0} /\ k \in Nat \ {0}
  BY PowersDouble
<1>2. PICK r \in Powers : k = p * r
  BY <1>1, PowersDivide
<1>3. r # 1
  BY <1>1, <1>2
<1>4. PICK t \in Powers : r = 2 * t
  BY <1>3, PowerIsDouble
<1>5. t \in Nat \ {0}
  BY PowersDouble
<1>6. p * (2 * t) = (2 * p) * t
  BY <1>1, <1>5
<1>7. (2 * p) * t >= 2 * p
  <2> DEFINE x == 2 * p
  <2>1. x \in Nat
    BY <1>1
  <2> HIDE DEF x
  <2>2. x * t >= x
    BY <2>1, <1>5
  <2>3. QED
    BY <2>2 DEF x
<1>8. QED
  BY <1>2, <1>4, <1>6, <1>7

(* There is one power of two below n that is at least its half. *)
LEMMA SplitIsOnly ==
  ASSUME NEW n \in Nat, n >= 2, NEW p \in Powers, p < n, n <= 2 * p
  PROVE  SplitPoint(n) = p
<1> DEFINE k == SplitPoint(n)
<1>1. k \in Powers /\ k < n /\ n <= 2 * k
  BY SplitInside, PowersDouble
<1>2. k \in Nat /\ p \in Nat
  BY <1>1, PowersDouble
<1> HIDE DEF k
<1>3. ~(p < k)
  <2> SUFFICES ASSUME p < k PROVE FALSE
    OBVIOUS
  <2>1. 2 * p <= k
    BY <1>1, LargerIsTwice
  <2>2. QED
    BY <1>1, <1>2, <2>1
<1>4. ~(k < p)
  <2> SUFFICES ASSUME k < p PROVE FALSE
    OBVIOUS
  <2>1. 2 * k <= p
    BY <1>1, LargerIsTwice
  <2>2. QED
    BY <1>1, <1>2, <2>1
<1>5. k = p
  BY <1>2, <1>3, <1>4
<1>6. QED
  BY <1>5 DEF k

LEMMA PowerOfTwoIs == ASSUME NEW n \in Nat \ {0} PROVE IsPowerOfTwo(n) <=> n \in Powers
<1>1. CASE n = 1
  BY <1>1, PowersDouble DEF IsPowerOfTwo, ClosedUnderDoubling
<1>2. CASE n # 1
  <2> DEFINE k == SplitPoint(n)
  <2>1. k \in Powers /\ k < n /\ n <= 2 * k /\ k \in Nat
    BY <1>2, SplitInside, PowersDouble
  <2> HIDE DEF k
  <2>2. IsPowerOfTwo(n) <=> n = 2 * k
    BY <1>2 DEF IsPowerOfTwo, k
  <2>3. n = 2 * k => n \in Powers
    BY <2>1, PowersDouble DEF ClosedUnderDoubling
  <2>4. ASSUME n \in Powers PROVE n = 2 * k
    <3>1. 2 * k <= n
      BY <2>1, <2>4, LargerIsTwice
    <3>2. QED
      BY <2>1, <3>1
  <2>5. QED
    BY <2>2, <2>3, <2>4
<1>3. QED
  BY <1>1, <1>2

-----------------------------------------------------------------------------
(* Positions.  At level p, the node r is the one that entry x is below.    *)

OnLevel(p, r, x) == r \in Nat /\ p * r <= x /\ x < p * r + p

(* Every entry is below one node of a level. *)
LEMMA LevelIsOne ==
  ASSUME NEW p \in Nat \ {0}, NEW x \in Nat, NEW q \in Nat, NEW r \in Nat
  PROVE  /\ OnLevel(p, q, x) /\ OnLevel(p, r, x) => q = r
         /\ OnLevel(p, r, x) /\ p * q <= x => q <= r
<1>1. ASSUME NEW a \in Nat, NEW b \in Nat, a < b PROVE p * a + p <= p * b
  <2>1. b - (a + 1) \in Nat
    BY <1>1
  <2>2. p * (b - (a + 1)) >= 0
    BY <2>1
  <2>3. p * (b - (a + 1)) = p * b - (p * a + p)
    OBVIOUS
  <2>4. p * a \in Nat /\ p * b \in Nat
    OBVIOUS
  <2>5. QED
    BY <2>2, <2>3, <2>4
<1>2. p * q \in Nat /\ p * r \in Nat
  OBVIOUS
<1>3. OnLevel(p, r, x) /\ p * q <= x => ~(r < q)
  <2> SUFFICES ASSUME OnLevel(p, r, x), p * q <= x, r < q PROVE FALSE
    OBVIOUS
  <2>1. p * r + p <= p * q
    BY <1>1
  <2>2. QED
    BY <1>2, <2>1 DEF OnLevel
<1>4. OnLevel(p, q, x) /\ p * r <= x => ~(q < r)
  <2> SUFFICES ASSUME OnLevel(p, q, x), p * r <= x, q < r PROVE FALSE
    OBVIOUS
  <2>1. p * q + p <= p * r
    BY <1>1
  <2>2. QED
    BY <1>2, <2>1 DEF OnLevel
<1>5. QED
  BY <1>3, <1>4 DEF OnLevel

(* One level up. *)
LEMMA LevelUp ==
  ASSUME NEW p \in Nat \ {0}, NEW x \in Nat, NEW r \in Nat, OnLevel(p, r, x)
  PROVE  OnLevel(2 * p, r \div 2, x) /\ r \div 2 \in Nat
<1> DEFINE h == r \div 2
           b == r % 2
<1>1. h \in Nat /\ b \in {0, 1} /\ r = 2 * h + b
  OBVIOUS
<1> HIDE DEF h, b
<1>2. p * r = (2 * p) * h + p * b
  BY <1>1
<1>3. p * b \in {0, p}
  BY <1>1
<1>4. (2 * p) * h \in Nat
  BY <1>1
<1>5. OnLevel(2 * p, h, x)
  BY <1>1, <1>2, <1>3, <1>4 DEF OnLevel
<1>6. QED
  BY <1>1, <1>5 DEF h

-----------------------------------------------------------------------------
(* The loops that halve a position.                                        *)

Skip(g, p) == IF Even(p.fn) /\ p.fn # 0 THEN g[Parent(p)] ELSE p

SkipsOn(pos, g) == g = [p \in Below(pos) |-> Skip(g, p)]

Climb(g, p) == IF Even(p.fn) THEN p ELSE g[Parent(p)]

ClimbsOn(pos, g) == g = [p \in Below(pos) |-> Climb(g, p)]

LEMMA SkipLevelsIs ==
  ASSUME NEW pos
  PROVE  SkipLevels(pos) = (CHOOSE g : SkipsOn(pos, g))[pos]
BY DEF SkipLevels, SkipsOn, Skip

LEMMA LastFullNodeIs ==
  ASSUME NEW pos
  PROVE  LastFullNode(pos) = (CHOOSE g : ClimbsOn(pos, g))[pos]
BY DEF LastFullNode, ClimbsOn, Climb

(* SkipLevels' loop ends. *)
LEMMA SkipExists == ASSUME NEW S \in Nat, NEW w \in Nat PROVE \E g : SkipsOn([fn |-> w, sn |-> S], g)
<1> DEFINE Bad == {v \in Nat : ~\E g : SkipsOn([fn |-> v, sn |-> S], g)}
<1>1. SUFFICES ASSUME Bad # {} PROVE FALSE
  OBVIOUS
<1>2. PICK v \in Bad : \A k \in Bad : v <= k
  BY <1>1, LeastCounterexample
<1>3. v \in Nat /\ ~\E g : SkipsOn([fn |-> v, sn |-> S], g)
  BY <1>2
<1> DEFINE D == [fn : 0 .. v, sn : 0 .. S]
           E == IF v = 0 THEN {} ELSE [fn : 0 .. v - 1, sn : 0 .. S]
<1>4. PICK g : g = [p \in E |-> Skip(g, p)]
  <2>1. CASE v = 0
    <3> DEFINE g == [p \in {} |-> 0]
    <3>1. g = [p \in {} |-> Skip(g, p)]
      OBVIOUS
    <3>2. QED
      BY <2>1, <3>1
  <2>2. CASE v # 0
    <3>1. v - 1 \in Nat /\ ~(v <= v - 1)
      BY <1>3, <2>2
    <3>2. v - 1 \notin Bad
      BY <1>2, <3>1
    <3>3. QED
      BY <2>2, <3>1, <3>2 DEF SkipsOn, Below
  <2>3. QED
    BY <2>1, <2>2
<1> DEFINE h == [p \in D |-> Skip(g, p)]
<1>5. ASSUME NEW p \in E PROVE h[p] = g[p]
  <2>1. p \in D
    BY <1>3
  <2>2. g[p] = Skip(g, p)
    BY <1>4
  <2> HIDE DEF D, E
  <2>3. QED
    BY <2>1, <2>2
<1>6. ASSUME NEW p \in D PROVE Skip(g, p) = Skip(h, p)
  <2>1. CASE Even(p.fn) /\ p.fn # 0
    <3>1. Parent(p) \in E
      <4>1. v # 0 /\ p.fn \div 2 \in 0 .. v - 1 /\ p.sn \div 2 \in 0 .. S
        <5>1. p.fn \in 0 .. v /\ p.sn \in 0 .. S
          OBVIOUS
        <5>2. p.fn # 0
          BY <2>1 DEF Even
        <5>3. QED
          BY <1>3, <5>1, <5>2
      <4>2. QED
        BY <4>1 DEF Parent
    <3> HIDE DEF D, E, h
    <3>2. QED
      BY <1>5, <3>1 DEF Skip
  <2>2. CASE ~(Even(p.fn) /\ p.fn # 0)
    BY <2>2 DEF Skip
  <2>3. QED
    BY <2>1, <2>2
<1>7. h = [p \in D |-> Skip(h, p)]
  <2> HIDE DEF D, h
  <2>1. [p \in D |-> Skip(g, p)] = [p \in D |-> Skip(h, p)]
    BY <1>6
  <2>2. QED
    BY <2>1 DEF h
<1>8. QED
  BY <1>3, <1>7 DEF SkipsOn, Below

(* So does LastFullNode's. *)
LEMMA ClimbExists == ASSUME NEW S \in Nat, NEW w \in Nat PROVE \E g : ClimbsOn([fn |-> w, sn |-> S], g)
<1> DEFINE Bad == {v \in Nat : ~\E g : ClimbsOn([fn |-> v, sn |-> S], g)}
<1>1. SUFFICES ASSUME Bad # {} PROVE FALSE
  OBVIOUS
<1>2. PICK v \in Bad : \A k \in Bad : v <= k
  BY <1>1, LeastCounterexample
<1>3. v \in Nat /\ ~\E g : ClimbsOn([fn |-> v, sn |-> S], g)
  BY <1>2
<1> DEFINE D == [fn : 0 .. v, sn : 0 .. S]
           E == IF v = 0 THEN {} ELSE [fn : 0 .. v - 1, sn : 0 .. S]
<1>4. PICK g : g = [p \in E |-> Climb(g, p)]
  <2>1. CASE v = 0
    <3> DEFINE g == [p \in {} |-> 0]
    <3>1. g = [p \in {} |-> Climb(g, p)]
      OBVIOUS
    <3>2. QED
      BY <2>1, <3>1
  <2>2. CASE v # 0
    <3>1. v - 1 \in Nat /\ ~(v <= v - 1)
      BY <1>3, <2>2
    <3>2. v - 1 \notin Bad
      BY <1>2, <3>1
    <3>3. QED
      BY <2>2, <3>1, <3>2 DEF ClimbsOn, Below
  <2>3. QED
    BY <2>1, <2>2
<1> DEFINE h == [p \in D |-> Climb(g, p)]
<1>5. ASSUME NEW p \in E PROVE h[p] = g[p]
  <2>1. p \in D
    BY <1>3
  <2>2. g[p] = Climb(g, p)
    BY <1>4
  <2> HIDE DEF D, E
  <2>3. QED
    BY <2>1, <2>2
<1>6. ASSUME NEW p \in D PROVE Climb(g, p) = Climb(h, p)
  <2>1. CASE ~Even(p.fn)
    <3>1. Parent(p) \in E
      <4>1. v # 0 /\ p.fn \div 2 \in 0 .. v - 1 /\ p.sn \div 2 \in 0 .. S
        <5>1. p.fn \in 0 .. v /\ p.sn \in 0 .. S
          OBVIOUS
        <5>2. p.fn # 0
          BY <2>1 DEF Even
        <5>3. QED
          BY <1>3, <5>1, <5>2
      <4>2. QED
        BY <4>1 DEF Parent
    <3> HIDE DEF D, E, h
    <3>2. QED
      BY <1>5, <3>1 DEF Climb
  <2>2. CASE ~(~Even(p.fn))
    BY <2>2 DEF Climb
  <2>3. QED
    BY <2>1, <2>2
<1>7. h = [p \in D |-> Climb(h, p)]
  <2> HIDE DEF D, h
  <2>1. [p \in D |-> Climb(g, p)] = [p \in D |-> Climb(h, p)]
    BY <1>6
  <2>2. QED
    BY <2>1 DEF h
<1>8. QED
  BY <1>3, <1>7 DEF ClimbsOn, Below

(* SkipLevels of the p-th multiple of an odd position is that position, at level p. *)
LEMMA SkipsToOdd ==
  ASSUME NEW F \in Nat, NEW S \in Nat, NEW p \in Powers, NEW q \in Nat, ~Even(q), F = p * q
  PROVE  \E r \in Nat : OnLevel(p, r, S) /\ SkipLevels([fn |-> F, sn |-> S]) = [fn |-> q, sn |-> r]
<1> DEFINE g == CHOOSE g : SkipsOn([fn |-> F, sn |-> S], g)
           Skips(k, f, s) == \E r \in Nat : OnLevel(k, r, s) /\ g[[fn |-> f, sn |-> s]] = [fn |-> q, sn |-> r]
           T == {k \in Powers : \A f \in 0 .. F, s \in 0 .. S : f = k * q => Skips(k, f, s)}
<1>1. SkipsOn([fn |-> F, sn |-> S], g)
  BY SkipExists
<1>2. ASSUME NEW f \in 0 .. F, NEW s \in 0 .. S PROVE g[[fn |-> f, sn |-> s]] = Skip(g, [fn |-> f, sn |-> s])
  BY <1>1, <1>2 DEF SkipsOn, Below
<1> HIDE DEF g
<1>3. T \in SUBSET Nat
  BY PowersDouble
<1>4. 1 \in T
  <2> SUFFICES ASSUME NEW f \in 0 .. F, NEW s \in 0 .. S, f = 1 * q PROVE Skips(1, f, s)
    BY PowersDouble DEF ClosedUnderDoubling
  <2>1. OnLevel(1, s, s) /\ f = q
    BY DEF OnLevel
  <2>2. g[[fn |-> f, sn |-> s]] = [fn |-> q, sn |-> s]
    BY <1>2, <2>1 DEF Skip
  <2>3. QED
    BY <2>1, <2>2
<1>5. ASSUME NEW k \in T PROVE 2 * k \in T
  <2>1. k \in Nat \ {0} /\ 2 * k \in Powers
    BY PowersDouble DEF ClosedUnderDoubling
  <2> SUFFICES ASSUME NEW f \in 0 .. F, NEW s \in 0 .. S, f = (2 * k) * q PROVE Skips(2 * k, f, s)
    BY <2>1
  <2> DEFINE x == k * q
  <2>2. x \in Nat /\ f = 2 * x
    BY <2>1
  <2>3. x # 0
    <3>1. q # 0
      BY DEF Even
    <3>2. QED
      BY <2>1, <3>1
  <2> HIDE DEF x
  <2>4. Even(f) /\ f # 0 /\ f \div 2 = x /\ x \in 0 .. F /\ s \div 2 \in 0 .. S
    BY <2>2, <2>3 DEF Even
  <2>5. g[[fn |-> f, sn |-> s]] = g[[fn |-> x, sn |-> s \div 2]]
    <3> DEFINE y == [fn |-> f, sn |-> s]
    <3>1. g[y] = Skip(g, y)
      BY <1>2
    <3>2. y.fn = f /\ Parent(y) = [fn |-> x, sn |-> s \div 2]
      BY <2>4 DEF Parent
    <3> HIDE DEF y
    <3>3. g[y] = g[Parent(y)]
      BY <2>4, <3>1, <3>2 DEF Skip
    <3>4. QED
      BY <3>2, <3>3 DEF y
  <2>6. Skips(k, x, s \div 2)
    BY <2>4 DEF x
  <2>7. PICK r \in Nat : OnLevel(k, r, s \div 2) /\ g[[fn |-> x, sn |-> s \div 2]] = [fn |-> q, sn |-> r]
    BY <2>6
  <2> DEFINE y == k * r
  <2>8. y \in Nat /\ (2 * k) * r = 2 * y /\ y <= s \div 2 /\ s \div 2 < y + k
    BY <2>1, <2>7 DEF OnLevel
  <2> HIDE DEF y
  <2>9. 2 * y <= s /\ s < 2 * y + 2 * k
    BY <2>1, <2>8
  <2>10. OnLevel(2 * k, r, s)
    BY <2>7, <2>8, <2>9 DEF OnLevel
  <2>11. QED
    BY <2>5, <2>7, <2>10
<1>6. ClosedUnderDoubling(T)
  BY <1>4, <1>5 DEF ClosedUnderDoubling
<1>7. p \in T
  BY <1>3, <1>6 DEF Powers
<1>8. Skips(p, F, S)
  <2>1. \A f \in 0 .. F, s \in 0 .. S : f = p * q => Skips(p, f, s)
    BY <1>7
  <2>2. F \in 0 .. F /\ S \in 0 .. S
    OBVIOUS
  <2> HIDE DEF Skips
  <2>3. QED
    BY <2>1, <2>2
<1>9. SkipLevels([fn |-> F, sn |-> S]) = g[[fn |-> F, sn |-> S]]
  BY SkipLevelsIs DEF g
<1>10. QED
  BY <1>8, <1>9

(* LastFullNode of the last entry below an even position is that position, at level p. *)
LEMMA ClimbsToEven ==
  ASSUME NEW F \in Nat, NEW S \in Nat, NEW p \in Powers, NEW q \in Nat, Even(q), F = (p * q + p) - 1
  PROVE  \E r \in Nat : OnLevel(p, r, S) /\ LastFullNode([fn |-> F, sn |-> S]) = [fn |-> q, sn |-> r]
<1> DEFINE g == CHOOSE g : ClimbsOn([fn |-> F, sn |-> S], g)
           Climbs(k, f, s) == \E r \in Nat : OnLevel(k, r, s) /\ g[[fn |-> f, sn |-> s]] = [fn |-> q, sn |-> r]
           T == {k \in Powers : \A f \in 0 .. F, s \in 0 .. S : f = (k * q + k) - 1 => Climbs(k, f, s)}
<1>1. ClimbsOn([fn |-> F, sn |-> S], g)
  BY ClimbExists
<1>2. ASSUME NEW f \in 0 .. F, NEW s \in 0 .. S PROVE g[[fn |-> f, sn |-> s]] = Climb(g, [fn |-> f, sn |-> s])
  BY <1>1, <1>2 DEF ClimbsOn, Below
<1> HIDE DEF g
<1>3. T \in SUBSET Nat
  BY PowersDouble
<1>4. 1 \in T
  <2> SUFFICES ASSUME NEW f \in 0 .. F, NEW s \in 0 .. S, f = (1 * q + 1) - 1 PROVE Climbs(1, f, s)
    BY PowersDouble DEF ClosedUnderDoubling
  <2>1. OnLevel(1, s, s) /\ f = q
    BY DEF OnLevel
  <2>2. g[[fn |-> f, sn |-> s]] = [fn |-> q, sn |-> s]
    BY <1>2, <2>1 DEF Climb
  <2>3. QED
    BY <2>1, <2>2
<1>5. ASSUME NEW k \in T PROVE 2 * k \in T
  <2>1. k \in Nat \ {0} /\ 2 * k \in Powers
    BY PowersDouble DEF ClosedUnderDoubling
  <2> SUFFICES ASSUME NEW f \in 0 .. F, NEW s \in 0 .. S, f = ((2 * k) * q + 2 * k) - 1 PROVE Climbs(2 * k, f, s)
    BY <2>1
  <2> DEFINE z == k * q
             x == (z + k) - 1
  <2>2. z \in Nat /\ f = (2 * z + 2 * k) - 1
    BY <2>1
  <2> HIDE DEF z
  <2>3. ~Even(f) /\ f \div 2 = x /\ x \in 0 .. F /\ s \div 2 \in 0 .. S
    BY <2>1, <2>2 DEF Even
  <2>4. x = (k * q + k) - 1
    BY DEF z
  <2> HIDE DEF x
  <2>5. g[[fn |-> f, sn |-> s]] = g[[fn |-> x, sn |-> s \div 2]]
    <3> DEFINE y == [fn |-> f, sn |-> s]
    <3>1. g[y] = Climb(g, y)
      BY <1>2
    <3>2. y.fn = f /\ Parent(y) = [fn |-> x, sn |-> s \div 2]
      BY <2>3 DEF Parent
    <3> HIDE DEF y
    <3>3. g[y] = g[Parent(y)]
      BY <2>3, <3>1, <3>2 DEF Climb
    <3>4. QED
      BY <3>2, <3>3 DEF y
  <2>6. Climbs(k, x, s \div 2)
    BY <2>3, <2>4
  <2>7. PICK r \in Nat : OnLevel(k, r, s \div 2) /\ g[[fn |-> x, sn |-> s \div 2]] = [fn |-> q, sn |-> r]
    BY <2>6
  <2> DEFINE y == k * r
  <2>8. y \in Nat /\ (2 * k) * r = 2 * y /\ y <= s \div 2 /\ s \div 2 < y + k
    BY <2>1, <2>7 DEF OnLevel
  <2> HIDE DEF y
  <2>9. 2 * y <= s /\ s < 2 * y + 2 * k
    BY <2>1, <2>8
  <2>10. OnLevel(2 * k, r, s)
    BY <2>7, <2>8, <2>9 DEF OnLevel
  <2>11. QED
    BY <2>5, <2>7, <2>10
<1>6. ClosedUnderDoubling(T)
  BY <1>4, <1>5 DEF ClosedUnderDoubling
<1>7. p \in T
  BY <1>3, <1>6 DEF Powers
<1>8. Climbs(p, F, S)
  <2>1. \A f \in 0 .. F, s \in 0 .. S : f = (p * q + p) - 1 => Climbs(p, f, s)
    BY <1>7
  <2>2. F \in 0 .. F /\ S \in 0 .. S
    OBVIOUS
  <2> HIDE DEF Climbs
  <2>3. QED
    BY <2>1, <2>2
<1>9. LastFullNode([fn |-> F, sn |-> S]) = g[[fn |-> F, sn |-> S]]
  BY LastFullNodeIs DEF g
<1>10. QED
  BY <1>8, <1>9

-----------------------------------------------------------------------------
(* The consistency proof of a span.                                        *)

(* The hashes of a tree are those of any longer one, as far as it goes. *)
LEMMA PrefixHashes ==
  ASSUME NEW A, NEW B, Len(A) \in Nat, Len(B) \in Nat, Len(A) <= Len(B), AgreesTo(A, B, Len(A)),
         NEW s \in 0 .. Len(A), NEW e \in s .. Len(A)
  PROVE  SpanHash(A)[<<s, e>>] = SpanHash(B)[<<s, e>>]
<1> DEFINE M == SpanHash(A)
           N == SpanHash(B)
           Differ(w) == \E a \in 0 .. Len(A) : \E b \in a .. Len(A) : w = b - a /\ M[<<a, b>>] # N[<<a, b>>]
           Bad == {w \in Nat : Differ(w)}
<1>1. Bad = {}
  <2> SUFFICES ASSUME Bad # {} PROVE FALSE
    OBVIOUS
  <2>1. PICK w \in Bad : \A v \in Bad : w <= v
    BY LeastCounterexample
  <2>2. w \in Nat /\ Differ(w) /\ \A v \in Nat : Differ(v) => w <= v
    BY <2>1
  <2>3. PICK a \in 0 .. Len(A) : \E b \in a .. Len(A) : w = b - a /\ M[<<a, b>>] # N[<<a, b>>]
    BY <2>2
  <2>4. PICK b \in a .. Len(A) : w = b - a /\ M[<<a, b>>] # N[<<a, b>>]
    BY <2>3
  <2> DEFINE k == SplitPoint(b - a)
  <2>5. a \in 0 .. Len(B) /\ b \in a .. Len(B)
    OBVIOUS
  <2>6. /\ b = a => M[<<a, b>>] = EmptyRoot
        /\ b = a + 1 => M[<<a, b>>] = LeafHash(A[b])
        /\ b >= a + 2 => k \in 1 .. (b - a) - 1 /\ M[<<a, b>>] = NodeHash(M[<<a, a + k>>], M[<<a + k, b>>])
    BY HashOfSpan
  <2>7. /\ b = a => N[<<a, b>>] = EmptyRoot
        /\ b = a + 1 => N[<<a, b>>] = LeafHash(B[b])
        /\ b >= a + 2 => N[<<a, b>>] = NodeHash(N[<<a, a + k>>], N[<<a + k, b>>])
    BY <2>5, HashOfSpan
  <2> HIDE DEF M, N, k, Bad
  <2>8. CASE b = a
    BY <2>4, <2>6, <2>7, <2>8
  <2>9. CASE b = a + 1
    <3>1. b \in 1 .. Len(A)
      BY <2>9
    <3>2. A[b] = B[b]
      BY <3>1 DEF AgreesTo
    <3>3. QED
      BY <2>4, <2>6, <2>7, <2>9, <3>2
  <2>10. CASE b >= a + 2
    <3>1. /\ k \in Nat /\ a + k \in a .. Len(A) /\ a + k \in 0 .. Len(A) /\ b \in a + k .. Len(A)
          /\ (a + k) - a \in Nat /\ b - (a + k) \in Nat /\ ~(w <= (a + k) - a) /\ ~(w <= b - (a + k))
      BY <2>4, <2>6, <2>10
    <3>2. ~Differ((a + k) - a) /\ ~Differ(b - (a + k))
      <4> HIDE DEF Differ
      <4>1. QED
        BY <2>2, <3>1
    <3>3. M[<<a, a + k>>] = N[<<a, a + k>>] /\ M[<<a + k, b>>] = N[<<a + k, b>>]
      BY <3>1, <3>2
    <3>4. QED
      BY <2>4, <2>6, <2>7, <2>10, <3>3
  <2>11. QED
    BY <2>8, <2>9, <2>10
<1>2. e - s \in Nat
  OBVIOUS
<1>3. ~Differ(e - s)
  <2> HIDE DEF Differ
  <2>1. QED
    BY <1>1, <1>2
<1>4. QED
  BY <1>3

(* Every hash of a tree is a hash. *)
LEMMA SpansHash ==
  ASSUME NEW entries, Len(entries) \in Nat, NEW s \in 0 .. Len(entries), NEW e \in s .. Len(entries)
  PROVE  IsHash(SpanHash(entries)[<<s, e>>])
<1> DEFINE x == SpanHash(entries)[<<s, e>>]
           lc == SpanHash(entries)[<<s, s + SplitPoint(e - s)>>]
           rc == SpanHash(entries)[<<s + SplitPoint(e - s), e>>]
<1>1. /\ e = s => x = EmptyRoot
      /\ e = s + 1 => x = LeafHash(entries[e])
      /\ e >= s + 2 => x = NodeHash(lc, rc)
  BY HashOfSpan
<1>2. e = s \/ e = s + 1 \/ e >= s + 2
  OBVIOUS
<1> HIDE DEF x, lc, rc
<1>3. IsHash(x)
  BY ONLY <1>1, <1>2, HashesApart
<1>4. QED
  BY <1>3 DEF x

-----------------------------------------------------------------------------
(* The proof the log makes.                                                *)

\* Both proofs go down to the m-th entry, until a span for which base has the rest.
ProofOf(entries, m, base, g, se) ==
  LET s == se[1]  e == se[2]  k == SplitPoint(e - s)
  IN IF se \in DOMAIN base THEN base[se]
     ELSE IF m <= s + k
       THEN Append(g[<<s, s + k>>], SpanHash(entries)[<<s + k, e>>])
       ELSE Append(g[<<s + k, e>>], SpanHash(entries)[<<s, s + k>>])

ProofsOn(entries, m, base, D, g) == g = [se \in D |-> ProofOf(entries, m, base, g, se)]

Hashes(B) == {SpanHash(B)[se] : se \in Spans(B)}

LEMMA SpanHashes ==
  ASSUME NEW B, Len(B) \in Nat, NEW s \in 0 .. Len(B), NEW e \in s .. Len(B)
  PROVE  SpanHash(B)[<<s, e>>] \in Hashes(B)
<1>1. <<s, e>> \in Spans(B)
  BY DEF Spans
<1>2. QED
  BY <1>1 DEF Hashes

\* The rest is a hash at most, and a span of one entry is not cut.
IsBase(entries, m, base) ==
  /\ DOMAIN base \subseteq SpansOver(entries, m)
  /\ \A se \in SpansOver(entries, m) : se[2] = se[1] + 1 => se \in DOMAIN base
  /\ \A se \in DOMAIN base : base[se] \in Seq(Hashes(entries)) /\ Len(base[se]) <= 1

(* The m-th entry is in one of the halves. *)
LEMMA HalfOver ==
  ASSUME NEW entries, Len(entries) \in Nat, NEW m \in Nat, NEW se \in SpansOver(entries, m), se[2] # se[1] + 1,
         NEW k, k = SplitPoint(se[2] - se[1])
  PROVE  /\ se[1] \in Nat /\ se[2] \in Nat /\ se[2] - se[1] >= 2 /\ k \in 1 .. (se[2] - se[1]) - 1
         /\ m <= se[1] + k => <<se[1], se[1] + k>> \in SpansOver(entries, m)
         /\ ~(m <= se[1] + k) => <<se[1] + k, se[2]>> \in SpansOver(entries, m)
<1>1. se \in Spans(entries) /\ se[1] < m /\ m <= se[2]
  BY DEF SpansOver
<1>2. se[1] \in Nat /\ se[2] \in Nat
  BY <1>1 DEF Spans
<1>3. se[2] - se[1] >= 2
  BY <1>1, <1>2
<1>4. /\ k \in 1 .. (se[2] - se[1]) - 1
      /\ <<se[1], se[1] + k>> \in Spans(entries) /\ <<se[1] + k, se[2]>> \in Spans(entries)
  BY <1>1, <1>3, Halves
<1>5. QED
  BY <1>1, <1>2, <1>3, <1>4 DEF SpansOver

LEMMA ProofsExist ==
  ASSUME NEW entries, Len(entries) \in Nat, NEW m \in Nat, NEW base, IsBase(entries, m, base)
  PROVE  \E g : ProofsOn(entries, m, base, SpansOver(entries, m), g)
<1> DEFINE Upto(w) == {se \in SpansOver(entries, m) : se[2] - se[1] <= w}
           Bad == {w \in Nat : ~\E g : ProofsOn(entries, m, base, Upto(w), g)}
<1>1. Bad = {}
  <2> SUFFICES ASSUME Bad # {} PROVE FALSE
    OBVIOUS
  <2>1. PICK w \in Bad : \A v \in Bad : w <= v
    BY LeastCounterexample
  <2>2. w \in Nat /\ ~\E g : ProofsOn(entries, m, base, Upto(w), g)
    BY <2>1
  <2> DEFINE D == Upto(w)
             E == IF w = 0 THEN {} ELSE Upto(w - 1)
  <2>3. PICK g : g = [se \in E |-> ProofOf(entries, m, base, g, se)]
    <3>1. CASE w = 0
      <4> DEFINE g == [se \in {} |-> 0]
      <4>1. g = [se \in {} |-> ProofOf(entries, m, base, g, se)]
        OBVIOUS
      <4>2. QED
        BY <3>1, <4>1
    <3>2. CASE w # 0
      <4>1. w - 1 \in Nat /\ ~(w <= w - 1)
        BY <2>2, <3>2
      <4>2. w - 1 \notin Bad
        BY <2>1, <4>1
      <4>3. QED
        BY <3>2, <4>1, <4>2 DEF ProofsOn
    <3>3. QED
      BY <3>1, <3>2
  <2> DEFINE h == [se \in D |-> ProofOf(entries, m, base, g, se)]
  <2>4. ASSUME NEW se \in E PROVE h[se] = g[se]
    <3>1. se \in D
      <4>1. w # 0 /\ se \in SpansOver(entries, m) /\ se[2] - se[1] <= w - 1
        OBVIOUS
      <4>2. se[1] \in Nat /\ se[2] \in Nat
        BY <4>1 DEF SpansOver, Spans
      <4>3. QED
        BY <4>1, <4>2, <2>2
    <3>2. QED
      BY <2>3, <3>1
  <2>5. ASSUME NEW se \in D PROVE ProofOf(entries, m, base, g, se) = ProofOf(entries, m, base, h, se)
    <3> DEFINE k == SplitPoint(se[2] - se[1])
    <3>1. CASE se \in DOMAIN base
      BY <3>1 DEF ProofOf
    <3>2. CASE se \notin DOMAIN base
      <4>1. /\ se[1] \in Nat /\ se[2] \in Nat /\ se[2] - se[1] >= 2 /\ k \in 1 .. (se[2] - se[1]) - 1
            /\ m <= se[1] + k => <<se[1], se[1] + k>> \in SpansOver(entries, m)
            /\ ~(m <= se[1] + k) => <<se[1] + k, se[2]>> \in SpansOver(entries, m)
        <5>1. se \in SpansOver(entries, m) /\ se[2] # se[1] + 1
          BY <3>2 DEF IsBase
        <5>2. QED
          BY <5>1, HalfOver
      <4>2. se[2] - se[1] <= w
        OBVIOUS
      <4>3. /\ w # 0 /\ (se[1] + k) - se[1] <= w - 1 /\ se[2] - (se[1] + k) <= w - 1
        BY <2>2, <4>1, <4>2
      <4>4. /\ m <= se[1] + k => <<se[1], se[1] + k>> \in E
            /\ ~(m <= se[1] + k) => <<se[1] + k, se[2]>> \in E
        BY <4>1, <4>3
      <4>5. /\ m <= se[1] + k => g[<<se[1], se[1] + k>>] = h[<<se[1], se[1] + k>>]
            /\ ~(m <= se[1] + k) => g[<<se[1] + k, se[2]>>] = h[<<se[1] + k, se[2]>>]
        <5> HIDE DEF h, E
        <5>1. QED
          BY <2>4, <4>4
      <4> HIDE DEF h
      <4>6. QED
        BY <4>5 DEF ProofOf
    <3>3. QED
      BY <3>1, <3>2
  <2>6. h = [se \in D |-> ProofOf(entries, m, base, h, se)]
    <3> HIDE DEF h, D
    <3>1. [se \in D |-> ProofOf(entries, m, base, g, se)] = [se \in D |-> ProofOf(entries, m, base, h, se)]
      BY <2>5
    <3>2. QED
      BY <3>1 DEF h
  <2>7. QED
    BY <2>2, <2>6 DEF ProofsOn
<1>2. Upto(Len(entries)) = SpansOver(entries, m)
  BY DEF SpansOver, Spans
<1>3. Len(entries) \notin Bad
  BY <1>1
<1>4. QED
  BY <1>2, <1>3

\* g has the proofs that end as base says.
MadeOf(entries, m, base, g) == IsBase(entries, m, base) /\ ProofsOn(entries, m, base, SpansOver(entries, m), g)

(* The cases of a proof. *)
LEMMA MadeAtEnd ==
  ASSUME NEW entries, NEW m, NEW base, NEW g, MadeOf(entries, m, base, g), NEW se \in DOMAIN base
  PROVE  g[se] = base[se]
BY DEF MadeOf, IsBase, ProofsOn, ProofOf

\* The proof of a span is its half's and the other half's hash.
InHalves(entries, m, g, s, e) ==
  LET k == SplitPoint(e - s)
  IN IF m <= s + k
     THEN g[<<s, e>>] = Append(g[<<s, s + k>>], SpanHash(entries)[<<s + k, e>>])
     ELSE g[<<s, e>>] = Append(g[<<s + k, e>>], SpanHash(entries)[<<s, s + k>>])

LEMMA MadeInHalves ==
  ASSUME NEW entries, NEW m, NEW base, NEW g, MadeOf(entries, m, base, g),
         NEW s, NEW e, <<s, e>> \in SpansOver(entries, m), <<s, e>> \notin DOMAIN base
  PROVE  InHalves(entries, m, g, s, e)
<1> DEFINE se == <<s, e>>
<1>1. g[se] = ProofOf(entries, m, base, g, se)
  BY DEF MadeOf, ProofsOn
<1>2. se[1] = s /\ se[2] = e /\ se \notin DOMAIN base
  OBVIOUS
<1> HIDE DEF se
<1>3. QED
  BY <1>1, <1>2 DEF ProofOf, InHalves, se

-----------------------------------------------------------------------------
(* The consistency proof: it ends at a span that is all of the old tree.   *)

SubproofOf(entries, m, g, se) ==
  LET s == se[1]  e == se[2]  k == SplitPoint(e - s)
  IN IF m = e THEN (IF s = 0 THEN <<>> ELSE <<SpanHash(entries)[se]>>)
     ELSE IF m <= s + k
       THEN Append(g[<<s, s + k>>], SpanHash(entries)[<<s + k, e>>])
       ELSE Append(g[<<s + k, e>>], SpanHash(entries)[<<s, s + k>>])

SubproofsOn(entries, m, D, g) == g = [se \in D |-> SubproofOf(entries, m, g, se)]

Subproof(entries, m) == CHOOSE g : SubproofsOn(entries, m, SpansOver(entries, m), g)

LEMMA ConsistencyProofIs ==
  ASSUME NEW entries, NEW m, m \notin {0, Len(entries)}
  PROVE  ConsistencyProof(entries, m) = Subproof(entries, m)[<<0, Len(entries)>>]
BY DEF ConsistencyProof, Subproof, SubproofsOn, SubproofOf

OldEnds(entries, m) ==
  [se \in {over \in SpansOver(entries, m) : over[2] = m} |-> IF se[1] = 0 THEN <<>> ELSE <<SpanHash(entries)[se]>>]

LEMMA OldEndsAreBase == ASSUME NEW entries, Len(entries) \in Nat, NEW m \in Nat PROVE IsBase(entries, m, OldEnds(entries, m))
<1> DEFINE base == OldEnds(entries, m)
           D == {over \in SpansOver(entries, m) : over[2] = m}
<1>1. DOMAIN base = D
  BY DEF OldEnds
<1>2. ASSUME NEW se \in SpansOver(entries, m), se[2] = se[1] + 1 PROVE se \in D
  <2>1. se[1] \in Nat /\ se[2] \in Nat /\ se[1] < m /\ m <= se[2]
    BY DEF SpansOver, Spans
  <2>2. QED
    BY <1>2, <2>1
<1>3. ASSUME NEW se \in D PROVE base[se] \in Seq(Hashes(entries)) /\ Len(base[se]) <= 1
  <2> DEFINE x == SpanHash(entries)[se]
  <2>1. x \in Hashes(entries)
    BY DEF Hashes, SpansOver
  <2>2. base[se] = IF se[1] = 0 THEN <<>> ELSE <<x>>
    BY DEF OldEnds
  <2> HIDE DEF x, base
  <2>3. <<x>> \in Seq(Hashes(entries)) /\ Len(<<x>>) = 1 /\ <<>> \in Seq(Hashes(entries)) /\ Len(<<>>) = 0
    BY <2>1
  <2>4. CASE se[1] = 0
    BY <2>2, <2>3, <2>4
  <2>5. CASE se[1] # 0
    BY <2>2, <2>3, <2>5
  <2>6. QED
    BY <2>4, <2>5
<1>4. QED
  BY <1>1, <1>2, <1>3 DEF IsBase

LEMMA SubproofMade ==
  ASSUME NEW entries, Len(entries) \in Nat, NEW m \in Nat
  PROVE  MadeOf(entries, m, OldEnds(entries, m), Subproof(entries, m))
<1> DEFINE base == OldEnds(entries, m)
           D == SpansOver(entries, m)
<1>1. IsBase(entries, m, base)
  BY OldEndsAreBase
<1>2. ASSUME NEW g, NEW se \in D PROVE ProofOf(entries, m, base, g, se) = SubproofOf(entries, m, g, se)
  <2>1. se \in DOMAIN base <=> m = se[2]
    BY DEF OldEnds
  <2>2. m = se[2] => base[se] = IF se[1] = 0 THEN <<>> ELSE <<SpanHash(entries)[se]>>
    BY DEF OldEnds
  <2> HIDE DEF base, D
  <2>3. QED
    BY <2>1, <2>2 DEF ProofOf, SubproofOf
<1> HIDE DEF base, D
<1>3. ASSUME NEW g PROVE ProofsOn(entries, m, base, D, g) <=> SubproofsOn(entries, m, D, g)
  <2>1. [se \in D |-> ProofOf(entries, m, base, g, se)] = [se \in D |-> SubproofOf(entries, m, g, se)]
    BY <1>2
  <2>2. QED
    BY <2>1 DEF ProofsOn, SubproofsOn
<1>4. \E g : SubproofsOn(entries, m, D, g)
  <2>1. \E g : ProofsOn(entries, m, base, D, g)
    BY <1>1, ProofsExist DEF D
  <2>2. QED
    BY <1>3, <2>1
<1>5. SubproofsOn(entries, m, D, Subproof(entries, m))
  BY <1>4 DEF Subproof, D
<1>6. ProofsOn(entries, m, base, D, Subproof(entries, m))
  BY <1>3, <1>5
<1>7. QED
  BY <1>1, <1>6 DEF MadeOf, base, D

LEMMA OldSpanEnds ==
  ASSUME NEW entries, Len(entries) \in Nat, NEW m \in Nat, NEW s \in 0 .. Len(entries), NEW e \in s .. Len(entries),
         s < m, m <= e
  PROVE  <<s, e>> \in DOMAIN OldEnds(entries, m) <=> m = e
<1> DEFINE se == <<s, e>>
<1>1. se \in SpansOver(entries, m) /\ se[1] = s /\ se[2] = e
  BY DEF SpansOver, Spans
<1> HIDE DEF se
<1>2. QED
  BY <1>1 DEF OldEnds, se

LEMMA OldSpanEnd ==
  ASSUME NEW entries, Len(entries) \in Nat, NEW s \in 0 .. Len(entries), NEW e \in s .. Len(entries), s < e
  PROVE  /\ <<s, e>> \in DOMAIN OldEnds(entries, e)
         /\ OldEnds(entries, e)[<<s, e>>] = IF s = 0 THEN <<>> ELSE <<SpanHash(entries)[<<s, e>>]>>
<1> DEFINE se == <<s, e>>
<1>1. se \in SpansOver(entries, e) /\ se[1] = s /\ se[2] = e
  BY DEF SpansOver, Spans
<1> HIDE DEF se
<1>2. QED
  BY <1>1 DEF OldEnds, se

LEMMA ProofAtFirst ==
  ASSUME NEW entries, Len(entries) \in Nat, NEW m \in Nat,
         NEW s \in 0 .. Len(entries), NEW e \in s .. Len(entries), s < m, m = e, s = 0
  PROVE  Subproof(entries, m)[<<s, e>>] = <<>>
<1>1. <<s, e>> \in DOMAIN OldEnds(entries, e) /\ OldEnds(entries, e)[<<s, e>>] = <<>>
  BY OldSpanEnd
<1>2. QED
  BY <1>1, SubproofMade, MadeAtEnd

LEMMA ProofAtEnd ==
  ASSUME NEW entries, Len(entries) \in Nat, NEW m \in Nat,
         NEW s \in 0 .. Len(entries), NEW e \in s .. Len(entries), s < m, m = e, s # 0
  PROVE  Subproof(entries, m)[<<s, e>>] = <<SpanHash(entries)[<<s, e>>]>>
<1>1. <<s, e>> \in DOMAIN OldEnds(entries, e) /\ OldEnds(entries, e)[<<s, e>>] = <<SpanHash(entries)[<<s, e>>]>>
  BY OldSpanEnd
<1>2. QED
  BY <1>1, SubproofMade, MadeAtEnd

LEMMA ProofOnTheLeft ==
  ASSUME NEW entries, Len(entries) \in Nat, NEW m \in Nat,
         NEW s \in 0 .. Len(entries), NEW e \in s .. Len(entries), s < m, m <= e, m # e, m <= s + SplitPoint(e - s)
  PROVE  Subproof(entries, m)[<<s, e>>]
           = Append(Subproof(entries, m)[<<s, s + SplitPoint(e - s)>>], SpanHash(entries)[<<s + SplitPoint(e - s), e>>])
<1> DEFINE base == OldEnds(entries, m)
           g == Subproof(entries, m)
<1>1. <<s, e>> \notin DOMAIN base /\ <<s, e>> \in SpansOver(entries, m)
  BY OldSpanEnds DEF SpansOver, Spans
<1>2. MadeOf(entries, m, base, g)
  BY SubproofMade
<1> HIDE DEF base, g
<1>3. InHalves(entries, m, g, s, e)
  BY <1>1, <1>2, MadeInHalves
<1>4. QED
  BY <1>3 DEF InHalves, g

LEMMA ProofOnTheRight ==
  ASSUME NEW entries, Len(entries) \in Nat, NEW m \in Nat,
         NEW s \in 0 .. Len(entries), NEW e \in s .. Len(entries), s < m, m <= e, m # e, ~(m <= s + SplitPoint(e - s))
  PROVE  Subproof(entries, m)[<<s, e>>]
           = Append(Subproof(entries, m)[<<s + SplitPoint(e - s), e>>], SpanHash(entries)[<<s, s + SplitPoint(e - s)>>])
<1> DEFINE base == OldEnds(entries, m)
           g == Subproof(entries, m)
<1>1. <<s, e>> \notin DOMAIN base /\ <<s, e>> \in SpansOver(entries, m)
  BY OldSpanEnds DEF SpansOver, Spans
<1>2. MadeOf(entries, m, base, g)
  BY SubproofMade
<1> HIDE DEF base, g
<1>3. InHalves(entries, m, g, s, e)
  BY <1>1, <1>2, MadeInHalves
<1>4. QED
  BY <1>3 DEF InHalves, g

-----------------------------------------------------------------------------
(* The walk that the log's proof is followed by.                           *)

(* A walk of one node more is one step longer. *)
LEMMA WalkOfOne ==
  ASSUME NEW x, NEW pos PROVE ConsistencyWalk(<<x>>, pos) = FirstOfBoth(<<x>>, pos)
<1> DEFINE g == CHOOSE g : BothWalkOn(<<x>>, pos, Len(<<x>>), g)
<1>1. Len(<<x>>) = 1
  OBVIOUS
<1>2. BothWalkOn(<<x>>, pos, 1, g)
  BY <1>1, BothWalkExists
<1>3. ConsistencyWalk(<<x>>, pos) = g[1]
  BY <1>1, BothWalkIs
<1> HIDE DEF g
<1>4. g[1] = BothWalkedTo(<<x>>, pos, g, 1)
  <2>1. g = [i \in 1 .. 1 |-> BothWalkedTo(<<x>>, pos, g, i)] /\ 1 \in 1 .. 1
    BY <1>2 DEF BothWalkOn
  <2>2. QED
    BY <2>1
<1>5. QED
  BY <1>4, <1>3 DEF BothWalkedTo

LEMMA WalkAppends ==
  ASSUME NEW S, NEW nodes \in Seq(S), nodes # <<>>, NEW c \in S, NEW pos
  PROVE  ConsistencyWalk(Append(nodes, c), pos) = ConsistencyStep(ConsistencyWalk(nodes, pos), c)
<1> DEFINE more == Append(nodes, c)
           n == Len(nodes)
           g == CHOOSE g : BothWalkOn(nodes, pos, Len(nodes), g)
           h == CHOOSE h : BothWalkOn(more, pos, Len(more), h)
<1>1. /\ n \in Nat \ {0} /\ Len(more) = n + 1
      /\ \A i \in 1 .. n : more[i] = nodes[i]
      /\ more[n + 1] = c
  BY AppendProperties, EmptySeq
<1>2. BothWalkOn(nodes, pos, n, g) /\ BothWalkOn(more, pos, n + 1, h)
  <2>1. (\E f : BothWalkOn(nodes, pos, n, f)) /\ \E f : BothWalkOn(more, pos, n + 1, f)
    <3> HIDE DEF more, n
    <3>1. n \in Nat /\ n + 1 \in Nat
      BY <1>1
    <3>2. QED
      BY <3>1, BothWalkExists
  <2>2. QED
    BY <1>1, <2>1
<1>3. ConsistencyWalk(nodes, pos) = g[n] /\ ConsistencyWalk(more, pos) = h[n + 1]
  BY <1>1, BothWalkIs
<1> HIDE DEF more, n, g, h
<1>4. ASSUME NEW i \in 1 .. n PROVE g[i] = BothWalkedTo(nodes, pos, g, i)
  BY <1>2, <1>4 DEF BothWalkOn
<1>5. ASSUME NEW i \in 1 .. n + 1 PROVE h[i] = BothWalkedTo(more, pos, h, i)
  BY <1>2, <1>5 DEF BothWalkOn
<1> DEFINE Bad == {i \in Nat : i \in 1 .. n /\ g[i] # h[i]}
<1>6. Bad = {}
  <2> SUFFICES ASSUME Bad # {} PROVE FALSE
    OBVIOUS
  <2>1. PICK i \in Bad : \A v \in Bad : i <= v
    BY LeastCounterexample
  <2>2. i \in 1 .. n /\ g[i] # h[i] /\ i \in 1 .. n + 1
    BY <1>1, <2>1
  <2>3. g[i] = BothWalkedTo(nodes, pos, g, i) /\ h[i] = BothWalkedTo(more, pos, h, i)
    BY <1>4, <1>5, <2>2
  <2>4. nodes[i] = more[i] /\ nodes[1] = more[1]
    BY <1>1, <2>2
  <2>5. i # 1
    BY <2>2, <2>3, <2>4 DEF BothWalkedTo, FirstOfBoth
  <2>6. i - 1 \in Nat /\ i - 1 \in 1 .. n /\ ~(i <= i - 1)
    BY <1>1, <2>2, <2>5
  <2>7. i - 1 \notin Bad
    BY <2>1, <2>6
  <2>8. g[i - 1] = h[i - 1]
    BY <2>6, <2>7
  <2>9. QED
    BY <2>2, <2>3, <2>4, <2>5, <2>8 DEF BothWalkedTo
<1>7. g[n] = h[n]
  <2>1. n \in Nat /\ n \in 1 .. n
    BY <1>1
  <2>2. n \notin Bad
    BY <1>6
  <2>3. QED
    BY <2>1, <2>2
<1>8. h[n + 1] = ConsistencyStep(h[n], c)
  <2>1. n + 1 \in 1 .. n + 1 /\ n + 1 # 1 /\ (n + 1) - 1 = n
    BY <1>1
  <2>2. QED
    BY <1>1, <1>5, <2>1 DEF BothWalkedTo
<1>9. QED
  BY <1>3, <1>7, <1>8 DEF more

-----------------------------------------------------------------------------
(* The spans the log's proof goes through, and where the walk is at each.  *)

(* A full span of p entries, or one that the end of the tree cuts short. *)
SpanOf(B, p, q, s, e) == s = p * q /\ (e = s + p \/ (e = Len(B) /\ e <= s + p))

Reached(B, m, s, e) ==
  \E p \in Powers : \E q \in Nat : SpanOf(B, p, q, s, e) /\ (m = e => Even(q) /\ e = s + p)

AtSpan(B, m, w, s, e) ==
  /\ w.ok = TRUE
  /\ w.fr = SpanHash(B)[<<s, m>>] /\ w.sr = SpanHash(B)[<<s, e>>]
  /\ \E p \in Powers : \E q \in Nat : \E r \in Nat :
       w.pos = [fn |-> q, sn |-> r] /\ SpanOf(B, p, q, s, e) /\ OnLevel(p, r, Len(B) - 1)

(* A level of a level is a level. *)
LEMMA LevelOfLevel ==
  ASSUME NEW p \in Nat \ {0}, NEW t \in Nat \ {0}, NEW x \in Nat, NEW r \in Nat, NEW u \in Nat,
         OnLevel(p, r, x), OnLevel(t, u, r)
  PROVE  OnLevel(p * t, u, x)
<1> DEFINE y == t * u
<1>1. y \in Nat /\ y <= r /\ r + 1 <= y + t
  BY DEF OnLevel
<1>2. (p * t) * u = p * y
  OBVIOUS
<1> HIDE DEF y
<1>3. p * (r - y) >= 0 /\ p * ((y + t) - (r + 1)) >= 0
  <2>1. r - y \in Nat /\ (y + t) - (r + 1) \in Nat
    BY <1>1
  <2>2. QED
    BY <2>1
<1>4. p * (r - y) = p * r - p * y /\ p * ((y + t) - (r + 1)) = (p * y + p * t) - (p * r + p)
  BY <1>1
<1>5. p * r \in Nat /\ p * y \in Nat /\ p * t \in Nat
  BY <1>1
<1>6. p * y <= x /\ x < p * y + p * t
  BY <1>3, <1>4, <1>5 DEF OnLevel
<1>7. QED
  BY <1>2, <1>6 DEF OnLevel

(* An odd multiple of a power, of at least three, is none. *)
LEMMA OddIsNoPower ==
  ASSUME NEW p \in Powers, NEW q \in Nat, Even(q), q # 0
  PROVE  p * q + p \notin Powers
<1> SUFFICES ASSUME p * q + p \in Powers PROVE FALSE
  OBVIOUS
<1>1. p \in Nat \ {0} /\ p * q \in Nat
  BY PowersDouble
<1>2. p * q # 0
  BY <1>1
<1>3. PICK r \in Powers : p * q + p = p * (2 * r)
  BY <1>1, <1>2, LargerIsTwice
<1>4. r \in Nat
  BY PowersDouble
<1> DEFINE x == p * q + p
<1>5. p * (q + 1) = x
  BY <1>1
<1>6. OnLevel(p, q + 1, x) /\ OnLevel(p, 2 * r, x) /\ x \in Nat
  BY <1>1, <1>3, <1>4, <1>5 DEF OnLevel
<1> HIDE DEF x
<1>7. q + 1 = 2 * r
  <2>1. q + 1 \in Nat /\ 2 * r \in Nat
    BY <1>4
  <2>2. QED
    BY <1>1, <1>6, <2>1, LevelIsOne
<1>8. QED
  BY <1>4, <1>7 DEF Even

(* Where a span of two entries or more is cut. *)
LEMMA SpanIsCut ==
  ASSUME NEW B, Len(B) \in Nat, NEW s \in 0 .. Len(B), NEW e \in s .. Len(B), e - s >= 2,
         NEW p \in Powers, NEW q \in Nat, SpanOf(B, p, q, s, e), NEW k, k = SplitPoint(e - s)
  PROVE  /\ k \in Powers /\ k \in Nat \ {0} /\ k < e - s
         /\ \E j \in Nat : /\ SpanOf(B, 2 * k, j, s, e) /\ s = k * (2 * j) /\ s + k = k * (2 * j + 1)
                          /\ SpanOf(B, k, 2 * j, s, s + k) /\ SpanOf(B, k, 2 * j + 1, s + k, e)
<1>2. e - s \in Nat /\ e - s >= 2
  OBVIOUS
<1>3. k \in Powers /\ k \in Nat \ {0} /\ k < e - s /\ e - s <= 2 * k
  <2>1. k \in 1 .. (e - s) - 1 /\ k \in Powers /\ e - s <= 2 * k
    BY <1>2, SplitInside
  <2>2. QED
    BY <1>2, <2>1
<1>4. p \in Nat \ {0} /\ e - s <= p /\ k < p
  <2>1. p \in Nat \ {0}
    BY PowersDouble
  <2>2. QED
    BY <1>3, <2>1 DEF SpanOf
<1>5. PICK t \in Powers : p = k * (2 * t)
  BY <1>3, <1>4, LargerIsTwice
<1>6. 2 * k <= p
  BY <1>3, <1>4, LargerIsTwice
<1>7. t \in Nat
  BY PowersDouble
<1> DEFINE j == t * q
<1>8. j \in Nat /\ p * q = k * (2 * j) /\ k * (2 * j) = (2 * k) * j /\ k * (2 * j + 1) = k * (2 * j) + k
  BY <1>3, <1>5, <1>7
<1> HIDE DEF j
<1>9. s = k * (2 * j) /\ s = (2 * k) * j /\ s + k = k * (2 * j + 1)
  BY <1>8 DEF SpanOf
<1>10. e = s + 2 * k \/ (e = Len(B) /\ e <= s + 2 * k)
  BY <1>3, <1>4, <1>6 DEF SpanOf
<1>11. SpanOf(B, 2 * k, j, s, e)
  BY <1>9, <1>10 DEF SpanOf
<1>12. SpanOf(B, k, 2 * j, s, s + k)
  BY <1>9 DEF SpanOf
<1>13. SpanOf(B, k, 2 * j + 1, s + k, e)
  <2>1. e = (s + k) + k \/ (e = Len(B) /\ e <= (s + k) + k)
    BY <1>3, <1>10
  <2>2. QED
    BY <1>9, <2>1 DEF SpanOf
<1>14. QED
  BY <1>3, <1>8, <1>9, <1>11, <1>12, <1>13

(* The half that is gone through is a span of that kind too. *)
LEMMA ReachedIsCut ==
  ASSUME NEW B, Len(B) \in Nat, NEW m \in Nat, NEW s \in 0 .. Len(B), NEW e \in s .. Len(B),
         s < m, m <= e, m # e, Reached(B, m, s, e), NEW k, k = SplitPoint(e - s)
  PROVE  /\ k \in Powers /\ k \in Nat \ {0} /\ k < e - s
         /\ \E j \in Nat : SpanOf(B, 2 * k, j, s, e) /\ s = k * (2 * j) /\ s + k = k * (2 * j + 1)
         /\ m <= s + k => Reached(B, m, s, s + k)
         /\ ~(m <= s + k) => Reached(B, m, s + k, e)
<1>1. PICK p \in Powers, q \in Nat : SpanOf(B, p, q, s, e)
  BY DEF Reached
<1>2. e - s >= 2
  OBVIOUS
<1>3. /\ k \in Powers /\ k \in Nat \ {0} /\ k < e - s
      /\ \E j \in Nat : /\ SpanOf(B, 2 * k, j, s, e) /\ s = k * (2 * j) /\ s + k = k * (2 * j + 1)
                       /\ SpanOf(B, k, 2 * j, s, s + k) /\ SpanOf(B, k, 2 * j + 1, s + k, e)
  BY <1>1, <1>2, SpanIsCut
<1>4. PICK j \in Nat : /\ SpanOf(B, 2 * k, j, s, e) /\ s = k * (2 * j) /\ s + k = k * (2 * j + 1)
                       /\ SpanOf(B, k, 2 * j, s, s + k) /\ SpanOf(B, k, 2 * j + 1, s + k, e)
  BY <1>3
<1>5. 2 * j \in Nat /\ Even(2 * j) /\ 2 * j + 1 \in Nat
  BY DEF Even
<1>6. Reached(B, m, s, s + k)
  BY <1>3, <1>4, <1>5 DEF Reached
<1>7. Reached(B, m, s + k, e)
  BY <1>3, <1>4, <1>5 DEF Reached
<1>8. QED
  BY <1>3, <1>4, <1>6, <1>7

-----------------------------------------------------------------------------
LEMMA MultipleOnLevel ==
  ASSUME NEW k \in Nat \ {0}, NEW q \in Nat, NEW x \in Nat, k * q = x PROVE OnLevel(k, q, x)
BY DEF OnLevel

(* The sibling to the right: only the newer tree's hash takes it in. *)
LEMMA RightSibling ==
  ASSUME NEW B, Len(B) \in Nat, NEW m \in Nat, NEW s \in 0 .. Len(B), NEW e \in s .. Len(B),
         s < m, m <= e, NEW k \in Powers, k = SplitPoint(e - s), k < e - s,
         NEW j \in Nat, SpanOf(B, 2 * k, j, s, e), SpanOf(B, k, 2 * j, s, s + k),
         NEW w, AtSpan(B, m, w, s, s + k)
  PROVE  AtSpan(B, m, ConsistencyStep(w, SpanHash(B)[<<s + k, e>>]), s, e)
<1> DEFINE c == SpanHash(B)[<<s + k, e>>]
           v == ConsistencyStep(w, c)
           x == Len(B) - 1
<1>1. /\ k \in Nat \ {0} /\ s + k < e /\ e <= Len(B) /\ s \in Nat /\ e \in Nat /\ x \in Nat
      /\ e >= s + 2
  BY PowersDouble
<1>2. PICK p \in Powers, q \in Nat, r \in Nat :
        w.pos = [fn |-> q, sn |-> r] /\ SpanOf(B, p, q, s, s + k) /\ OnLevel(p, r, x)
  BY DEF AtSpan
<1>3. p = k /\ s = k * q
  <2>1. p \in Nat
    BY PowersDouble
  <2>2. p = k
    <3>1. s + k = s + p \/ s + k = Len(B)
      BY <1>2 DEF SpanOf
    <3>2. QED
      BY <1>1, <2>1, <3>1
  <2>3. QED
    BY <1>2, <2>2 DEF SpanOf
<1>4. q = 2 * j
  <2>1. 2 * j \in Nat
    OBVIOUS
  <2>2. k * (2 * j) = s
    BY DEF SpanOf
  <2>3. OnLevel(k, q, s) /\ OnLevel(k, 2 * j, s)
    BY ONLY <1>1, <1>3, <2>1, <2>2, q \in Nat, MultipleOnLevel
  <2>4. QED
    BY <1>1, <2>1, <2>3, LevelIsOne
<1>5. q <= r /\ q # r
  <2>1. k * q <= x /\ ~(x < k * q + k)
    <3>1. s <= x /\ ~(x < s + k)
      BY <1>1
    <3>2. QED
      BY ONLY <1>3, <3>1
  <2>2. q <= r
    BY <1>1, <1>2, <1>3, <2>1, LevelIsOne
  <2>3. QED
    BY <1>2, <1>3, <2>1, <2>2 DEF OnLevel
<1>6. Even(q) /\ q \div 2 = j
  BY <1>4 DEF Even
<1>7. w.pos.fn = q /\ w.pos.sn = r /\ ~SiblingIsLeft(w.pos)
  BY <1>2, <1>5, <1>6 DEF SiblingIsLeft
<1>8. w.pos.sn # 0
  BY <1>5, <1>7
<1>9. v = [ok |-> w.ok, fr |-> w.fr, sr |-> NodeHash(w.sr, c), pos |-> Above(w.pos)]
  BY <1>7, <1>8 DEF ConsistencyStep
<1>10. Above(w.pos) = [fn |-> j, sn |-> r \div 2]
  BY <1>6, <1>7 DEF Above, Parent
<1>11. SpanHash(B)[<<s, e>>] = NodeHash(SpanHash(B)[<<s, s + k>>], c)
  BY <1>1, HashOfSpan
<1>12. OnLevel(2 * k, r \div 2, x) /\ r \div 2 \in Nat
  BY <1>1, <1>2, <1>3, LevelUp
<1> HIDE DEF v, x
<1>13. v.ok = TRUE /\ v.fr = SpanHash(B)[<<s, m>>] /\ v.sr = SpanHash(B)[<<s, e>>]
  BY <1>9, <1>11 DEF AtSpan
<1>14. v.pos = [fn |-> j, sn |-> r \div 2] /\ 2 * k \in Powers
  BY <1>9, <1>10, PowersDouble DEF ClosedUnderDoubling
<1>15. AtSpan(B, m, v, s, e)
  BY <1>12, <1>13, <1>14 DEF AtSpan, x
<1>16. QED
  BY <1>15 DEF v

(* The sibling to the left: both hashes do, and the position may skip levels. *)
LEMMA LeftSibling ==
  ASSUME NEW B, Len(B) \in Nat, NEW m \in Nat, NEW s \in 0 .. Len(B), NEW e \in s .. Len(B),
         m <= e, NEW k \in Powers, k = SplitPoint(e - s), k < e - s, s + k < m,
         NEW j \in Nat, SpanOf(B, 2 * k, j, s, e), SpanOf(B, k, 2 * j + 1, s + k, e),
         NEW w, AtSpan(B, m, w, s + k, e)
  PROVE  AtSpan(B, m, ConsistencyStep(w, SpanHash(B)[<<s, s + k>>]), s, e)
<1> DEFINE c == SpanHash(B)[<<s, s + k>>]
           v == ConsistencyStep(w, c)
           x == Len(B) - 1
           odd == 2 * j + 1
<1>1. /\ k \in Nat \ {0} /\ s + k < e /\ e <= Len(B) /\ s \in Nat /\ e \in Nat /\ x \in Nat
      /\ m \in Nat /\ s + k < m /\ m <= e /\ e - s >= 2 /\ e >= s + 2
  BY PowersDouble
<1>2. PICK p \in Powers, q \in Nat, r \in Nat :
        w.pos = [fn |-> q, sn |-> r] /\ SpanOf(B, p, q, s + k, e) /\ OnLevel(p, r, x)
  BY DEF AtSpan
<1>3. p \in Nat \ {0} /\ odd \in Nat /\ ~Even(odd) /\ odd \div 2 = j
  BY PowersDouble DEF Even
<1>4. OnLevel(k, odd, s + k) /\ OnLevel(p, q, s + k) /\ s + k \in Nat /\ k * odd = s + k /\ p * q = s + k
  <2>1. k * odd = s + k /\ p * q = s + k
    BY <1>2 DEF SpanOf
  <2>2. s + k \in Nat
    BY <1>1
  <2>3. QED
    BY <1>1, <1>3, <2>1, <2>2, MultipleOnLevel
<1> HIDE DEF odd
<1>5. q <= r
  <2>1. p * q <= x
    BY <1>1, <1>4
  <2>2. QED
    BY <1>1, <1>2, <1>3, <2>1, LevelIsOne
<1>6. ~(k < p)
  <2> SUFFICES ASSUME k < p PROVE FALSE
    OBVIOUS
  <2>1. PICK t \in Powers : p = k * (2 * t)
    BY LargerIsTwice
  <2>2. t \in Nat
    BY PowersDouble
  <2> DEFINE u == t * q
  <2>3. u \in Nat /\ p * q = k * (2 * u)
    BY <1>1, <2>1, <2>2
  <2> HIDE DEF u
  <2>4. OnLevel(k, 2 * u, s + k) /\ 2 * u \in Nat
    <3>1. 2 * u \in Nat /\ k * (2 * u) = s + k /\ s + k \in Nat
      BY ONLY <1>4, <2>3
    <3>2. QED
      BY ONLY <1>1, <3>1, MultipleOnLevel
  <2>5. odd = 2 * u
    BY <1>1, <1>3, <1>4, <2>4, LevelIsOne
  <2>6. QED
    BY <1>3, <2>3, <2>5 DEF Even
(* Where the position is, whether it is level with the sibling or below it. *)
<1>7. /\ SiblingIsLeft([fn |-> q, sn |-> r])
      /\ \E t \in Powers : k = p * t /\ q = t * odd
  <2>1. CASE p = k
    <3>1. q = odd
      BY <1>1, <1>3, <1>4, <2>1, LevelIsOne
    <3>2. k = p * 1 /\ q = 1 * odd /\ 1 \in Powers
      BY <1>1, <1>3, <2>1, <3>1, PowersDouble DEF ClosedUnderDoubling
    <3>3. SiblingIsLeft([fn |-> q, sn |-> r])
      BY <1>3, <3>1 DEF SiblingIsLeft
    <3>4. QED
      BY <3>2, <3>3
  <2>2. CASE p # k
    <3>1. p < k
      BY <1>1, <1>3, <1>6, <2>2
    <3>2. PICK t \in Powers : k = p * (2 * t)
      BY <3>1, LargerIsTwice
    <3>3. t \in Nat /\ 2 * t \in Powers
      BY PowersDouble DEF ClosedUnderDoubling
    <3> DEFINE a == 2 * t
               u == a * odd
    <3>4. u \in Nat /\ k * odd = p * u
      <4>1. k = p * a /\ a \in Nat
        BY <3>2, <3>3
      <4> HIDE DEF a
      <4>2. QED
        BY ONLY <1>3, <4>1
    <3>5. q = u
      <4> HIDE DEF u
      <4>1. OnLevel(p, u, s + k)
        BY <1>3, <1>4, <3>4, MultipleOnLevel
      <4>2. QED
        BY <1>3, <1>4, <3>4, <4>1, LevelIsOne
    <3>6. q = r
      <4>1. e = Len(B) /\ e <= (s + k) + p
        <5>1. e = s + 2 * k \/ e = Len(B)
          BY DEF SpanOf
        <5>2. e = (s + k) + p \/ (e = Len(B) /\ e <= (s + k) + p)
          BY <1>2 DEF SpanOf
        <5>3. (s + k) + p < s + 2 * k
          BY <1>1, <1>3, <3>1
        <5>4. QED
          BY ONLY <1>1, <1>3, <5>1, <5>2, <5>3
      <4>2. OnLevel(p, q, x)
        <5>1. p * q <= x /\ x < p * q + p
          <6>1. s + k <= x /\ x < (s + k) + p
            BY ONLY <1>1, <1>3, <4>1, Len(B) \in Nat DEF x
          <6>2. QED
            BY ONLY <1>4, <6>1
        <5>2. QED
          BY <5>1 DEF OnLevel
      <4>3. QED
        BY <1>1, <1>2, <1>3, <4>2, LevelIsOne
    <3>7. SiblingIsLeft([fn |-> q, sn |-> r])
      BY <3>6 DEF SiblingIsLeft
    <3>8. QED
      BY <3>2, <3>3, <3>5, <3>7
  <2>3. QED
    BY <2>1, <2>2
<1>8. PICK t \in Powers : k = p * t /\ q = t * odd
  BY <1>7
<1>9. t \in Nat \ {0}
  BY PowersDouble
<1>10. PICK u \in Nat : OnLevel(t, u, r) /\ SkipLevels([fn |-> q, sn |-> r]) = [fn |-> odd, sn |-> u]
  <2>1. \E u \in Nat : OnLevel(t, u, r) /\ SkipLevels([fn |-> q, sn |-> r]) = [fn |-> odd, sn |-> u]
    BY ONLY <1>3, <1>8, q \in Nat, r \in Nat, t \in Powers, SkipsToOdd
  <2>2. QED
    BY ONLY <2>1
<1>11. OnLevel(k, u, x)
  BY <1>1, <1>2, <1>3, <1>8, <1>9, <1>10, LevelOfLevel
<1>12. OnLevel(2 * k, u \div 2, x) /\ u \div 2 \in Nat
  BY <1>1, <1>11, LevelUp
<1>13. r # 0
  <2>1. q # 0
    BY <1>1, <1>3, <1>4
  <2>2. QED
    BY <1>5, <2>1
<1>14. Above(w.pos) = [fn |-> j, sn |-> u \div 2]
  <2>1. Above(w.pos) = Parent([fn |-> odd, sn |-> u])
    BY <1>2, <1>7, <1>10 DEF Above
  <2>2. QED
    BY <1>3, <2>1 DEF Parent
<1>15. v = [ok |-> w.ok, fr |-> NodeHash(c, w.fr), sr |-> NodeHash(c, w.sr), pos |-> Above(w.pos)]
  BY <1>2, <1>7, <1>13 DEF ConsistencyStep
<1>16. SpanHash(B)[<<s, e>>] = NodeHash(c, SpanHash(B)[<<s + k, e>>])
  BY <1>1, HashOfSpan
<1>17. SpanHash(B)[<<s, m>>] = NodeHash(c, SpanHash(B)[<<s + k, m>>])
  <2>1. m \in s .. Len(B) /\ m >= s + 2 /\ m - s \in Nat /\ m - s >= 2 /\ k < m - s
    BY <1>1
  <2>2. m - s <= 2 * k
    <3>1. e = s + 2 * k \/ e <= s + 2 * k
      BY DEF SpanOf
    <3>2. QED
      BY <1>1, <3>1
  <2>3. SplitPoint(m - s) = k
    BY <2>1, <2>2, SplitIsOnly
  <2>4. QED
    BY <2>1, <2>3, HashOfSpan
<1> HIDE DEF v, x
<1>18. v.ok = TRUE /\ v.fr = SpanHash(B)[<<s, m>>] /\ v.sr = SpanHash(B)[<<s, e>>]
  BY <1>15, <1>16, <1>17 DEF AtSpan
<1>19. v.pos = [fn |-> j, sn |-> u \div 2] /\ 2 * k \in Powers
  BY <1>14, <1>15, PowersDouble DEF ClosedUnderDoubling
<1>20. AtSpan(B, m, v, s, e)
  BY <1>12, <1>18, <1>19 DEF AtSpan, x
<1>21. QED
  BY <1>20 DEF v

-----------------------------------------------------------------------------
(* An inclusion proof that verifies is of the entry at its index.           *)

(* A product of powers is a power. *)
LEMMA PowersMultiply == ASSUME NEW p \in Powers, NEW t \in Powers PROVE p * t \in Powers
<1> DEFINE T == {k \in Powers : p * k \in Powers}
<1>1. p \in Nat \ {0} /\ T \in SUBSET Nat
  BY PowersDouble
<1>2. 1 \in T
  BY <1>1, PowersDouble DEF ClosedUnderDoubling
<1>3. ASSUME NEW k \in T PROVE 2 * k \in T
  <2>1. k \in Nat
    BY <1>1
  <2>2. p * (2 * k) = 2 * (p * k)
    BY ONLY <1>1, <2>1
  <2>3. QED
    BY <2>2, PowersDouble DEF ClosedUnderDoubling
<1>4. ClosedUnderDoubling(T)
  BY <1>2, <1>3 DEF ClosedUnderDoubling
<1>5. QED
  BY <1>1, <1>4 DEF Powers

(* Every position but the first is an odd one, some levels down. *)
LEMMA OddPart ==
  ASSUME NEW q \in Nat \ {0}
  PROVE  \E t \in Powers : \E o \in Nat : ~Even(o) /\ q = t * o
<1> DEFINE Odd(x) == \E t \in Powers : \E o \in Nat : ~Even(o) /\ x = t * o
           Bad == {x \in Nat : x # 0 /\ ~Odd(x)}
<1>1. SUFFICES ASSUME Bad # {} PROVE FALSE
  OBVIOUS
<1>2. PICK x \in Bad : \A y \in Bad : x <= y
  BY <1>1, LeastCounterexample
<1>3. x \in Nat \ {0} /\ ~Odd(x)
  BY <1>2
<1>4. Even(x)
  <2>1. 1 \in Powers /\ x = 1 * x
    BY <1>3, PowersDouble DEF ClosedUnderDoubling
  <2>2. QED
    BY <1>3, <2>1
<1> DEFINE h == x \div 2
<1>5. h \in Nat \ {0} /\ x = 2 * h /\ ~(x <= h)
  BY <1>3, <1>4 DEF Even
<1> HIDE DEF h
<1>6. Odd(h)
  <2> HIDE DEF Odd
  <2>1. QED
    BY <1>2, <1>5
<1>7. PICK t \in Powers, o \in Nat : ~Even(o) /\ h = t * o
  BY <1>6
<1>8. 2 * t \in Powers /\ x = (2 * t) * o
  <2>1. t \in Nat
    BY PowersDouble
  <2>2. 2 * (t * o) = (2 * t) * o
    BY <2>1
  <2>3. QED
    BY <1>5, <1>7, <2>2, PowersDouble DEF ClosedUnderDoubling
<1>9. QED
  BY <1>3, <1>7, <1>8

(* The node over a span, at the level and the position of a walk. *)
AtNode(B, p, q, r, s, e) ==
  /\ p \in Powers /\ q \in Nat /\ r \in Nat
  /\ s \in 0 .. Len(B) /\ e \in 0 .. Len(B) /\ s < e
  /\ SpanOf(B, p, q, s, e) /\ OnLevel(p, r, Len(B) - 1)

(* The node above one with a right sibling. *)
LEMMA ClimbRight ==
  ASSUME NEW B, Len(B) \in Nat, NEW p, NEW q, NEW r, NEW s, NEW e, AtNode(B, p, q, r, s, e), Even(q), q # r
  PROVE  \E f \in 0 .. Len(B) :
           /\ e < f /\ AtNode(B, 2 * p, q \div 2, r \div 2, s, f)
           /\ SpanHash(B)[<<s, f>>] = NodeHash(SpanHash(B)[<<s, e>>], SpanHash(B)[<<e, f>>])
<1> DEFINE n == Len(B)
           x == n - 1
           j == q \div 2
           f == IF s + 2 * p <= n THEN s + 2 * p ELSE n
<1>1. /\ p \in Nat \ {0} /\ q \in Nat /\ r \in Nat /\ n \in Nat /\ x \in Nat /\ s \in Nat /\ e \in Nat
      /\ s < e /\ e <= n /\ s = p * q /\ 2 * p \in Powers
      /\ (e = s + p \/ (e = n /\ e <= s + p)) /\ OnLevel(p, r, x)
  BY PowersDouble DEF AtNode, SpanOf, ClosedUnderDoubling
<1>2. q <= r
  <2>1. p * q <= x
    BY <1>1
  <2>2. QED
    BY <1>1, <2>1, LevelIsOne
<1>3. ~OnLevel(p, q, x)
  BY <1>1, LevelIsOne
<1>4. s + p <= x
  BY <1>1, <1>3 DEF OnLevel
<1>5. e = s + p
  BY <1>1, <1>4
<1>6. j \in Nat /\ q = 2 * j
  BY <1>1 DEF Even
<1>7. s = (2 * p) * j
  <2> HIDE DEF j
  <2>1. p * (2 * j) = (2 * p) * j
    BY <1>1, <1>6
  <2>2. QED
    BY <1>1, <1>6, <2>1
<1>8. OnLevel(2 * p, r \div 2, x) /\ r \div 2 \in Nat
  BY <1>1, LevelUp
<1>9. f \in 0 .. n /\ e < f /\ s < f /\ f - s >= 2 /\ f - s \in Nat /\ p < f - s /\ f - s <= 2 * p /\ f >= s + 2
  <2>1. (f = s + 2 * p /\ s + 2 * p <= n) \/ (f = n /\ ~(s + 2 * p <= n))
    OBVIOUS
  <2>2. p \in Nat \ {0} /\ n \in Nat /\ s \in Nat /\ s + p < n /\ e = s + p
    BY <1>1, <1>4, <1>5
  <2> HIDE DEF f, n
  <2>3. QED
    BY ONLY <2>1, <2>2
<1>10. f = s + 2 * p \/ (f = n /\ f <= s + 2 * p)
  BY <1>1
<1>11. SplitPoint(f - s) = p
  <2> HIDE DEF f
  <2>1. p \in Powers
    BY DEF AtNode
  <2>2. QED
    BY <1>9, <2>1, SplitIsOnly
<1> HIDE DEF f, j
<1>12. SpanHash(B)[<<s, f>>] = NodeHash(SpanHash(B)[<<s, e>>], SpanHash(B)[<<e, f>>])
  <2>1. s \in 0 .. Len(B) /\ f \in s .. Len(B)
    BY <1>1, <1>9
  <2>2. QED
    BY <1>5, <1>9, <1>11, <2>1, HashOfSpan
<1>13. AtNode(B, 2 * p, j, r \div 2, s, f)
  BY <1>1, <1>6, <1>7, <1>8, <1>9, <1>10 DEF AtNode, SpanOf
<1>14. QED
  BY <1>9, <1>12, <1>13 DEF j

\* A step that takes a left sibling in goes from the node over s .. e to one over a .. e.
StepsLeft(B, pos, s, e, k, j, u, a) ==
  /\ k \in Powers /\ j \in Nat /\ u \in Nat /\ a \in 0 .. Len(B)
  /\ Above(pos) = [fn |-> j, sn |-> u]
  /\ a < s /\ AtNode(B, 2 * k, j, u, a, e)
  /\ SpanHash(B)[<<a, e>>] = NodeHash(SpanHash(B)[<<a, s>>], SpanHash(B)[<<s, e>>])

(* The node above one with a left sibling: a right edge of the tree is first
   a node some levels up. *)
LEMMA ClimbLeft ==
  ASSUME NEW B, Len(B) \in Nat, NEW p, NEW q, NEW r, NEW s, NEW e, AtNode(B, p, q, r, s, e),
         NEW pos, pos = [fn |-> q, sn |-> r], SiblingIsLeft(pos), r # 0
  PROVE  \E k, j, u, a : StepsLeft(B, pos, s, e, k, j, u, a)
<1> DEFINE n == Len(B)
           x == n - 1
<1>1. /\ p \in Nat \ {0} /\ p \in Powers /\ q \in Nat /\ r \in Nat /\ n \in Nat /\ x \in Nat
      /\ s \in Nat /\ e \in Nat /\ s < e /\ e <= n /\ s = p * q
      /\ (e = s + p \/ (e = n /\ e <= s + p)) /\ OnLevel(p, r, x)
  BY PowersDouble DEF AtNode, SpanOf
<1>2. PICK t \in Powers, o \in Nat :
        ~Even(o) /\ q = t * o /\ (Even(q) => q = r) /\ (~Even(q) => t = 1)
  <2>1. CASE Even(q)
    <3>1. q = r /\ q \in Nat \ {0}
      BY <1>1, <2>1 DEF SiblingIsLeft
    <3>2. QED
      BY <2>1, <3>1, OddPart
  <2>2. CASE ~Even(q)
    <3>1. 1 \in Powers /\ q = 1 * q
      BY <1>1, PowersDouble DEF ClosedUnderDoubling
    <3>2. QED
      BY <1>1, <2>2, <3>1
  <2>3. QED
    BY <2>1, <2>2
<1> DEFINE k == p * t
           j == o \div 2
           a == s - k
<1>3. t \in Nat \ {0} /\ k \in Powers /\ k \in Nat \ {0} /\ 2 * k \in Powers
  <2>1. k \in Powers
    BY <1>1, PowersMultiply
  <2> HIDE DEF k
  <2>2. QED
    BY <2>1, PowersDouble DEF ClosedUnderDoubling
<1>4. s = k * o
  <2>1. p * (t * o) = (p * t) * o
    BY <1>1, <1>3
  <2>2. QED
    BY <1>1, <1>2, <2>1
<1>5. PICK v \in Nat : OnLevel(t, v, r) /\ SkipLevels([fn |-> q, sn |-> r]) = [fn |-> o, sn |-> v]
  BY <1>1, <1>2, SkipsToOdd
<1>6. OnLevel(k, v, x)
  BY <1>1, <1>3, <1>5, LevelOfLevel
<1>7. p <= k
  <2>1. t - 1 \in Nat
    BY <1>3
  <2>2. p * (t - 1) >= 0 /\ p * (t - 1) = p * t - p
    BY <1>1, <2>1
  <2>3. p * t \in Nat
    BY <1>1, <1>3
  <2>4. QED
    BY <1>1, <2>2, <2>3
<1>8. t = 1 => k = p
  BY <1>1
<1> HIDE DEF k
<1>9. e = s + k \/ (e = n /\ e <= s + k)
  <2>1. CASE Even(q)
    <3>1. OnLevel(p, q, x)
      BY <1>1, <1>2, <2>1
    <3>2. n <= s + p
      BY <1>1, <3>1 DEF OnLevel
    <3>3. e = n
      BY <1>1, <3>2
    <3>4. QED
      BY <1>1, <1>3, <1>7, <3>2, <3>3
  <2>2. CASE ~Even(q)
    BY <1>1, <1>2, <1>8, <2>2
  <2>3. QED
    BY <2>1, <2>2
<1>10. j \in Nat /\ o = 2 * j + 1
  BY <1>2 DEF Even
<1> HIDE DEF j
<1>11. a = (2 * k) * j /\ a \in Nat
  <2>1. k * (2 * j + 1) = (2 * k) * j + k /\ (2 * k) * j \in Nat
    BY <1>3, <1>10
  <2>2. QED
    BY <1>3, <1>4, <1>10, <2>1
<1>12. OnLevel(2 * k, v \div 2, x) /\ v \div 2 \in Nat
  BY <1>1, <1>3, <1>6, LevelUp
<1>13. Above(pos) = [fn |-> j, sn |-> v \div 2]
  <2>1. Above(pos) = Parent([fn |-> o, sn |-> v])
    BY <1>5 DEF Above
  <2>2. QED
    BY <2>1 DEF Parent, j
<1>14. /\ a \in 0 .. n /\ a < s /\ a + k = s /\ e - a \in Nat /\ e - a >= 2 /\ k < e - a /\ e - a <= 2 * k
       /\ a < e /\ e \in a .. n /\ e >= a + 2 /\ (e = a + 2 * k \/ (e = n /\ e <= a + 2 * k))
  BY <1>1, <1>3, <1>9, <1>11
<1> HIDE DEF a
<1>15. SplitPoint(e - a) = k
  BY <1>3, <1>14, SplitIsOnly
<1>16. SpanHash(B)[<<a, e>>] = NodeHash(SpanHash(B)[<<a, s>>], SpanHash(B)[<<s, e>>])
  BY <1>14, <1>15, HashOfSpan
<1>17. AtNode(B, 2 * k, j, v \div 2, a, e)
  BY <1>1, <1>3, <1>10, <1>11, <1>12, <1>14 DEF AtNode, SpanOf
<1>18. QED
  BY <1>3, <1>10, <1>12, <1>13, <1>14, <1>16, <1>17 DEF StepsLeft

(* A walk from a hash h at an index is at a node over that entry; had it the
   hash of that node, h would be the hash of the entry. *)
WalkedOver(B, index, h, w) ==
  \E p, q, r, s, e :
    /\ w.pos = [fn |-> q, sn |-> r] /\ AtNode(B, p, q, r, s, e)
    /\ s <= index /\ index < e
    /\ w.r = SpanHash(B)[<<s, e>>] => h = SpanHash(B)[<<index, index + 1>>]

LEMMA StepStaysOver ==
  ASSUME NEW B, Len(B) \in Nat, NEW index \in Nat, NEW h, NEW w, WalkedOver(B, index, h, w), NEW c, w.pos.sn # 0
  PROVE  WalkedOver(B, index, h, InclusionStep(w, c))
<1>1. PICK p, q, r, s, e :
        /\ w.pos = [fn |-> q, sn |-> r] /\ AtNode(B, p, q, r, s, e)
        /\ s <= index /\ index < e
        /\ w.r = SpanHash(B)[<<s, e>>] => h = SpanHash(B)[<<index, index + 1>>]
  BY DEF WalkedOver
<1> DEFINE v == InclusionStep(w, c)
<1>2. s \in Nat /\ e \in Nat /\ q \in Nat /\ r \in Nat /\ r # 0
  BY <1>1 DEF AtNode
<1>3. v = [ok |-> w.ok,
           r |-> IF SiblingIsLeft(w.pos) THEN NodeHash(c, w.r) ELSE NodeHash(w.r, c),
           pos |-> Above(w.pos)]
  BY DEF InclusionStep
<1> HIDE DEF v
<1>4. CASE SiblingIsLeft(w.pos)
  <2>1. PICK k, j, u, a : StepsLeft(B, w.pos, s, e, k, j, u, a)
    <3>1. AtNode(B, p, q, r, s, e) /\ w.pos = [fn |-> q, sn |-> r] /\ SiblingIsLeft(w.pos) /\ r # 0
      BY <1>1, <1>2, <1>4
    <3>2. QED
      BY ONLY <3>1, Len(B) \in Nat, ClimbLeft
  <2>2. v.r = NodeHash(c, w.r) /\ v.pos = [fn |-> j, sn |-> u] /\ a <= index
    BY <1>1, <1>2, <1>3, <1>4, <2>1 DEF StepsLeft
  <2>3. v.r = SpanHash(B)[<<a, e>>] => w.r = SpanHash(B)[<<s, e>>]
    <3>1. v.r = NodeHash(c, w.r) /\ SpanHash(B)[<<a, e>>] = NodeHash(SpanHash(B)[<<a, s>>], SpanHash(B)[<<s, e>>])
      BY <2>1, <2>2 DEF StepsLeft
    <3> DEFINE x == SpanHash(B)[<<a, e>>]
               y == SpanHash(B)[<<s, e>>]
               z == SpanHash(B)[<<a, s>>]
    <3>2. v.r = NodeHash(c, w.r) /\ x = NodeHash(z, y)
      BY <3>1
    <3> HIDE DEF x, y, z
    <3>3. v.r = x => w.r = y
      BY ONLY <3>2, HashesApart
    <3>4. QED
      BY <3>3 DEF x, y
  <2>4. QED
    BY <1>1, <2>1, <2>2, <2>3 DEF WalkedOver, StepsLeft, v
<1>5. CASE ~SiblingIsLeft(w.pos)
  <2>1. Even(q) /\ q # r /\ Above(w.pos) = [fn |-> q \div 2, sn |-> r \div 2]
    BY <1>1, <1>5 DEF SiblingIsLeft, Above, Parent
  <2>2. PICK f \in 0 .. Len(B) :
          /\ e < f /\ AtNode(B, 2 * p, q \div 2, r \div 2, s, f)
          /\ SpanHash(B)[<<s, f>>] = NodeHash(SpanHash(B)[<<s, e>>], SpanHash(B)[<<e, f>>])
    BY <1>1, <2>1, ClimbRight
  <2>3. v.r = NodeHash(w.r, c) /\ v.pos = [fn |-> q \div 2, sn |-> r \div 2] /\ index < f
    BY <1>1, <1>2, <1>3, <1>5, <2>1, <2>2
  <2>4. v.r = SpanHash(B)[<<s, f>>] => w.r = SpanHash(B)[<<s, e>>]
    <3>1. v.r = NodeHash(w.r, c) /\ SpanHash(B)[<<s, f>>] = NodeHash(SpanHash(B)[<<s, e>>], SpanHash(B)[<<e, f>>])
      BY <2>2, <2>3
    <3> DEFINE x == SpanHash(B)[<<s, f>>]
               y == SpanHash(B)[<<s, e>>]
               z == SpanHash(B)[<<e, f>>]
    <3>2. v.r = NodeHash(w.r, c) /\ x = NodeHash(y, z)
      BY <3>1
    <3> HIDE DEF x, y, z
    <3>3. v.r = x => w.r = y
      BY ONLY <3>2, HashesApart
    <3>4. QED
      BY <3>3 DEF x, y
  <2>5. QED
    BY <1>1, <2>2, <2>3, <2>4 DEF WalkedOver, v
<1>6. QED
  BY <1>4, <1>5

LEMMA WalkStaysOver ==
  ASSUME NEW B, Len(B) \in Nat, NEW index \in Nat, NEW start, NEW path, Len(path) \in Nat,
         WalkedOver(B, index, start.r, start), InclusionWalk(start, path).ok
  PROVE  WalkedOver(B, index, start.r, InclusionWalk(start, path))
<1> DEFINE g == CHOOSE g : WalksOn(start, path, Len(path), g)
           last == Len(path)
           Good(i) == g[i].ok => WalkedOver(B, index, start.r, g[i])
           Bad == {i \in Nat : i <= last /\ ~Good(i)}
<1>1. WalksOn(start, path, last, g)
  BY WalkExists
<1>2. g[last] = InclusionWalk(start, path)
  BY WalkIs
<1>3. ASSUME NEW i \in 0 .. last PROVE g[i] = WalkedTo(start, path, g, i)
  BY <1>1, <1>3 DEF WalksOn
<1> HIDE DEF g
<1>4. Bad = {}
  <2> SUFFICES ASSUME Bad # {} PROVE FALSE
    OBVIOUS
  <2>1. PICK i \in Bad : \A v \in Bad : i <= v
    BY LeastCounterexample
  <2>2. i \in Nat /\ i <= last /\ i \in 0 .. last /\ ~Good(i)
    BY <2>1
  <2>3. i # 0
    <3>1. 0 \in 0 .. last
      OBVIOUS
    <3>2. g[0] = start
      BY <1>3, <3>1 DEF WalkedTo
    <3>3. QED
      BY <2>2, <3>2
  <2>4. i - 1 \in Nat /\ i - 1 <= last /\ ~(i <= i - 1)
    BY <2>2, <2>3
  <2>5. Good(i - 1)
    <3> HIDE DEF Good
    <3>1. QED
      BY <2>1, <2>4
  <2> DEFINE w == g[i - 1]
  <2>6. g[i] = InclusionStep(w, path[i])
    BY <1>3, <2>2, <2>3 DEF WalkedTo
  <2>7. w.ok => WalkedOver(B, index, start.r, w)
    BY <2>5
  <2> HIDE DEF w
  <2>8. CASE w.pos.sn = 0
    <3>1. ~g[i].ok
      BY <2>6, <2>8 DEF InclusionStep
    <3>2. QED
      BY <2>2, <3>1
  <2>9. CASE w.pos.sn # 0
    <3>1. g[i].ok <=> w.ok
      BY <2>6, <2>9 DEF InclusionStep
    <3>2. w.ok => WalkedOver(B, index, start.r, g[i])
      BY <2>6, <2>7, <2>9, StepStaysOver
    <3>3. QED
      BY <2>2, <3>1, <3>2
  <2>10. QED
    BY <2>8, <2>9
<1>5. Good(last)
  <2> HIDE DEF Good
  <2>1. last \in Nat /\ last <= last
    OBVIOUS
  <2>2. QED
    BY <1>4, <2>1
<1>6. QED
  BY <1>2, <1>5

(* verifyInclusion holds, against the root of a tree, only of the entry at the
   index it is given: the log cannot pass one entry off for another, nor one
   position for another. *)
THEOREM InclusionIsSound ==
  ASSUME NEW entries, Len(entries) \in Nat, NEW entry, NEW index, NEW path, Len(path) \in Nat,
         VerifyInclusion(entry, index, Len(entries), path, MerkleRoot(entries))
  PROVE  index \in 0 .. Len(entries) - 1 /\ entries[index + 1] = entry
<1> DEFINE n == Len(entries)
           start == [ok |-> TRUE, r |-> LeafHash(entry), pos |-> [fn |-> index, sn |-> n - 1]]
           end == InclusionWalk(start, path)
           mth == SpanHash(entries)
<1>1. /\ n \in Nat \ {0} /\ index \in Nat /\ index < n
      /\ end.ok /\ end.pos.sn = 0 /\ end.r = mth[<<0, n>>]
  BY DEF VerifyInclusion, MerkleRoot
<1>2. start.r = LeafHash(entry) /\ start.pos = [fn |-> index, sn |-> n - 1]
  OBVIOUS
<1> HIDE DEF start
<1>3. AtNode(entries, 1, index, n - 1, index, index + 1)
  <2>1. 1 \in Powers
    BY PowersDouble DEF ClosedUnderDoubling
  <2>2. QED
    BY <1>1, <2>1 DEF AtNode, SpanOf, OnLevel
<1>4. WalkedOver(entries, index, start.r, start)
  BY <1>1, <1>2, <1>3 DEF WalkedOver
<1>5. WalkedOver(entries, index, start.r, end)
  BY <1>1, <1>4, WalkStaysOver
<1> HIDE DEF end, mth
<1>6. PICK p, q, r, s, e :
        /\ end.pos = [fn |-> q, sn |-> r] /\ AtNode(entries, p, q, r, s, e)
        /\ s <= index /\ index < e
        /\ end.r = SpanHash(entries)[<<s, e>>] => start.r = SpanHash(entries)[<<index, index + 1>>]
  BY <1>5 DEF WalkedOver
<1>7. /\ r = 0 /\ p \in Nat \ {0} /\ q \in Nat /\ s \in Nat /\ e \in Nat /\ s < e /\ e <= n
      /\ s = p * q /\ (e = s + p \/ e = n) /\ OnLevel(p, r, n - 1)
  BY <1>1, <1>6, PowersDouble DEF AtNode, SpanOf
<1>8. n - 1 < p /\ n - 1 \in Nat
  BY <1>1, <1>7 DEF OnLevel
<1>9. q = 0
  <2>1. p * q <= n - 1
    BY <1>1, <1>7
  <2>2. q <= r
    BY <1>7, <1>8, <2>1, LevelIsOne
  <2>3. QED
    BY <1>7, <2>2
<1>10. s = 0 /\ e = n
  BY <1>1, <1>7, <1>8, <1>9
<1>11. LeafHash(entry) = mth[<<index, index + 1>>]
  BY <1>1, <1>2, <1>6, <1>10 DEF mth
<1>12. mth[<<index, index + 1>>] = LeafHash(entries[index + 1])
  <2>1. index \in 0 .. Len(entries) /\ index + 1 \in index .. Len(entries)
    BY <1>1
  <2>2. QED
    BY <2>1, HashOfSpan DEF mth
<1>13. QED
  BY <1>1, <1>11, <1>12, HashesApart

-----------------------------------------------------------------------------
(* A proof of a tree of 2^d entries has d + 1 nodes at most.                *)

IsProof(B, d, path) == path \in Seq(Hashes(B)) /\ Len(path) <= d + 1

Short(B, m, g, d, p) ==
  /\ p \in Powers
  /\ \A s \in 0 .. Len(B) : \A e \in s .. Len(B) :
       s < m /\ m <= e /\ e - s <= p => IsProof(B, d, g[<<s, e>>])

(* The rest of a proof that base has is a hash at most. *)
LEMMA EndIsProof ==
  ASSUME NEW B, NEW m, NEW base, NEW g, MadeOf(B, m, base, g), NEW d \in Nat, NEW se \in DOMAIN base
  PROVE  IsProof(B, d, g[se])
<1>1. g[se] = base[se]
  BY MadeAtEnd
<1>2. base[se] \in Seq(Hashes(B)) /\ Len(base[se]) <= 1
  BY DEF MadeOf, IsBase
<1>3. Len(base[se]) \in Nat
  BY <1>2, LenProperties
<1>4. QED
  BY <1>1, <1>2, <1>3 DEF IsProof

LEMMA ShortOfOne ==
  ASSUME NEW B, Len(B) \in Nat, NEW m \in Nat, NEW base, NEW g, MadeOf(B, m, base, g)
  PROVE  Short(B, m, g, 0, 1)
<1>1. 1 \in Powers
  BY PowersDouble DEF ClosedUnderDoubling
<1>2. ASSUME NEW s \in 0 .. Len(B), NEW e \in s .. Len(B), s < m, m <= e, e - s <= 1
      PROVE  IsProof(B, 0, g[<<s, e>>])
  <2> DEFINE se == <<s, e>>
  <2>1. se \in SpansOver(B, m) /\ se[2] = se[1] + 1
    BY <1>2 DEF SpansOver, Spans
  <2> HIDE DEF se
  <2>2. se \in DOMAIN base
    BY <2>1 DEF MadeOf, IsBase
  <2>3. IsProof(B, 0, g[se])
    BY <2>2, EndIsProof
  <2>4. QED
    BY <2>3 DEF se
<1>3. QED
  BY <1>1, <1>2 DEF Short

LEMMA ShortOfTwice ==
  ASSUME NEW B, Len(B) \in Nat, NEW m \in Nat, NEW base, NEW g, MadeOf(B, m, base, g),
         NEW d \in Nat, NEW p \in Nat, Short(B, m, g, d, p)
  PROVE  Short(B, m, g, d + 1, 2 * p)
<1>1. p \in Powers /\ 2 * p \in Powers /\ p \in Nat \ {0}
  BY PowersDouble DEF Short, ClosedUnderDoubling
<1>2. ASSUME NEW s \in 0 .. Len(B), NEW e \in s .. Len(B), s < m, m <= e, e - s <= 2 * p
      PROVE  IsProof(B, d + 1, g[<<s, e>>])
  <2> DEFINE mth == SpanHash(B)
             k == SplitPoint(e - s)
             se == <<s, e>>
  <2>1. CASE e - s <= p
    <3>1. g[<<s, e>>] \in Seq(Hashes(B)) /\ Len(g[<<s, e>>]) <= d + 1
      BY <1>2, <2>1 DEF Short, IsProof
    <3>2. Len(g[<<s, e>>]) \in Nat
      BY <3>1, LenProperties
    <3>3. QED
      BY <3>1, <3>2 DEF IsProof
  <2>2. CASE se \in DOMAIN base
    <3>1. d + 1 \in Nat
      OBVIOUS
    <3> HIDE DEF se
    <3>2. IsProof(B, d + 1, g[se])
      BY <2>2, <3>1, EndIsProof
    <3>3. QED
      BY <3>2 DEF se
  <2>3. CASE ~(e - s <= p) /\ se \notin DOMAIN base
    <3>1. e - s \in Nat /\ e - s >= 2
      BY <1>1, <2>3
    <3>2. k \in 1 .. (e - s) - 1 /\ k \in Powers /\ e - s <= 2 * k
      BY <3>1, SplitInside
    <3>3. ~(p < k)
      <4> SUFFICES ASSUME p < k PROVE FALSE
        OBVIOUS
      <4>1. 2 * p <= k
        BY <1>1, <3>2, LargerIsTwice
      <4>2. QED
        BY <1>1, <1>2, <3>1, <3>2, <4>1
    <3>4. /\ m <= s + k => g[se] = Append(g[<<s, s + k>>], mth[<<s + k, e>>])
          /\ ~(m <= s + k) => g[se] = Append(g[<<s + k, e>>], mth[<<s, s + k>>])
      <4>1. <<s, e>> \in SpansOver(B, m) /\ <<s, e>> \notin DOMAIN base
        BY <1>2, <2>3 DEF SpansOver, Spans
      <4>2. InHalves(B, m, g, s, e)
        BY <4>1, MadeInHalves
      <4>3. QED
        BY <4>2 DEF InHalves
    <3> HIDE DEF k, mth, se
    <3>5. /\ k \in Nat /\ s + k \in 0 .. Len(B) /\ s + k \in s .. Len(B) /\ e \in s + k .. Len(B)
          /\ (s + k) - s <= p /\ e - (s + k) <= p
      BY <1>1, <3>1, <3>2, <3>3
    <3>6. mth[<<s, s + k>>] \in Hashes(B) /\ mth[<<s + k, e>>] \in Hashes(B)
      BY <3>5, SpanHashes DEF mth
    <3>7. ASSUME NEW a \in 0 .. Len(B), NEW b \in a .. Len(B), a < m, m <= b, b - a <= p,
                 NEW c \in Hashes(B), g[se] = Append(g[<<a, b>>], c)
          PROVE  IsProof(B, d + 1, g[se])
      <4>1. g[<<a, b>>] \in Seq(Hashes(B)) /\ Len(g[<<a, b>>]) <= d + 1
        BY <3>7 DEF Short, IsProof
      <4>2. Append(g[<<a, b>>], c) \in Seq(Hashes(B)) /\ Len(Append(g[<<a, b>>], c)) = Len(g[<<a, b>>]) + 1
        BY <4>1, AppendProperties
      <4>3. Len(g[<<a, b>>]) \in Nat
        BY <4>1, LenProperties
      <4>4. QED
        BY <3>7, <4>1, <4>2, <4>3 DEF IsProof
    <3>8. CASE m <= s + k
      <4>1. s < m /\ g[se] = Append(g[<<s, s + k>>], mth[<<s + k, e>>])
        BY <1>2, <3>4, <3>8
      <4>2. IsProof(B, d + 1, g[se])
        BY ONLY <3>5, <3>6, <3>7, <3>8, <4>1, s \in 0 .. Len(B)
      <4>3. QED
        BY <4>2 DEF se
    <3>9. CASE ~(m <= s + k)
      <4>1. m <= e /\ s + k < m
        BY <1>2, <3>5, <3>9
      <4>2. g[se] = Append(g[<<s + k, e>>], mth[<<s, s + k>>])
        BY <3>4, <3>9
      <4>3. IsProof(B, d + 1, g[se])
        BY ONLY <3>5, <3>6, <3>7, <4>1, <4>2, e \in s .. Len(B)
      <4>4. QED
        BY <4>3 DEF se
    <3>10. QED
      BY <3>8, <3>9
  <2>4. QED
    BY <2>1, <2>2, <2>3
<1>3. QED
  BY <1>1, <1>2 DEF Short

LEMMA ShortOfMany ==
  ASSUME NEW B, Len(B) \in Nat, NEW m \in Nat, NEW s \in 0 .. Len(B), NEW e \in s .. Len(B),
         s < m, m <= e, e - s <= MaxTreeSize, NEW base, NEW g, MadeOf(B, m, base, g)
  PROVE  IsProof(B, 31, g[<<s, e>>])
<1>1. ASSUME NEW d \in Nat, NEW p \in Nat, Short(B, m, g, d, p)
      PROVE  Short(B, m, g, d + 8, 256 * p)
  <2>1. Short(B, m, g, d + 1, 2 * p)
    BY <1>1, ShortOfTwice
  <2>2. Short(B, m, g, (d + 1) + 1, 2 * (2 * p))
    BY <2>1, ShortOfTwice
  <2>3. Short(B, m, g, d + 2, 4 * p)
    BY <2>2
  <2>4. Short(B, m, g, (d + 2) + 1, 2 * (4 * p))
    BY <2>3, ShortOfTwice
  <2>5. Short(B, m, g, d + 3, 8 * p)
    BY <2>4
  <2>6. Short(B, m, g, (d + 3) + 1, 2 * (8 * p))
    BY <2>5, ShortOfTwice
  <2>7. Short(B, m, g, d + 4, 16 * p)
    BY <2>6
  <2>8. Short(B, m, g, (d + 4) + 1, 2 * (16 * p))
    BY <2>7, ShortOfTwice
  <2>9. Short(B, m, g, d + 5, 32 * p)
    BY <2>8
  <2>10. Short(B, m, g, (d + 5) + 1, 2 * (32 * p))
    BY <2>9, ShortOfTwice
  <2>11. Short(B, m, g, d + 6, 64 * p)
    BY <2>10
  <2>12. Short(B, m, g, (d + 6) + 1, 2 * (64 * p))
    BY <2>11, ShortOfTwice
  <2>13. Short(B, m, g, d + 7, 128 * p)
    BY <2>12
  <2>14. Short(B, m, g, (d + 7) + 1, 2 * (128 * p))
    BY <2>13, ShortOfTwice
  <2>15. QED
    BY <2>14
<1>2. Short(B, m, g, 1, 2)
  <2>1. Short(B, m, g, 0 + 1, 2 * 1)
    BY ShortOfOne, ShortOfTwice
  <2>2. QED
    BY <2>1
<1>3. Short(B, m, g, 2, 4)
  <2>1. Short(B, m, g, 1 + 1, 2 * 2)
    BY <1>2, ShortOfTwice
  <2>2. QED
    BY <2>1
<1>4. Short(B, m, g, 3, 8)
  <2>1. Short(B, m, g, 2 + 1, 2 * 4)
    BY <1>3, ShortOfTwice
  <2>2. QED
    BY <2>1
<1>5. Short(B, m, g, 4, 16)
  <2>1. Short(B, m, g, 3 + 1, 2 * 8)
    BY <1>4, ShortOfTwice
  <2>2. QED
    BY <2>1
<1>6. Short(B, m, g, 5, 32)
  <2>1. Short(B, m, g, 4 + 1, 2 * 16)
    BY <1>5, ShortOfTwice
  <2>2. QED
    BY <2>1
<1>7. Short(B, m, g, 6, 64)
  <2>1. Short(B, m, g, 5 + 1, 2 * 32)
    BY <1>6, ShortOfTwice
  <2>2. QED
    BY <2>1
<1>8. Short(B, m, g, 7, 128)
  <2>1. Short(B, m, g, 6 + 1, 2 * 64)
    BY <1>7, ShortOfTwice
  <2>2. QED
    BY <2>1
<1>9. Short(B, m, g, 15, 32768)
  <2>1. Short(B, m, g, 7 + 8, 256 * 128)
    BY <1>1, <1>8
  <2>2. QED
    BY <2>1
<1>10. Short(B, m, g, 23, 8388608)
  <2>1. Short(B, m, g, 15 + 8, 256 * 32768)
    BY <1>1, <1>9
  <2>2. QED
    BY <2>1
<1>11. Short(B, m, g, 23 + 8, 256 * 8388608)
  BY <1>1, <1>10
<1>12. e - s <= 256 * 8388608
  BY SMT DEF MaxTreeSize
<1>13. QED
  BY <1>11, <1>12 DEF Short

-----------------------------------------------------------------------------
(* The walk along the log's proof ends at the root.                        *)

(* The hashes the walk takes in: the old root first if the proof leaves it out. *)
Nodes(B, m, path) == IF IsPowerOfTwo(m) THEN <<SpanHash(B)[<<0, m>>]>> \o path ELSE path

WalkStart(B, m) == LastFullNode([fn |-> m - 1, sn |-> Len(B) - 1])

WalksTo(B, m, s, e) ==
  /\ Subproof(B, m)[<<s, e>>] \in Seq(Hashes(B))
  /\ Nodes(B, m, Subproof(B, m)[<<s, e>>]) \in Seq(Hashes(B))
  /\ Nodes(B, m, Subproof(B, m)[<<s, e>>]) # <<>>
  /\ AtSpan(B, m, ConsistencyWalk(Nodes(B, m, Subproof(B, m)[<<s, e>>]), WalkStart(B, m)), s, e)

LEMMA WalkOfOneHash ==
  ASSUME NEW B, Len(B) \in Nat, NEW m \in 1 .. Len(B), NEW s \in 0 .. m, s < m,
         NEW p \in Powers, NEW q \in Nat, SpanOf(B, p, q, s, m), Even(q), m = s + p
  PROVE  AtSpan(B, m, ConsistencyWalk(<<SpanHash(B)[<<s, m>>]>>, WalkStart(B, m)), s, m)
<1> DEFINE x == SpanHash(B)[<<s, m>>]
           pos == WalkStart(B, m)
           w == ConsistencyWalk(<<x>>, pos)
<1>1. m - 1 \in Nat /\ Len(B) - 1 \in Nat /\ m - 1 = (p * q + p) - 1
  <2>1. s = p * q
    BY DEF SpanOf
  <2>2. QED
    BY <2>1
<1>2. PICK r \in Nat : OnLevel(p, r, Len(B) - 1) /\ pos = [fn |-> q, sn |-> r]
  BY <1>1, ClimbsToEven DEF WalkStart
<1> HIDE DEF pos, x
<1>3. w = [ok |-> TRUE, fr |-> x, sr |-> x, pos |-> pos]
  <2>1. w = FirstOfBoth(<<x>>, pos)
    BY WalkOfOne
  <2>2. <<x>>[1] = x
    OBVIOUS
  <2>3. QED
    BY <2>1, <2>2 DEF FirstOfBoth
<1>4. w.ok = TRUE /\ w.fr = x /\ w.sr = x /\ w.pos = pos
  BY <1>3
<1> HIDE DEF w
<1>5. AtSpan(B, m, w, s, m)
  BY <1>2, <1>4 DEF AtSpan, x
<1>6. QED
  BY <1>5 DEF w, x, pos

LEMMA WalkStarts ==
  ASSUME NEW B, Len(B) \in Nat, NEW m \in 1 .. Len(B), NEW s \in 0 .. Len(B), s < m, Reached(B, m, s, m)
  PROVE  WalksTo(B, m, s, m)
<1> DEFINE path == Subproof(B, m)[<<s, m>>]
<1>1. PICK p \in Powers, q \in Nat : SpanOf(B, p, q, s, m) /\ Even(q) /\ m = s + p
  BY DEF Reached
<1>2. /\ m \in Nat \ {0} /\ s \in 0 .. m /\ p \in Nat \ {0} /\ m \in 0 .. Len(B) /\ m \in s .. Len(B)
      /\ 0 \in 0 .. Len(B)
  BY PowersDouble
<1>3. AtSpan(B, m, ConsistencyWalk(<<SpanHash(B)[<<s, m>>]>>, WalkStart(B, m)), s, m)
  BY <1>1, <1>2, WalkOfOneHash
<1>4. SpanHash(B)[<<s, m>>] \in Hashes(B)
  BY <1>2, SpanHashes
<1>5. s = p * q
  BY <1>1 DEF SpanOf
<1> DEFINE x == SpanHash(B)[<<s, m>>]
<1>6. path \in Seq(Hashes(B)) /\ Nodes(B, m, path) = <<x>>
  <2>1. CASE s = 0
    <3>1. m = p
      BY <1>1, <1>2, <2>1
    <3>2. IsPowerOfTwo(m)
      BY <1>1, <1>2, <3>1, PowerOfTwoIs
    <3>3. path = <<>>
      BY <1>2, <2>1, ProofAtFirst
    <3> DEFINE y == SpanHash(B)[<<0, m>>]
    <3>4. y = x
      BY <2>1
    <3> HIDE DEF y, x, path
    <3>5. <<>> \in Seq(Hashes(B)) /\ <<y>> \o <<>> = <<y>>
      OBVIOUS
    <3>6. QED
      BY <3>2, <3>3, <3>4, <3>5 DEF Nodes, y
  <2>2. CASE s # 0
    <3>1. q # 0
      BY <1>2, <1>5, <2>2
    <3>2. p * q + p \notin Powers
      BY <1>1, <3>1, OddIsNoPower
    <3>3. m \notin Powers
      BY <1>1, <1>5, <3>2
    <3>4. ~IsPowerOfTwo(m)
      BY <1>2, <3>3, PowerOfTwoIs
    <3>5. path = <<x>>
      BY <1>2, <2>2, ProofAtEnd
    <3> HIDE DEF x, path
    <3>6. <<x>> \in Seq(Hashes(B))
      BY <1>4 DEF x
    <3>7. QED
      BY <3>4, <3>5, <3>6 DEF Nodes
  <2>3. QED
    BY <2>1, <2>2
<1> HIDE DEF x, path
<1>7. <<x>> \in Seq(Hashes(B)) /\ <<x>> # <<>>
  BY <1>4 DEF x
<1>8. AtSpan(B, m, ConsistencyWalk(<<x>>, WalkStart(B, m)), s, m)
  BY <1>3 DEF x
<1>9. QED
  BY <1>6, <1>7, <1>8 DEF WalksTo, path

LEMMA NodesAppend ==
  ASSUME NEW B, Len(B) \in Nat, NEW m \in 0 .. Len(B), NEW path \in Seq(Hashes(B)), NEW c \in Hashes(B)
  PROVE  Nodes(B, m, Append(path, c)) = Append(Nodes(B, m, path), c)
<1> DEFINE x == SpanHash(B)[<<0, m>>]
<1>1. x \in Hashes(B)
  <2>1. 0 \in 0 .. Len(B)
    OBVIOUS
  <2>2. QED
    BY <2>1, SpanHashes
<1> HIDE DEF x
<1>2. <<x>> \in Seq(Hashes(B)) /\ <<c>> \in Seq(Hashes(B))
  BY <1>1
<1>3. (<<x>> \o path) \o <<c>> = <<x>> \o (path \o <<c>>)
  BY <1>2, ConcatAssociative
<1>4. <<x>> \o path \in Seq(Hashes(B))
  BY <1>2, ConcatProperties
<1>5. /\ Append(path, c) = path \o <<c>>
      /\ Append(<<x>> \o path, c) = (<<x>> \o path) \o <<c>>
  BY <1>4, AppendIsConcat
<1>6. QED
  BY <1>3, <1>5 DEF Nodes, x

(* One step of the walk follows one step of the proof. *)
LEMMA WalkFollows ==
  ASSUME NEW B, Len(B) \in Nat, NEW m \in 1 .. Len(B), NEW s, NEW e, NEW a, NEW b,
         WalksTo(B, m, a, b), NEW c \in Hashes(B),
         Subproof(B, m)[<<s, e>>] = Append(Subproof(B, m)[<<a, b>>], c),
         \A w : AtSpan(B, m, w, a, b) => AtSpan(B, m, ConsistencyStep(w, c), s, e)
  PROVE  WalksTo(B, m, s, e)
<1> DEFINE path == Subproof(B, m)[<<a, b>>]
           nodes == Nodes(B, m, path)
           w == ConsistencyWalk(nodes, WalkStart(B, m))
<1>1. path \in Seq(Hashes(B)) /\ nodes \in Seq(Hashes(B)) /\ nodes # <<>> /\ AtSpan(B, m, w, a, b)
  BY DEF WalksTo
<1>2. m \in 0 .. Len(B)
  OBVIOUS
<1>3. Nodes(B, m, Append(path, c)) = Append(nodes, c)
  <2> HIDE DEF path
  <2>1. QED
    BY <1>1, <1>2, NodesAppend
<1>4. ConsistencyWalk(Append(nodes, c), WalkStart(B, m)) = ConsistencyStep(w, c)
  <2> HIDE DEF nodes
  <2>1. QED
    BY <1>1, WalkAppends
<1>5. Append(path, c) \in Seq(Hashes(B)) /\ Append(nodes, c) \in Seq(Hashes(B)) /\ Append(nodes, c) # <<>>
  <2> HIDE DEF nodes, path
  <2>1. QED
    BY <1>1, AppendProperties
<1>6. AtSpan(B, m, ConsistencyStep(w, c), s, e)
  BY <1>1
<1> HIDE DEF w, nodes
<1>7. QED
  BY <1>3, <1>4, <1>5, <1>6 DEF WalksTo

LEMMA WalkReaches ==
  ASSUME NEW B, Len(B) \in Nat, NEW m \in 1 .. Len(B), NEW s \in 0 .. Len(B), NEW e \in s .. Len(B),
         s < m, m <= e, m # e, Reached(B, m, s, e),
         NEW k, k = SplitPoint(e - s),
         m <= s + k => WalksTo(B, m, s, s + k),
         ~(m <= s + k) => WalksTo(B, m, s + k, e)
  PROVE  WalksTo(B, m, s, e)
<1>1. /\ k \in Powers /\ k \in Nat \ {0} /\ k < e - s
      /\ \E j \in Nat : SpanOf(B, 2 * k, j, s, e) /\ s = k * (2 * j) /\ s + k = k * (2 * j + 1)
      /\ m <= s + k => Reached(B, m, s, s + k)
      /\ ~(m <= s + k) => Reached(B, m, s + k, e)
  BY ReachedIsCut
<1>2. PICK j \in Nat : SpanOf(B, 2 * k, j, s, e) /\ s = k * (2 * j) /\ s + k = k * (2 * j + 1)
  BY <1>1
<1>3. /\ k \in Nat \ {0} /\ s + k < e
      /\ s + k \in 0 .. Len(B) /\ s + k \in s .. Len(B) /\ e \in s + k .. Len(B) /\ e \in 0 .. Len(B)
      /\ m \in Nat /\ s \in 0 .. Len(B) /\ e \in s .. Len(B)
  <2>1. k \in Nat \ {0} /\ k < e - s
    BY <1>1
  <2>2. QED
    BY ONLY <2>1, Len(B) \in Nat, s \in 0 .. Len(B), e \in s .. Len(B), m \in 1 .. Len(B)
<1>4. s < m /\ m <= e /\ m # e /\ Len(B) \in Nat /\ k = SplitPoint(e - s)
  OBVIOUS
<1>5. SpanOf(B, k, 2 * j, s, s + k)
  BY <1>2 DEF SpanOf
<1>6. CASE m <= s + k
  <2>1. Subproof(B, m)[<<s, e>>] = Append(Subproof(B, m)[<<s, s + k>>], SpanHash(B)[<<s + k, e>>])
    <3>1. /\ Len(B) \in Nat /\ m \in Nat /\ s \in 0 .. Len(B) /\ e \in s .. Len(B)
          /\ s < m /\ m <= e /\ m # e /\ m <= s + SplitPoint(e - s)
      BY <1>3, <1>4, <1>6
    <3>2. Subproof(B, m)[<<s, e>>]
            = Append(Subproof(B, m)[<<s, s + SplitPoint(e - s)>>], SpanHash(B)[<<s + SplitPoint(e - s), e>>])
      BY ONLY <3>1, ProofOnTheLeft
    <3>3. QED
      BY ONLY <1>4, <3>2
  <2>2. SpanHash(B)[<<s + k, e>>] \in Hashes(B)
    BY <1>3, SpanHashes
  <2>3. ASSUME NEW w, AtSpan(B, m, w, s, s + k)
        PROVE  AtSpan(B, m, ConsistencyStep(w, SpanHash(B)[<<s + k, e>>]), s, e)
    BY <1>1, <1>2, <1>3, <1>5, <2>3, RightSibling
  <2>4. QED
    BY <1>6, <2>1, <2>2, <2>3, WalkFollows
<1>7. CASE ~(m <= s + k)
  <2>1. Subproof(B, m)[<<s, e>>] = Append(Subproof(B, m)[<<s + k, e>>], SpanHash(B)[<<s, s + k>>])
    <3>1. /\ Len(B) \in Nat /\ m \in Nat /\ s \in 0 .. Len(B) /\ e \in s .. Len(B)
          /\ s < m /\ m <= e /\ m # e /\ ~(m <= s + SplitPoint(e - s))
      BY <1>3, <1>4, <1>7
    <3>2. Subproof(B, m)[<<s, e>>]
            = Append(Subproof(B, m)[<<s + SplitPoint(e - s), e>>], SpanHash(B)[<<s, s + SplitPoint(e - s)>>])
      BY ONLY <3>1, ProofOnTheRight
    <3>3. QED
      BY ONLY <1>4, <3>2
  <2>2. SpanHash(B)[<<s, s + k>>] \in Hashes(B)
    BY <1>3, SpanHashes
  <2>3. s + k < m /\ SpanOf(B, k, 2 * j + 1, s + k, e)
    <3>1. s + k < m
      BY <1>3, <1>7
    <3>2. e = s + 2 * k \/ (e = Len(B) /\ e <= s + 2 * k)
      BY <1>2 DEF SpanOf
    <3>3. e = (s + k) + k \/ (e = Len(B) /\ e <= (s + k) + k)
      BY ONLY <1>3, <3>2, Len(B) \in Nat
    <3>4. QED
      BY <1>2, <3>1, <3>3 DEF SpanOf
  <2>4. ASSUME NEW w, AtSpan(B, m, w, s + k, e)
        PROVE  AtSpan(B, m, ConsistencyStep(w, SpanHash(B)[<<s, s + k>>]), s, e)
    BY <1>1, <1>2, <1>3, <2>3, <2>4, LeftSibling
  <2>5. QED
    BY <1>7, <2>1, <2>2, <2>4, WalkFollows
<1>8. QED
  BY <1>6, <1>7

LEMMA WalksReach ==
  ASSUME NEW B, Len(B) \in Nat, NEW m \in 1 .. Len(B)
  PROVE  \A s \in 0 .. Len(B) : \A e \in s .. Len(B) :
           s < m /\ m <= e /\ Reached(B, m, s, e) => WalksTo(B, m, s, e)
<1> DEFINE Fails(v) == \E s \in 0 .. Len(B) : \E e \in s .. Len(B) :
             v = e - s /\ s < m /\ m <= e /\ Reached(B, m, s, e) /\ ~WalksTo(B, m, s, e)
           Bad == {v \in Nat : Fails(v)}
<1>1. Bad = {}
  <2> SUFFICES ASSUME Bad # {} PROVE FALSE
    OBVIOUS
  <2>1. PICK v \in Bad : \A u \in Bad : v <= u
    BY LeastCounterexample
  <2>2. v \in Nat /\ Fails(v) /\ \A u \in Nat : Fails(u) => v <= u
    BY <2>1
  <2>3. PICK s \in 0 .. Len(B) : \E e \in s .. Len(B) :
          v = e - s /\ s < m /\ m <= e /\ Reached(B, m, s, e) /\ ~WalksTo(B, m, s, e)
    BY <2>2
  <2>4. PICK e \in s .. Len(B) :
          v = e - s /\ s < m /\ m <= e /\ Reached(B, m, s, e) /\ ~WalksTo(B, m, s, e)
    BY <2>3
  <2>5. m # e
    BY <2>4, WalkStarts
  <2> DEFINE k == SplitPoint(e - s)
  <2> HIDE DEF Fails, Bad
  <2>6. /\ k \in Powers /\ k \in Nat \ {0} /\ k < e - s
        /\ \E j \in Nat : SpanOf(B, 2 * k, j, s, e) /\ s = k * (2 * j) /\ s + k = k * (2 * j + 1)
        /\ m <= s + k => Reached(B, m, s, s + k)
        /\ ~(m <= s + k) => Reached(B, m, s + k, e)
    <3>1. m \in Nat
      OBVIOUS
    <3>2. QED
      BY <2>4, <2>5, <3>1, ReachedIsCut
  <2> HIDE DEF k
  <2>7. /\ s + k \in 0 .. Len(B) /\ s + k \in s .. Len(B) /\ e \in s + k .. Len(B)
        /\ (s + k) - s \in Nat /\ e - (s + k) \in Nat /\ ~(v <= (s + k) - s) /\ ~(v <= e - (s + k))
    BY <2>4, <2>6
  <2>8. CASE m <= s + k
    <3>1. Reached(B, m, s, s + k) /\ s < m
      BY <2>4, <2>6, <2>8
    <3>2. ~Fails((s + k) - s)
      BY <2>2, <2>7
    <3>3. WalksTo(B, m, s, s + k)
      BY <2>7, <2>8, <3>1, <3>2 DEF Fails
    <3>4. WalksTo(B, m, s, e)
      BY <2>4, <2>5, <2>8, <3>3, WalkReaches DEF k
    <3>5. QED
      BY <2>4, <3>4
  <2>9. CASE ~(m <= s + k)
    <3>1. Reached(B, m, s + k, e) /\ s + k < m /\ m <= e
      BY <2>4, <2>6, <2>7, <2>9
    <3>2. ~Fails(e - (s + k))
      BY <2>2, <2>7
    <3>3. WalksTo(B, m, s + k, e)
      BY <2>7, <3>1, <3>2 DEF Fails
    <3>4. WalksTo(B, m, s, e)
      BY <2>4, <2>5, <2>9, <3>3, WalkReaches DEF k
    <3>5. QED
      BY <2>4, <3>4
  <2>10. QED
    BY <2>8, <2>9
<1>2. ASSUME NEW s \in 0 .. Len(B), NEW e \in s .. Len(B), s < m, m <= e, Reached(B, m, s, e), ~WalksTo(B, m, s, e)
      PROVE  FALSE
  <2>1. e - s \in Nat
    OBVIOUS
  <2>2. Fails(e - s)
    BY <1>2
  <2>3. QED
    BY <1>1, <2>1, <2>2
<1>3. QED
  BY <1>2

-----------------------------------------------------------------------------
LEMMA RootIsReached ==
  ASSUME NEW B, Len(B) \in Nat, NEW m \in 1 .. Len(B), m # Len(B)
  PROVE  Reached(B, m, 0, Len(B))
<1> DEFINE k == SplitPoint(Len(B))
<1>1. k \in Powers /\ 2 * k \in Powers /\ Len(B) <= 2 * k /\ k \in Nat
  <2>1. Len(B) >= 2
    OBVIOUS
  <2>2. k \in Powers /\ Len(B) <= 2 * k
    BY <2>1, SplitInside
  <2>3. QED
    BY <2>2, PowersDouble DEF ClosedUnderDoubling
<1> HIDE DEF k
<1> DEFINE p == 2 * k
<1>2. p \in Powers /\ Len(B) <= 0 + p /\ p * 0 = 0 /\ 0 \in Nat
  BY <1>1
<1> HIDE DEF p
<1>3. SpanOf(B, p, 0, 0, Len(B))
  BY <1>2 DEF SpanOf
<1>4. QED
  BY <1>2, <1>3 DEF Reached

(* A walk that has taken in the whole tree is at its root. *)
LEMMA RootHasNoSibling ==
  ASSUME NEW B, Len(B) \in Nat \ {0}, NEW m, NEW w, AtSpan(B, m, w, 0, Len(B))
  PROVE  w.pos.sn = 0
<1>1. PICK p \in Powers, q \in Nat, r \in Nat :
        w.pos = [fn |-> q, sn |-> r] /\ SpanOf(B, p, q, 0, Len(B)) /\ OnLevel(p, r, Len(B) - 1)
  BY DEF AtSpan
<1>2. p \in Nat \ {0}
  BY PowersDouble
<1>3. Len(B) <= p
  BY <1>1, <1>2 DEF SpanOf
<1>4. OnLevel(p, r, Len(B) - 1)
  BY <1>1
<1>5. p * 0 = 0
  BY <1>2
<1>6. OnLevel(p, 0, Len(B) - 1)
  BY <1>2, <1>3, <1>5 DEF OnLevel
<1>7. Len(B) - 1 \in Nat /\ 0 \in Nat
  OBVIOUS
<1>8. r = 0
  BY <1>2, <1>4, <1>6, <1>7, LevelIsOne
<1>9. QED
  BY <1>1, <1>8

LEMMA ProofIsGiven ==
  ASSUME NEW B, Len(B) \in Nat, Len(B) <= MaxTreeSize, NEW m \in 1 .. Len(B), m # Len(B)
  PROVE  LET path == ConsistencyProof(B, m) IN
         /\ path \in Seq(Hashes(B)) /\ path # <<>> /\ Len(path) <= 32
         /\ AtSpan(B, m, ConsistencyWalk(Nodes(B, m, path), WalkStart(B, m)), 0, Len(B))
<1> DEFINE path == ConsistencyProof(B, m)
           k == SplitPoint(Len(B) - 0)
<1>1. path = Subproof(B, m)[<<0, Len(B)>>]
  BY ConsistencyProofIs
<1>2. /\ 0 \in 0 .. Len(B) /\ Len(B) \in 0 .. Len(B) /\ 0 < m /\ m <= Len(B) /\ m \in Nat
      /\ Len(B) - 0 <= MaxTreeSize /\ Len(B) - 0 = Len(B) /\ Len(B) >= 2
  OBVIOUS
<1>3. WalksTo(B, m, 0, Len(B))
  <2>1. Reached(B, m, 0, Len(B))
    BY RootIsReached
  <2>2. \A s \in 0 .. Len(B) : \A e \in s .. Len(B) :
           s < m /\ m <= e /\ Reached(B, m, s, e) => WalksTo(B, m, s, e)
    BY WalksReach
  <2>3. QED
    BY <1>2, <2>1, <2>2
<1>4. Len(path) <= 32
  <2>1. IsProof(B, 31, path)
    BY <1>1, <1>2, ShortOfMany, SubproofMade
  <2>2. QED
    BY <2>1 DEF IsProof
<1>5. path # <<>>
  <2>1. k \in 1 .. Len(B) - 1
    BY <1>2, SplitInside
  <2> HIDE DEF k, path
  <2>2. /\ k \in 0 .. Len(B) /\ k \in 0 .. 0 + k /\ Len(B) \in k .. Len(B) /\ 0 + k = k
        /\ 0 \in 0 .. Len(B)
    <3>1. k \in Nat /\ k <= Len(B)
      BY <2>1
    <3>2. 0 + k = k
      BY <3>1
    <3>3. k \in 0 .. Len(B) /\ k \in 0 .. k /\ Len(B) \in k .. Len(B)
      BY <3>1
    <3>4. QED
      BY <1>2, <3>2, <3>3
  <2>3. \A t \in Seq(Hashes(B)), c \in Hashes(B) : Append(t, c) # <<>>
    <3> SUFFICES ASSUME NEW t \in Seq(Hashes(B)), NEW c \in Hashes(B) PROVE Append(t, c) # <<>>
      OBVIOUS
    <3>1. QED
      BY AppendProperties
  <2>4. \A s \in 0 .. Len(B) : \A e \in s .. Len(B) :
           s < m /\ m <= e /\ Reached(B, m, s, e) => WalksTo(B, m, s, e)
    BY WalksReach
  <2>5. /\ m <= 0 + k => Reached(B, m, 0, 0 + k)
        /\ ~(m <= 0 + k) => Reached(B, m, 0 + k, Len(B))
    <3>1. Reached(B, m, 0, Len(B))
      BY RootIsReached
    <3>2. /\ k \in Powers /\ k \in Nat \ {0} /\ k < Len(B) - 0
          /\ \E j \in Nat : SpanOf(B, 2 * k, j, 0, Len(B)) /\ 0 = k * (2 * j) /\ 0 + k = k * (2 * j + 1)
          /\ m <= 0 + k => Reached(B, m, 0, 0 + k)
          /\ ~(m <= 0 + k) => Reached(B, m, 0 + k, Len(B))
      BY <1>2, <3>1, ReachedIsCut DEF k
    <3>3. QED
      BY <3>2
  <2>6. CASE m <= k
    <3>1. m <= 0 + k
      BY <2>2, <2>6
    <3>2. path = Append(Subproof(B, m)[<<0, 0 + k>>], SpanHash(B)[<<0 + k, Len(B)>>])
      <4>1. /\ 0 \in 0 .. Len(B) /\ Len(B) \in 0 .. Len(B) /\ 0 < m /\ m <= Len(B) /\ m # Len(B) /\ m \in Nat
            /\ m <= 0 + SplitPoint(Len(B) - 0) /\ Len(B) \in Nat
        BY <1>2, <3>1 DEF k
      <4>2. Subproof(B, m)[<<0, Len(B)>>]
              = Append(Subproof(B, m)[<<0, 0 + SplitPoint(Len(B) - 0)>>], SpanHash(B)[<<0 + SplitPoint(Len(B) - 0), Len(B)>>])
        BY ONLY <4>1, ProofOnTheLeft
      <4>3. QED
        BY ONLY <1>1, <4>2 DEF k
    <3>3. SpanHash(B)[<<k, Len(B)>>] \in Hashes(B)
      BY <2>2, SpanHashes
    <3>4. WalksTo(B, m, 0, k)
      BY <1>2, <2>2, <2>4, <2>5, <2>6
    <3>5. Subproof(B, m)[<<0, k>>] \in Seq(Hashes(B))
      BY <3>4 DEF WalksTo
    <3>6. QED
      BY <2>2, <2>3, <3>2, <3>3, <3>5
  <2>7. CASE ~(m <= k)
    <3>1. ~(m <= 0 + k) /\ k < m
      BY <2>1, <2>2, <2>7
    <3>2. path = Append(Subproof(B, m)[<<0 + k, Len(B)>>], SpanHash(B)[<<0, 0 + k>>])
      <4>1. /\ 0 \in 0 .. Len(B) /\ Len(B) \in 0 .. Len(B) /\ 0 < m /\ m <= Len(B) /\ m # Len(B) /\ m \in Nat
            /\ ~(m <= 0 + SplitPoint(Len(B) - 0)) /\ Len(B) \in Nat
        BY <1>2, <3>1 DEF k
      <4>2. Subproof(B, m)[<<0, Len(B)>>]
              = Append(Subproof(B, m)[<<0 + SplitPoint(Len(B) - 0), Len(B)>>], SpanHash(B)[<<0, 0 + SplitPoint(Len(B) - 0)>>])
        BY ONLY <4>1, ProofOnTheRight
      <4>3. QED
        BY ONLY <1>1, <4>2 DEF k
    <3>3. SpanHash(B)[<<0, k>>] \in Hashes(B)
      BY <2>2, SpanHashes
    <3>4. WalksTo(B, m, k, Len(B))
      BY <1>2, <2>2, <2>4, <2>5, <3>1
    <3>5. Subproof(B, m)[<<k, Len(B)>>] \in Seq(Hashes(B))
      BY <3>4 DEF WalksTo
    <3>6. QED
      BY <2>2, <2>3, <3>2, <3>3, <3>5
  <2>8. QED
    BY <2>6, <2>7
<1>6. QED
  BY <1>1, <1>3, <1>4, <1>5 DEF WalksTo

(* verifyConsistency accepts what consistencyProof makes, for every old size of
   every tree whose proofs are within the verifier's depth. *)
THEOREM ConsistencyIsComplete ==
  ASSUME NEW A, NEW B, Len(A) \in Nat, Len(B) \in Nat, Len(A) <= Len(B), Len(B) <= MaxTreeSize,
         AgreesTo(A, B, Len(A))
  PROVE  VerifyConsistency(Len(A), MerkleRoot(A), Len(B), MerkleRoot(B), ConsistencyProof(B, Len(A)))
<1> DEFINE m == Len(A)
           n == Len(B)
           path == ConsistencyProof(B, m)
<1>1. SpanHash(A)[<<0, m>>] = SpanHash(B)[<<0, m>>] /\ MerkleRoot(A) = SpanHash(B)[<<0, m>>]
  <2>1. 0 \in 0 .. Len(A) /\ m \in 0 .. Len(A)
    OBVIOUS
  <2>2. SpanHash(A)[<<0, m>>] = SpanHash(B)[<<0, m>>]
    BY <2>1, PrefixHashes
  <2>3. QED
    BY <2>2 DEF MerkleRoot
<1>2. IsHash(MerkleRoot(A)) /\ IsHash(MerkleRoot(B))
  <2>1. 0 \in 0 .. n /\ m \in 0 .. n /\ n \in 0 .. n
    OBVIOUS
  <2>2. IsHash(SpanHash(B)[<<0, m>>]) /\ IsHash(SpanHash(B)[<<0, n>>])
    BY <2>1, SpansHash
  <2>3. QED
    BY <1>1, <2>2 DEF MerkleRoot
<1>3. CASE m = 0 \/ m = n
  <2>1. path = <<>>
    BY <1>3 DEF ConsistencyProof
  <2>2. Len(<<>>) = 0 /\ DOMAIN <<>> = {}
    OBVIOUS
  <2>3. m = n => MerkleRoot(A) = MerkleRoot(B)
    BY <1>1 DEF MerkleRoot
  <2> HIDE DEF path
  <2>4. QED
    BY <1>2, <1>3, <2>1, <2>2, <2>3 DEF VerifyConsistency, MaxProofDepth, path
<1>4. CASE m # 0 /\ m # n
  <2>1. m \in 1 .. n /\ m # n /\ n \in Nat \ {0}
    BY <1>4
  <2>2. /\ path \in Seq(Hashes(B)) /\ path # <<>> /\ Len(path) <= 32
        /\ AtSpan(B, m, ConsistencyWalk(Nodes(B, m, path), WalkStart(B, m)), 0, n)
    BY <2>1, ProofIsGiven
  <2>3. ASSUME NEW i \in DOMAIN path PROVE IsHash(path[i])
    <3>1. path[i] \in Hashes(B)
      <4> HIDE DEF path
      <4>1. QED
        BY <2>2, <2>3, ElementOfSeq, LenProperties
    <3>2. PICK se \in Spans(B) : path[i] = SpanHash(B)[se]
      BY <3>1 DEF Hashes
    <3>3. se = <<se[1], se[2]>> /\ se[1] \in 0 .. n /\ se[2] \in se[1] .. n
      BY <3>2 DEF Spans
    <3>4. IsHash(SpanHash(B)[<<se[1], se[2]>>])
      BY <3>3, SpansHash
    <3>5. QED
      BY <3>2, <3>3, <3>4
  <2> DEFINE w == ConsistencyWalk(Nodes(B, m, path), WalkStart(B, m))
  <2>4. w.pos.sn = 0
    BY <2>1, <2>2, RootHasNoSibling
  <2>5. w.ok = TRUE /\ w.fr = MerkleRoot(A) /\ w.sr = MerkleRoot(B)
    BY <1>1, <2>2 DEF AtSpan, MerkleRoot
  <2> HIDE DEF w
  <2>6. WalksToBoth(w, MerkleRoot(A), MerkleRoot(B))
    BY <2>4, <2>5 DEF WalksToBoth
  <2>7. Nodes(B, m, path) = IF IsPowerOfTwo(m) THEN <<MerkleRoot(A)>> \o path ELSE path
    BY <1>1 DEF Nodes
  <2>8. WalksToBoth(ConsistencyWalk(IF IsPowerOfTwo(m) THEN <<MerkleRoot(A)>> \o path ELSE path,
                                    LastFullNode([fn |-> m - 1, sn |-> n - 1])),
                    MerkleRoot(A), MerkleRoot(B))
    BY <2>6, <2>7 DEF w, WalkStart
  <2> HIDE DEF path
  <2>9. QED
    BY <1>2, <1>4, <2>1, <2>2, <2>3, <2>8 DEF VerifyConsistency, MaxProofDepth, path
<1>5. QED
  BY <1>3, <1>4
-----------------------------------------------------------------------------
(* The inclusion proof the log makes: it ends at the entry's own leaf.      *)

AuditPathOf(entries, index, g, se) ==
  LET s == se[1]  e == se[2]  k == SplitPoint(e - s)
  IN IF e = s + 1 THEN <<>>
     ELSE IF index < s + k
       THEN Append(g[<<s, s + k>>], SpanHash(entries)[<<s + k, e>>])
       ELSE Append(g[<<s + k, e>>], SpanHash(entries)[<<s, s + k>>])

AuditPathsOn(entries, index, D, g) == g = [se \in D |-> AuditPathOf(entries, index, g, se)]

AuditPath(entries, index) == CHOOSE g : AuditPathsOn(entries, index, SpansOver(entries, index + 1), g)

LEMMA InclusionProofIs ==
  ASSUME NEW entries, NEW index
  PROVE  InclusionProof(entries, index) = AuditPath(entries, index)[<<0, Len(entries)>>]
BY DEF InclusionProof, AuditPath, AuditPathsOn, AuditPathOf

LeafEnds(entries, m) == [se \in {over \in SpansOver(entries, m) : over[2] = over[1] + 1} |-> <<>>]

LEMMA LeafEndsAreBase == ASSUME NEW entries, NEW m PROVE IsBase(entries, m, LeafEnds(entries, m))
<1> DEFINE base == LeafEnds(entries, m)
           D == {over \in SpansOver(entries, m) : over[2] = over[1] + 1}
<1>1. DOMAIN base = D /\ \A se \in D : base[se] = <<>>
  BY DEF LeafEnds
<1>2. <<>> \in Seq(Hashes(entries)) /\ Len(<<>>) <= 1
  OBVIOUS
<1> HIDE DEF base
<1>3. IsBase(entries, m, base)
  BY <1>1, <1>2 DEF IsBase
<1>4. QED
  BY <1>3 DEF base

LEMMA AuditPathMade ==
  ASSUME NEW entries, Len(entries) \in Nat, NEW index \in Nat
  PROVE  MadeOf(entries, index + 1, LeafEnds(entries, index + 1), AuditPath(entries, index))
<1> DEFINE m == index + 1
           base == LeafEnds(entries, m)
           D == SpansOver(entries, m)
<1>1. IsBase(entries, m, base) /\ m \in Nat
  BY LeafEndsAreBase
<1>2. ASSUME NEW g, NEW se \in D PROVE ProofOf(entries, m, base, g, se) = AuditPathOf(entries, index, g, se)
  <2>1. se \in DOMAIN base <=> se[2] = se[1] + 1
    BY DEF LeafEnds
  <2>2. se \in DOMAIN base => base[se] = <<>>
    BY DEF LeafEnds
  <2>3. ASSUME se[2] # se[1] + 1
        PROVE  m <= se[1] + SplitPoint(se[2] - se[1]) <=> index < se[1] + SplitPoint(se[2] - se[1])
    <3> DEFINE k == SplitPoint(se[2] - se[1])
    <3>1. /\ se[1] \in Nat /\ se[2] \in Nat /\ se[2] - se[1] >= 2 /\ k \in 1 .. (se[2] - se[1]) - 1
      BY <1>1, <2>3, HalfOver
    <3>2. k \in Nat
      BY <3>1
    <3> HIDE DEF k
    <3>3. m <= se[1] + k <=> index < se[1] + k
      BY <3>1, <3>2
    <3>4. QED
      BY <3>3 DEF k
  <2> HIDE DEF base, D, m
  <2>4. CASE se[2] = se[1] + 1
    BY <2>1, <2>2, <2>4 DEF ProofOf, AuditPathOf
  <2>5. CASE se[2] # se[1] + 1
    BY <2>1, <2>3, <2>5 DEF ProofOf, AuditPathOf
  <2>6. QED
    BY <2>4, <2>5
<1> HIDE DEF base, D
<1>3. ASSUME NEW g PROVE ProofsOn(entries, m, base, D, g) <=> AuditPathsOn(entries, index, D, g)
  <2>1. [se \in D |-> ProofOf(entries, m, base, g, se)] = [se \in D |-> AuditPathOf(entries, index, g, se)]
    BY <1>2
  <2>2. QED
    BY <2>1 DEF ProofsOn, AuditPathsOn
<1>4. \E g : AuditPathsOn(entries, index, D, g)
  <2>1. \E g : ProofsOn(entries, m, base, D, g)
    BY <1>1, ProofsExist DEF D
  <2>2. QED
    BY <1>3, <2>1
<1>5. AuditPathsOn(entries, index, D, AuditPath(entries, index))
  BY <1>4 DEF AuditPath, D
<1>6. ProofsOn(entries, m, base, D, AuditPath(entries, index))
  BY <1>3, <1>5
<1>7. QED
  BY <1>1, <1>6 DEF MadeOf, base, D

-----------------------------------------------------------------------------
(* The walk along the log's inclusion proof ends at the root.              *)

LEMMA InclusionWalkOfNone == ASSUME NEW start PROVE InclusionWalk(start, <<>>) = start
<1> DEFINE g == CHOOSE g : WalksOn(start, <<>>, Len(<<>>), g)
<1>1. Len(<<>>) = 0
  OBVIOUS
<1>2. WalksOn(start, <<>>, 0, g)
  BY <1>1, WalkExists
<1>3. InclusionWalk(start, <<>>) = g[0]
  BY <1>1, WalkIs
<1> HIDE DEF g
<1>4. g[0] = WalkedTo(start, <<>>, g, 0)
  <2>1. g = [i \in 0 .. 0 |-> WalkedTo(start, <<>>, g, i)] /\ 0 \in 0 .. 0
    BY <1>2 DEF WalksOn
  <2>2. QED
    BY <2>1
<1>5. QED
  BY <1>3, <1>4 DEF WalkedTo

LEMMA InclusionWalkAppends ==
  ASSUME NEW S, NEW path \in Seq(S), NEW c \in S, NEW start
  PROVE  InclusionWalk(start, Append(path, c)) = InclusionStep(InclusionWalk(start, path), c)
<1> DEFINE more == Append(path, c)
           n == Len(path)
           g == CHOOSE g : WalksOn(start, path, Len(path), g)
           h == CHOOSE h : WalksOn(start, more, Len(more), h)
<1>1. /\ n \in Nat /\ Len(more) = n + 1
      /\ \A i \in 1 .. n : more[i] = path[i]
      /\ more[n + 1] = c
  BY AppendProperties
<1>2. WalksOn(start, path, n, g) /\ WalksOn(start, more, n + 1, h)
  <2>1. (\E f : WalksOn(start, path, n, f)) /\ \E f : WalksOn(start, more, n + 1, f)
    <3> HIDE DEF more, n
    <3>1. n \in Nat /\ n + 1 \in Nat
      BY <1>1
    <3>2. QED
      BY <3>1, WalkExists
  <2>2. QED
    BY <1>1, <2>1
<1>3. InclusionWalk(start, path) = g[n] /\ InclusionWalk(start, more) = h[n + 1]
  BY <1>1, WalkIs
<1> HIDE DEF more, n, g, h
<1>4. ASSUME NEW i \in 0 .. n PROVE g[i] = WalkedTo(start, path, g, i)
  BY <1>2, <1>4 DEF WalksOn
<1>5. ASSUME NEW i \in 0 .. n + 1 PROVE h[i] = WalkedTo(start, more, h, i)
  BY <1>2, <1>5 DEF WalksOn
<1> DEFINE Bad == {i \in Nat : i \in 0 .. n /\ g[i] # h[i]}
<1>6. Bad = {}
  <2> SUFFICES ASSUME Bad # {} PROVE FALSE
    OBVIOUS
  <2>1. PICK i \in Bad : \A v \in Bad : i <= v
    BY LeastCounterexample
  <2>2. i \in 0 .. n /\ g[i] # h[i] /\ i \in 0 .. n + 1
    BY <1>1, <2>1
  <2>3. g[i] = WalkedTo(start, path, g, i) /\ h[i] = WalkedTo(start, more, h, i)
    BY <1>4, <1>5, <2>2
  <2>4. i # 0
    BY <2>2, <2>3 DEF WalkedTo
  <2>5. i \in 1 .. n /\ i - 1 \in Nat /\ i - 1 \in 0 .. n /\ ~(i <= i - 1)
    BY <1>1, <2>2, <2>4
  <2>6. path[i] = more[i]
    BY <1>1, <2>5
  <2>7. i - 1 \notin Bad
    BY <2>1, <2>5
  <2>8. g[i - 1] = h[i - 1]
    BY <2>5, <2>7
  <2>9. QED
    BY <2>2, <2>3, <2>4, <2>6, <2>8 DEF WalkedTo
<1>7. g[n] = h[n]
  <2>1. n \in Nat /\ n \in 0 .. n
    BY <1>1
  <2>2. n \notin Bad
    BY <1>6
  <2>3. QED
    BY <2>1, <2>2
<1>8. h[n + 1] = InclusionStep(h[n], c)
  <2>1. n + 1 \in 0 .. n + 1 /\ n + 1 # 0 /\ (n + 1) - 1 = n
    BY <1>1
  <2>2. QED
    BY <1>1, <1>5, <2>1 DEF WalkedTo
<1>9. QED
  BY <1>3, <1>7, <1>8 DEF more

LeafAtSpan(B, w, s, e) ==
  /\ w.ok = TRUE /\ w.r = SpanHash(B)[<<s, e>>]
  /\ \E p \in Powers : \E q \in Nat : \E r \in Nat :
       w.pos = [fn |-> q, sn |-> r] /\ SpanOf(B, p, q, s, e) /\ OnLevel(p, r, Len(B) - 1)

\* The consistency walk at the same place: its newer tree's hash is the inclusion walk's.
Seen(B, m, w, s) == [ok |-> w.ok, fr |-> SpanHash(B)[<<s, m>>], sr |-> w.r, pos |-> w.pos]

LEMMA StepIsSeen ==
  ASSUME NEW w, NEW x, NEW c, NEW v, v.ok = w.ok, v.sr = w.r, v.pos = w.pos
  PROVE  /\ ConsistencyStep(v, c).ok = InclusionStep(w, c).ok
         /\ ConsistencyStep(v, c).sr = InclusionStep(w, c).r
         /\ ConsistencyStep(v, c).pos = InclusionStep(w, c).pos
BY DEF ConsistencyStep, InclusionStep

(* What a sibling does to the consistency walk it does to the inclusion walk. *)
LEMMA StepAtSpan ==
  ASSUME NEW B, NEW m, NEW w, NEW a, NEW b, NEW s, NEW e, NEW c, LeafAtSpan(B, w, a, b),
         \A v : AtSpan(B, m, v, a, b) => AtSpan(B, m, ConsistencyStep(v, c), s, e)
  PROVE  LeafAtSpan(B, InclusionStep(w, c), s, e)
<1> DEFINE v == Seen(B, m, w, a)
           u == ConsistencyStep(v, c)
           t == InclusionStep(w, c)
<1>1. v.ok = w.ok /\ v.fr = SpanHash(B)[<<a, m>>] /\ v.sr = w.r /\ v.pos = w.pos
  BY DEF Seen
<1> HIDE DEF v
<1>2. AtSpan(B, m, v, a, b)
  BY <1>1 DEF AtSpan, LeafAtSpan
<1>3. AtSpan(B, m, u, s, e)
  BY <1>2
<1>4. u.ok = t.ok /\ u.sr = t.r /\ u.pos = t.pos
  BY <1>1, StepIsSeen
<1> HIDE DEF u, t
<1>5. LeafAtSpan(B, t, s, e)
  BY <1>3, <1>4 DEF AtSpan, LeafAtSpan
<1>6. QED
  BY <1>5 DEF t

LeafStart(B, index) ==
  [ok |-> TRUE, r |-> LeafHash(B[index + 1]), pos |-> [fn |-> index, sn |-> Len(B) - 1]]

AuditsTo(B, index, s, e) ==
  /\ AuditPath(B, index)[<<s, e>>] \in Seq(Hashes(B))
  /\ LeafAtSpan(B, InclusionWalk(LeafStart(B, index), AuditPath(B, index)[<<s, e>>]), s, e)

LogSpan(B, s, e) == \E p \in Powers : \E q \in Nat : SpanOf(B, p, q, s, e)

LEMMA AuditStarts ==
  ASSUME NEW B, Len(B) \in Nat, NEW index \in 0 .. Len(B) - 1
  PROVE  AuditsTo(B, index, index, index + 1)
<1> DEFINE start == LeafStart(B, index)
           g == AuditPath(B, index)
           m == index + 1
           base == LeafEnds(B, m)
           se == <<index, index + 1>>
<1>1. /\ index \in Nat /\ index \in 0 .. Len(B) /\ index + 1 \in index .. Len(B) /\ Len(B) - 1 \in Nat
      /\ index + 1 = index + 1 /\ 1 \in Powers
  BY PowersDouble DEF ClosedUnderDoubling
<1>2. se \in SpansOver(B, m) /\ se[2] = se[1] + 1
  BY <1>1 DEF SpansOver, Spans
<1>3. MadeOf(B, m, base, g)
  BY <1>1, AuditPathMade
<1> HIDE DEF se, g
<1>4. se \in DOMAIN base /\ base[se] = <<>>
  BY <1>2 DEF LeafEnds
<1> HIDE DEF base
<1>5. g[se] = <<>>
  BY <1>3, <1>4, MadeAtEnd
<1>6. start.ok = TRUE /\ start.r = LeafHash(B[index + 1]) /\ start.pos = [fn |-> index, sn |-> Len(B) - 1]
  BY DEF LeafStart
<1>7. SpanHash(B)[<<index, index + 1>>] = LeafHash(B[index + 1])
  BY <1>1, HashOfSpan
<1> HIDE DEF start
<1>8. SpanOf(B, 1, index, index, index + 1) /\ OnLevel(1, Len(B) - 1, Len(B) - 1)
  BY <1>1 DEF SpanOf, OnLevel
<1>9. LeafAtSpan(B, start, index, index + 1)
  BY <1>1, <1>6, <1>7, <1>8 DEF LeafAtSpan
<1>10. InclusionWalk(start, <<>>) = start
  BY InclusionWalkOfNone
<1>11. <<>> \in Seq(Hashes(B))
  OBVIOUS
<1>12. QED
  BY <1>5, <1>9, <1>10, <1>11 DEF AuditsTo, se, g, start

(* One step of the walk follows one step of the proof. *)
LEMMA AuditFollows ==
  ASSUME NEW B, NEW index, NEW m, NEW s, NEW e, NEW a, NEW b, AuditsTo(B, index, a, b), NEW c \in Hashes(B),
         AuditPath(B, index)[<<s, e>>] = Append(AuditPath(B, index)[<<a, b>>], c),
         \A v : AtSpan(B, m, v, a, b) => AtSpan(B, m, ConsistencyStep(v, c), s, e)
  PROVE  AuditsTo(B, index, s, e)
<1> DEFINE path == AuditPath(B, index)[<<a, b>>]
           w == InclusionWalk(LeafStart(B, index), path)
<1>1. path \in Seq(Hashes(B)) /\ LeafAtSpan(B, w, a, b)
  BY DEF AuditsTo
<1> HIDE DEF path
<1>2. InclusionWalk(LeafStart(B, index), Append(path, c)) = InclusionStep(w, c)
  BY <1>1, InclusionWalkAppends
<1>3. Append(path, c) \in Seq(Hashes(B))
  BY <1>1, AppendProperties
<1> HIDE DEF w
<1>4. LeafAtSpan(B, InclusionStep(w, c), s, e)
  BY <1>1, StepAtSpan
<1>5. AuditPath(B, index)[<<s, e>>] = Append(path, c)
  BY DEF path
<1>6. QED
  BY <1>2, <1>3, <1>4, <1>5 DEF AuditsTo

LEMMA AuditReaches ==
  ASSUME NEW B, Len(B) \in Nat, NEW index \in 0 .. Len(B) - 1,
         NEW s \in 0 .. Len(B), NEW e \in s .. Len(B), s <= index, index < e, e - s >= 2, LogSpan(B, s, e),
         NEW k, k = SplitPoint(e - s),
         index < s + k /\ LogSpan(B, s, s + k) => AuditsTo(B, index, s, s + k),
         ~(index < s + k) /\ LogSpan(B, s + k, e) => AuditsTo(B, index, s + k, e)
  PROVE  AuditsTo(B, index, s, e)
<1> DEFINE m == index + 1
           g == AuditPath(B, index)
           base == LeafEnds(B, m)
<1>1. PICK p \in Powers, q \in Nat : SpanOf(B, p, q, s, e)
  BY DEF LogSpan
<1>2. /\ k \in Powers /\ k \in Nat \ {0} /\ k < e - s
      /\ \E j \in Nat : /\ SpanOf(B, 2 * k, j, s, e) /\ s = k * (2 * j) /\ s + k = k * (2 * j + 1)
                       /\ SpanOf(B, k, 2 * j, s, s + k) /\ SpanOf(B, k, 2 * j + 1, s + k, e)
  BY <1>1, SpanIsCut
<1>3. PICK j \in Nat : /\ SpanOf(B, 2 * k, j, s, e) /\ s = k * (2 * j) /\ s + k = k * (2 * j + 1)
                       /\ SpanOf(B, k, 2 * j, s, s + k) /\ SpanOf(B, k, 2 * j + 1, s + k, e)
  BY <1>2
<1>4. LogSpan(B, s, s + k) /\ LogSpan(B, s + k, e)
  <2>1. 2 * j \in Nat /\ 2 * j + 1 \in Nat
    OBVIOUS
  <2>2. QED
    BY <1>2, <1>3, <2>1 DEF LogSpan
<1>5. /\ m \in Nat /\ s < m /\ m <= e /\ index \in Nat /\ k \in Nat \ {0} /\ k < e - s
      /\ s + k \in 0 .. Len(B) /\ s + k \in s .. Len(B) /\ e \in s + k .. Len(B)
      /\ (index < s + k <=> m <= s + k)
  <2>1. k \in Nat \ {0} /\ k < e - s /\ Len(B) \in Nat /\ s \in 0 .. Len(B) /\ e \in s .. Len(B)
        /\ index \in 0 .. Len(B) - 1 /\ s <= index /\ index < e
    BY <1>2
  <2>2. QED
    BY ONLY <2>1
<1>6. /\ m <= s + k => g[<<s, e>>] = Append(g[<<s, s + k>>], SpanHash(B)[<<s + k, e>>])
      /\ ~(m <= s + k) => g[<<s, e>>] = Append(g[<<s + k, e>>], SpanHash(B)[<<s, s + k>>])
  <2> DEFINE se == <<s, e>>
  <2>1. MadeOf(B, m, base, g)
    BY <1>5, AuditPathMade
  <2>2. se \in SpansOver(B, m)
    BY <1>5 DEF SpansOver, Spans
  <2>3. se[2] # se[1] + 1
    <3>1. e # s + 1
      BY <1>5
    <3>2. QED
      BY <3>1
  <2> HIDE DEF se, g
  <2>4. se \notin DOMAIN base
    BY <2>3 DEF LeafEnds
  <2> HIDE DEF base, m
  <2>5. InHalves(B, m, g, s, e)
    BY <2>1, <2>2, <2>4, MadeInHalves DEF se
  <2>6. QED
    BY <2>5 DEF InHalves
<1>7. SpanHash(B)[<<s, s + k>>] \in Hashes(B) /\ SpanHash(B)[<<s + k, e>>] \in Hashes(B)
  BY <1>5, SpanHashes
<1>8. CASE m <= s + k
  <2>1. \A v : AtSpan(B, m, v, s, s + k) => AtSpan(B, m, ConsistencyStep(v, SpanHash(B)[<<s + k, e>>]), s, e)
    <3> SUFFICES ASSUME NEW v, AtSpan(B, m, v, s, s + k)
                 PROVE  AtSpan(B, m, ConsistencyStep(v, SpanHash(B)[<<s + k, e>>]), s, e)
      OBVIOUS
    <3> HIDE DEF m
    <3>1. QED
      BY <1>2, <1>3, <1>5, RightSibling
  <2>2. AuditsTo(B, index, s, s + k)
    BY <1>4, <1>5, <1>8
  <2>3. g[<<s, e>>] = Append(g[<<s, s + k>>], SpanHash(B)[<<s + k, e>>])
    BY <1>6, <1>8
  <2> HIDE DEF m
  <2>4. QED
    BY <1>7, <2>1, <2>2, <2>3, AuditFollows
<1>9. CASE ~(m <= s + k)
  <2>1. s + k < m
    BY <1>5, <1>9
  <2>2. \A v : AtSpan(B, m, v, s + k, e) => AtSpan(B, m, ConsistencyStep(v, SpanHash(B)[<<s, s + k>>]), s, e)
    <3> SUFFICES ASSUME NEW v, AtSpan(B, m, v, s + k, e)
                 PROVE  AtSpan(B, m, ConsistencyStep(v, SpanHash(B)[<<s, s + k>>]), s, e)
      OBVIOUS
    <3> HIDE DEF m
    <3>1. QED
      BY <1>2, <1>3, <1>5, <2>1, LeftSibling
  <2>3. AuditsTo(B, index, s + k, e)
    BY <1>4, <1>5, <1>9
  <2>4. g[<<s, e>>] = Append(g[<<s + k, e>>], SpanHash(B)[<<s, s + k>>])
    BY <1>6, <1>9
  <2> HIDE DEF m
  <2>5. QED
    BY <1>7, <2>2, <2>3, <2>4, AuditFollows
<1>10. QED
  BY <1>8, <1>9

LEMMA AuditsReach ==
  ASSUME NEW B, Len(B) \in Nat, NEW index \in 0 .. Len(B) - 1
  PROVE  \A s \in 0 .. Len(B) : \A e \in s .. Len(B) :
           s <= index /\ index < e /\ LogSpan(B, s, e) => AuditsTo(B, index, s, e)
<1> DEFINE Fails(v) == \E s \in 0 .. Len(B) : \E e \in s .. Len(B) :
             v = e - s /\ s <= index /\ index < e /\ LogSpan(B, s, e) /\ ~AuditsTo(B, index, s, e)
           Bad == {v \in Nat : Fails(v)}
<1>1. Bad = {}
  <2> SUFFICES ASSUME Bad # {} PROVE FALSE
    OBVIOUS
  <2>1. PICK v \in Bad : \A u \in Bad : v <= u
    BY LeastCounterexample
  <2>2. v \in Nat /\ Fails(v) /\ \A u \in Nat : Fails(u) => v <= u
    BY <2>1
  <2>3. PICK s \in 0 .. Len(B) : \E e \in s .. Len(B) :
          v = e - s /\ s <= index /\ index < e /\ LogSpan(B, s, e) /\ ~AuditsTo(B, index, s, e)
    BY <2>2
  <2>4. PICK e \in s .. Len(B) :
          v = e - s /\ s <= index /\ index < e /\ LogSpan(B, s, e) /\ ~AuditsTo(B, index, s, e)
    BY <2>3
  <2>5. e - s >= 2
    <3>1. e # s + 1
      <4> SUFFICES ASSUME e = s + 1 PROVE FALSE
        OBVIOUS
      <4>1. s = index /\ e = index + 1
        BY <2>4
      <4>2. AuditsTo(B, index, s, e)
        BY <4>1, AuditStarts
      <4>3. QED
        BY <2>4, <4>2
    <3>2. QED
      BY <2>4, <3>1
  <2> DEFINE k == SplitPoint(e - s)
  <2> HIDE DEF Fails, Bad
  <2>6. k \in 1 .. (e - s) - 1
    BY <2>5, SplitInside
  <2> HIDE DEF k
  <2>7. /\ s + k \in 0 .. Len(B) /\ s + k \in s .. Len(B) /\ e \in s + k .. Len(B)
        /\ (s + k) - s \in Nat /\ e - (s + k) \in Nat /\ ~(v <= (s + k) - s) /\ ~(v <= e - (s + k))
    BY <2>4, <2>6
  <2>8. ~Fails((s + k) - s) /\ ~Fails(e - (s + k))
    BY <2>2, <2>7
  <2>9. ASSUME index < s + k, LogSpan(B, s, s + k) PROVE AuditsTo(B, index, s, s + k)
    BY <2>4, <2>7, <2>8, <2>9 DEF Fails
  <2>10. ASSUME ~(index < s + k), LogSpan(B, s + k, e) PROVE AuditsTo(B, index, s + k, e)
    <3>1. s + k <= index /\ index < e
      BY <2>4, <2>7, <2>10
    <3>2. QED
      BY <2>7, <2>8, <2>10, <3>1 DEF Fails
  <2>11. AuditsTo(B, index, s, e)
    BY <2>4, <2>5, <2>9, <2>10, AuditReaches DEF k
  <2>12. QED
    BY <2>4, <2>11
<1>2. ASSUME NEW s \in 0 .. Len(B), NEW e \in s .. Len(B), s <= index, index < e, LogSpan(B, s, e),
             ~AuditsTo(B, index, s, e)
      PROVE  FALSE
  <2>1. e - s \in Nat
    OBVIOUS
  <2>2. Fails(e - s)
    BY <1>2
  <2>3. QED
    BY <1>1, <2>1, <2>2
<1>3. QED
  BY <1>2

(* verifyInclusion accepts what inclusionProof makes, for every entry of every
   tree whose proofs are within the verifier's depth. *)
THEOREM InclusionIsComplete ==
  ASSUME NEW entries, Len(entries) \in Nat, Len(entries) <= MaxTreeSize, NEW index \in 0 .. Len(entries) - 1
  PROVE  VerifyInclusion(entries[index + 1], index, Len(entries), InclusionProof(entries, index), MerkleRoot(entries))
<1> DEFINE n == Len(entries)
           path == InclusionProof(entries, index)
           w == InclusionWalk(LeafStart(entries, index), path)
<1>1. path = AuditPath(entries, index)[<<0, n>>]
  BY InclusionProofIs
<1>2. /\ index \in Nat /\ n \in Nat \ {0} /\ index < n /\ 0 \in 0 .. n /\ n \in 0 .. n /\ 0 <= index
      /\ 0 < index + 1 /\ index + 1 <= n /\ index + 1 \in Nat
  OBVIOUS
<1>3. LogSpan(entries, 0, n)
  <2>1. CASE n = 1
    <3>1. SpanOf(entries, 1, 0, 0, n) /\ 1 \in Powers /\ 0 \in Nat
      BY <2>1, PowersDouble DEF SpanOf, ClosedUnderDoubling
    <3>2. QED
      BY <3>1 DEF LogSpan
  <2>2. CASE n # 1
    <3>1. 1 \in 1 .. n /\ 1 # n
      BY <1>2, <2>2
    <3>2. Reached(entries, 1, 0, n)
      BY <3>1, RootIsReached
    <3>3. QED
      BY <3>2 DEF Reached, LogSpan
  <2>3. QED
    BY <2>1, <2>2
<1>4. AuditsTo(entries, index, 0, n)
  BY <1>2, <1>3, AuditsReach
<1>5. path \in Seq(Hashes(entries)) /\ LeafAtSpan(entries, w, 0, n)
  BY <1>1, <1>4 DEF AuditsTo
<1>6. Len(path) <= MaxProofDepth
  <2>1. MadeOf(entries, index + 1, LeafEnds(entries, index + 1), AuditPath(entries, index))
    BY <1>2, AuditPathMade
  <2>2. n - 0 <= MaxTreeSize
    BY <1>2
  <2>3. IsProof(entries, 31, path)
    BY <1>1, <1>2, <2>1, <2>2, ShortOfMany
  <2>4. QED
    BY <2>3 DEF IsProof, MaxProofDepth
<1>7. ASSUME NEW i \in DOMAIN path PROVE IsHash(path[i])
  <2>1. path[i] \in Hashes(entries)
    <3> HIDE DEF path
    <3>1. QED
      BY <1>5, <1>7, ElementOfSeq, LenProperties
  <2>2. PICK se \in Spans(entries) : path[i] = SpanHash(entries)[se]
    BY <2>1 DEF Hashes
  <2>3. se = <<se[1], se[2]>> /\ se[1] \in 0 .. n /\ se[2] \in se[1] .. n
    BY <2>2 DEF Spans
  <2>4. IsHash(SpanHash(entries)[<<se[1], se[2]>>])
    BY <2>3, SpansHash
  <2>5. QED
    BY <2>2, <2>3, <2>4
<1>8. IsHash(MerkleRoot(entries))
  <2>1. IsHash(SpanHash(entries)[<<0, n>>])
    BY <1>2, SpansHash
  <2>2. QED
    BY <2>1 DEF MerkleRoot
<1>9. w.pos.sn = 0
  <2> DEFINE v == Seen(entries, index + 1, w, 0)
  <2>1. v.ok = w.ok /\ v.fr = SpanHash(entries)[<<0, index + 1>>] /\ v.sr = w.r /\ v.pos = w.pos
    BY DEF Seen
  <2> HIDE DEF v, w
  <2>2. AtSpan(entries, index + 1, v, 0, n)
    BY <1>5, <2>1 DEF AtSpan, LeafAtSpan
  <2>3. QED
    BY <1>2, <2>1, <2>2, RootHasNoSibling
<1>10. w.ok = TRUE /\ w.r = MerkleRoot(entries)
  BY <1>5 DEF LeafAtSpan, MerkleRoot
<1>11. w = InclusionWalk([ok |-> TRUE, r |-> LeafHash(entries[index + 1]), pos |-> [fn |-> index, sn |-> n - 1]], path)
  BY DEF LeafStart
<1> HIDE DEF path, w
<1>12. QED
  BY <1>2, <1>6, <1>7, <1>8, <1>9, <1>10, <1>11 DEF VerifyInclusion, path
=============================================================================
