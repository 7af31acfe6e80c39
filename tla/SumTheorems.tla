---------------------------- MODULE SumTheorems ----------------------------
(***************************************************************************)
(* Sums over finite sets, for the byte counts of the stores and for the    *)
(* offsets of the address bar.  SumFunctionOnSet is defined by recursion   *)
(* over sets, so what is known of it is shown by looking at a smallest     *)
(* counterexample.                                                         *)
(***************************************************************************)
EXTENDS Integers, FiniteSets, Functions, FiniteSetTheorems, WellFoundedInduction, TLAPS

Pick(s) == CHOOSE x \in s : TRUE

SumStep(W, S, iter) ==
  [s \in SUBSET S |-> IF s = {} THEN 0 ELSE W[Pick(s)] + iter[s \ {Pick(s)}]]

Iter(W, S) == CHOOSE iter : iter = SumStep(W, S, iter)

\* The sum over S is the value at S of the recursive function of the fold.
LEMMA SumIsIter == ASSUME NEW W, NEW S PROVE SumFunctionOnSet(W, S) = Iter(W, S)[S]
BY DEF SumFunctionOnSet, FoldFunctionOnSet, MapThenFoldSet, Iter, SumStep, Pick

\* A nonempty set of naturals has a least element.
LEMMA LeastNat ==
  ASSUME NEW T \in SUBSET Nat, T # {}
  PROVE  \E n \in T : \A m \in T : n <= m
<1> DEFINE R == {ss \in Nat \X Nat : ss[1] < ss[2]}
<1>1. IsWellFoundedOn(R, Nat) BY NatLessThanWellFounded DEF OpToRel
<1> HIDE DEF R
<1>2. \E x \in T : \A y \in T : ~(<<y, x>> \in R) BY <1>1, WFMin
<1>3. \A x, y \in Nat : y < x => <<y, x>> \in R BY DEF R
<1>4. PICK n \in T : \A y \in T : ~(<<y, n>> \in R) BY <1>2
<1>5. ASSUME NEW m \in T PROVE n <= m
  <2>1. n \in Nat /\ m \in Nat OBVIOUS
  <2>2. ~(m < n) BY <2>1, <1>3, <1>4, Zenon
  <2> QED BY <2>1, <2>2
<1> QED BY <1>5

\* The recursive function behind a sum over a finite set exists: it is built for
\* the subsets of at most n elements, one n after the other.
LEMMA IterExists ==
  ASSUME NEW W, NEW S, IsFiniteSet(S)
  PROVE  Iter(W, S) = SumStep(W, S, Iter(W, S))
<1> DEFINE Sub(n) == {s \in SUBSET S : Cardinality(s) <= n}
           Good(n, f) == f = [s \in Sub(n) |-> IF s = {} THEN 0
                                               ELSE W[Pick(s)] + f[s \ {Pick(s)}]]
           T == {n \in Nat : ~\E f : Good(n, f)}
<1>1. ASSUME NEW s \in SUBSET S
      PROVE  /\ IsFiniteSet(s) /\ Cardinality(s) \in Nat /\ Cardinality(s) <= Cardinality(S)
             /\ s = {} <=> Cardinality(s) = 0
             /\ s # {} => Pick(s) \in s /\ Cardinality(s \ {Pick(s)}) = Cardinality(s) - 1
  <2>1. IsFiniteSet(s) /\ Cardinality(s) \in Nat /\ Cardinality(s) <= Cardinality(S)
    BY FS_Subset, FS_CardinalityType
  <2>2. s = {} <=> Cardinality(s) = 0 BY <2>1, FS_EmptySet
  <2>3. s # {} => Pick(s) \in s BY DEF Pick
  <2> QED BY <2>1, <2>2, <2>3, FS_RemoveElement
<1>2. T = {}
  <2> SUFFICES ASSUME T # {} PROVE FALSE OBVIOUS
  <2>1. PICK n \in T : \A m \in T : n <= m BY LeastNat
  <2>2. n # 0
    <3>1. ASSUME NEW s \in Sub(0) PROVE s = {}
      <4>1. s \in SUBSET S /\ Cardinality(s) <= 0 OBVIOUS
      <4>2. Cardinality(s) \in Nat /\ (s = {} <=> Cardinality(s) = 0) BY <4>1, <1>1
      <4> QED BY <4>1, <4>2
    <3> DEFINE f == [s \in Sub(0) |-> 0]
    <3>2. Good(0, f) BY <3>1
    <3> QED BY <3>2
  <2>3. n \in Nat /\ n - 1 \in Nat /\ n - 1 \notin T
    <3>1. n \in Nat OBVIOUS
    <3>2. n - 1 \in Nat BY <3>1, <2>2
    <3> HIDE DEF T
    <3>3. n - 1 \in T => n <= n - 1 BY <2>1
    <3> QED BY <3>1, <3>2, <3>3
  <2>4. PICK f : Good(n - 1, f) BY <2>3
  <2> DEFINE g == [s \in Sub(n) |-> IF s = {} THEN 0 ELSE W[Pick(s)] + f[s \ {Pick(s)}]]
  <2>5. ASSUME NEW s \in Sub(n - 1) PROVE s \in Sub(n)
    <3>1. s \in SUBSET S /\ Cardinality(s) <= n - 1 OBVIOUS
    <3>2. Cardinality(s) \in Nat BY <1>1, <3>1
    <3>3. Cardinality(s) <= n BY <2>3, <3>1, <3>2
    <3> QED BY <3>1, <3>3
  <2>6. ASSUME NEW s \in Sub(n), s # {} PROVE s \ {Pick(s)} \in Sub(n - 1)
    <3>1. s \in SUBSET S /\ Cardinality(s) <= n OBVIOUS
    <3>2. Cardinality(s) \in Nat /\ Cardinality(s \ {Pick(s)}) = Cardinality(s) - 1 BY <1>1, <2>6, <3>1
    <3>3. Cardinality(s \ {Pick(s)}) <= n - 1 BY <2>3, <3>1, <3>2
    <3> QED BY <3>1, <3>3
  <2> HIDE DEF Sub
  <2>7. \A s \in Sub(n - 1) : g[s] = f[s] BY <2>4, <2>5
  <2>8. Good(n, g) BY <2>6, <2>7
  <2> HIDE DEF g
  <2> QED BY <2>1, <2>8
<1>3. Cardinality(S) \in Nat BY FS_CardinalityType
<1>4. PICK f : Good(Cardinality(S), f) BY <1>2, <1>3
<1>5. Sub(Cardinality(S)) = SUBSET S BY <1>1
<1> HIDE DEF Sub
<1>6. f = SumStep(W, S, f) BY <1>4, <1>5 DEF SumStep
<1> QED BY <1>6 DEF Iter

\* What a sum is, one element at a time.
LEMMA IterValue ==
  ASSUME NEW W, NEW S, IsFiniteSet(S), NEW s \in SUBSET S
  PROVE  Iter(W, S)[s] = IF s = {} THEN 0 ELSE W[Pick(s)] + Iter(W, S)[s \ {Pick(s)}]
<1>1. Iter(W, S) = SumStep(W, S, Iter(W, S)) BY IterExists
<1> DEFINE f == Iter(W, S)
<1> HIDE DEF f
<1>2. f = SumStep(W, S, f) BY <1>1 DEF f
<1>3. f[s] = IF s = {} THEN 0 ELSE W[Pick(s)] + f[s \ {Pick(s)}] BY <1>2 DEF SumStep
<1> QED BY <1>3 DEF f

\* The subsets of a finite set, and what is left of one when an element is taken.
LEMMA Taken ==
  ASSUME NEW s, IsFiniteSet(s), s # {}
  PROVE  /\ Pick(s) \in s /\ IsFiniteSet(s \ {Pick(s)})
         /\ Cardinality(s) \in Nat /\ Cardinality(s \ {Pick(s)}) \in Nat
         /\ Cardinality(s \ {Pick(s)}) < Cardinality(s)
<1>1. Pick(s) \in s BY DEF Pick
<1>2. IsFiniteSet(s \ {Pick(s)}) /\ Cardinality(s \ {Pick(s)}) = Cardinality(s) - 1
  BY <1>1, FS_RemoveElement
<1>3. Cardinality(s) \in Nat /\ Cardinality(s \ {Pick(s)}) \in Nat BY <1>2, FS_CardinalityType
<1> QED BY <1>1, <1>2, <1>3

\* Among finite sets there is one with the fewest elements.
LEMMA SmallestSet ==
  ASSUME NEW Bad, Bad # {}, \A r \in Bad : IsFiniteSet(r)
  PROVE  \E r \in Bad : \A q \in Bad : ~(Cardinality(q) < Cardinality(r))
<1> DEFINE T == {Cardinality(r) : r \in Bad}
<1>1. \A r \in Bad : Cardinality(r) \in Nat BY FS_CardinalityType
<1>2. T \in SUBSET Nat /\ T # {} BY <1>1
<1> HIDE DEF T
<1>3. PICK n \in T : \A m \in T : n <= m BY <1>2, LeastNat
<1> USE DEF T
<1>4. PICK r \in Bad : n = Cardinality(r) OBVIOUS
<1>5. ASSUME NEW q \in Bad, Cardinality(q) < Cardinality(r) PROVE FALSE
  <2>1. n <= Cardinality(q) BY <1>3
  <2>2. Cardinality(q) \in Nat /\ Cardinality(r) \in Nat BY <1>1
  <2> QED BY <1>4, <1>5, <2>1, <2>2
<1> QED BY <1>5

\* A sum depends on the values summed and on nothing else.
LEMMA IterAgree ==
  ASSUME NEW W, NEW V, NEW S, NEW R, IsFiniteSet(S), IsFiniteSet(R),
         NEW s, s \subseteq S, s \subseteq R, \A x \in s : W[x] = V[x]
  PROVE  Iter(W, S)[s] = Iter(V, R)[s]
<1> DEFINE Bad == {r \in SUBSET s : Iter(W, S)[r] # Iter(V, R)[r]}
<1>1. ASSUME NEW r \in SUBSET s PROVE IsFiniteSet(r) /\ Cardinality(r) \in Nat
  BY FS_Subset, FS_CardinalityType
<1>2. \A r \in Bad : IsFiniteSet(r) BY <1>1
<1>3. Bad = {}
  <2> SUFFICES ASSUME Bad # {} PROVE FALSE OBVIOUS
  <2> HIDE DEF Bad
  <2>1. PICK r \in Bad : \A z \in Bad : ~(Cardinality(z) < Cardinality(r)) BY <1>2, SmallestSet
  <2> USE DEF Bad
  <2>3. r \in SUBSET s /\ Iter(W, S)[r] # Iter(V, R)[r] OBVIOUS
  <2>4. r # {} BY <2>3, IterValue
  <2> DEFINE q == r \ {Pick(r)}
  <2>5. /\ Pick(r) \in r /\ Cardinality(r) \in Nat /\ Cardinality(q) \in Nat
        /\ Cardinality(q) < Cardinality(r)
    BY <1>1, <2>3, <2>4, Taken
  <2>6. q \notin Bad BY <2>1, <2>5, Zenon
  <2>7. Iter(W, S)[q] = Iter(V, R)[q] BY <2>3, <2>6
  <2>8. /\ Iter(W, S)[r] = W[Pick(r)] + Iter(W, S)[q]
        /\ Iter(V, R)[r] = V[Pick(r)] + Iter(V, R)[q]
    <3>0. r \in SUBSET S /\ r \in SUBSET R BY <2>3
    <3>1. Iter(W, S)[r] = IF r = {} THEN 0 ELSE W[Pick(r)] + Iter(W, S)[q] BY <3>0, IterValue
    <3>2. Iter(V, R)[r] = IF r = {} THEN 0 ELSE V[Pick(r)] + Iter(V, R)[q]
      <4> QED BY ONLY <3>0, IsFiniteSet(R), IterValue
    <3> QED BY <2>4, <3>1, <3>2
  <2> HIDE DEF q, Bad
  <2> QED BY <2>3, <2>5, <2>7, <2>8
<1> QED BY <1>3

\* The sum of natural numbers is a natural number.
LEMMA IterType ==
  ASSUME NEW W, NEW S, IsFiniteSet(S), \A x \in S : W[x] \in Nat, NEW s \in SUBSET S
  PROVE  Iter(W, S)[s] \in Nat
<1> DEFINE Bad == {r \in SUBSET S : Iter(W, S)[r] \notin Nat}
<1>1. ASSUME NEW r \in SUBSET S PROVE IsFiniteSet(r) /\ Cardinality(r) \in Nat
  BY FS_Subset, FS_CardinalityType
<1>2. \A r \in Bad : IsFiniteSet(r) BY <1>1
<1>3. Bad = {}
  <2> SUFFICES ASSUME Bad # {} PROVE FALSE OBVIOUS
  <2> HIDE DEF Bad
  <2>1. PICK r \in Bad : \A z \in Bad : ~(Cardinality(z) < Cardinality(r)) BY <1>2, SmallestSet
  <2> USE DEF Bad
  <2>3. r \in SUBSET S /\ Iter(W, S)[r] \notin Nat OBVIOUS
  <2>4. r # {}
    <3>1. r = {} => Iter(W, S)[r] = 0 BY <2>3, IterValue
    <3> QED BY <2>3, <3>1
  <2> DEFINE q == r \ {Pick(r)}
  <2>5. /\ Pick(r) \in r /\ Cardinality(r) \in Nat /\ Cardinality(q) \in Nat
        /\ Cardinality(q) < Cardinality(r)
    BY <1>1, <2>3, <2>4, Taken
  <2>6. q \notin Bad BY <2>1, <2>5, Zenon
  <2>7. Iter(W, S)[q] \in Nat BY <2>3, <2>6
  <2>8. Iter(W, S)[r] = W[Pick(r)] + Iter(W, S)[q]
    <3>1. Iter(W, S)[r] = IF r = {} THEN 0 ELSE W[Pick(r)] + Iter(W, S)[q] BY <2>3, IterValue
    <3> QED BY <2>4, <3>1
  <2> HIDE DEF q, Bad
  <2> QED BY <2>3, <2>5, <2>7, <2>8
<1> QED BY <1>3

\* Any element may be summed first.
LEMMA IterRemove ==
  ASSUME NEW W, NEW S, IsFiniteSet(S), \A x \in S : W[x] \in Nat, NEW s \in SUBSET S, NEW y \in s
  PROVE  Iter(W, S)[s] = W[y] + Iter(W, S)[s \ {y}]
<1> DEFINE f == Iter(W, S)
           Bad == {r \in SUBSET S : \E x \in r : f[r] # W[x] + f[r \ {x}]}
<1>0. \A r \in SUBSET S : f[r] \in Nat BY IterType
<1>1. ASSUME NEW r \in SUBSET S PROVE IsFiniteSet(r) /\ Cardinality(r) \in Nat
  BY FS_Subset, FS_CardinalityType
<1>2. \A r \in Bad : IsFiniteSet(r) BY <1>1
<1>3. Bad = {}
  <2> SUFFICES ASSUME Bad # {} PROVE FALSE OBVIOUS
  <2> HIDE DEF Bad
  <2>1. PICK r \in Bad : \A z \in Bad : ~(Cardinality(z) < Cardinality(r)) BY <1>2, SmallestSet
  <2> USE DEF Bad
  <2>3. PICK x \in r : r \in SUBSET S /\ f[r] # W[x] + f[r \ {x}] OBVIOUS
  <2> DEFINE c == Pick(r)
             q == r \ {c}
             p == r \ {x}
             b == q \ {x}
  <2>4. /\ c \in r /\ Cardinality(r) \in Nat /\ Cardinality(q) \in Nat
        /\ Cardinality(q) < Cardinality(r)
    BY <1>1, <2>3, Taken
  <2>5. Cardinality(p) \in Nat /\ Cardinality(p) < Cardinality(r)
    <3>1. IsFiniteSet(r) /\ Cardinality(r) \in Nat BY <1>1, <2>3
    <3>2. IsFiniteSet(p) /\ Cardinality(p) = Cardinality(r) - 1 BY <3>1, <2>3, FS_RemoveElement
    <3>3. Cardinality(p) \in Nat BY <3>2, FS_CardinalityType
    <3> QED BY <3>1, <3>2, <3>3
  <2>6. p \notin Bad /\ q \notin Bad BY <2>1, <2>4, <2>5, Zenon
  <2>7. p \in SUBSET S /\ q \in SUBSET S /\ b \in SUBSET S BY <2>3
  <2>8. f[r] = W[c] + f[q]
    <3>1. f[r] = IF r = {} THEN 0 ELSE W[c] + f[q] BY <2>3, IterValue
    <3> QED BY <3>1, <2>3
  <2>9. x # c BY <2>3, <2>8
  <2>10. x \in q /\ c \in p /\ p \ {c} = b BY <2>3, <2>4, <2>9
  <2>11. f[q] = W[x] + f[b] BY <2>6, <2>7, <2>10
  <2>12. f[p] = W[c] + f[b]
    <3>1. f[p] = W[c] + f[p \ {c}] BY <2>6, <2>7, <2>10
    <3> QED BY <3>1, <2>10
  <2>13. f[r] # W[x] + f[p] BY <2>3
  <2>14. W[x] \in Nat /\ W[c] \in Nat /\ f[b] \in Nat BY <1>0, <2>3, <2>4, <2>7
  <2> HIDE DEF f, c, q, p, b, Bad
  <2> QED BY <2>8, <2>11, <2>12, <2>13, <2>14
<1> QED BY <1>3

\* The empty sum.
LEMMA SumEmpty == ASSUME NEW W PROVE SumFunctionOnSet(W, {}) = 0
BY SumIsIter, IterValue, FS_EmptySet

\* A finite sum of naturals is a natural.
LEMMA SumType ==
  ASSUME NEW W, NEW S, IsFiniteSet(S), \A x \in S : W[x] \in Nat
  PROVE  SumFunctionOnSet(W, S) \in Nat
BY SumIsIter, IterType

\* The sum depends only on the values inside the set.
LEMMA SumAgree ==
  ASSUME NEW W, NEW V, NEW S, IsFiniteSet(S), \A x \in S : W[x] = V[x]
  PROVE  SumFunctionOnSet(W, S) = SumFunctionOnSet(V, S)
<1>1. Iter(W, S)[S] = Iter(V, S)[S] BY IterAgree
<1> QED BY <1>1, SumIsIter

\* One element may be taken out of a finite sum.
LEMMA SumRemove ==
  ASSUME NEW W, NEW S, IsFiniteSet(S), \A x \in S : W[x] \in Nat, NEW y \in S
  PROVE  SumFunctionOnSet(W, S) = W[y] + SumFunctionOnSet(W, S \ {y})
<1> DEFINE R == S \ {y}
<1>1. IsFiniteSet(R) BY FS_RemoveElement
<1>2. Iter(W, S)[S] = W[y] + Iter(W, S)[R] BY IterRemove
<1>3. Iter(W, S)[R] = Iter(W, R)[R] BY <1>1, IterAgree
<1> HIDE DEF R
<1>4. SumFunctionOnSet(W, S) = Iter(W, S)[S] /\ SumFunctionOnSet(W, R) = Iter(W, R)[R] BY SumIsIter
<1> QED BY <1>2, <1>3, <1>4 DEF R

\* Disjoint sets are summed one after the other.
LEMMA SumUnion ==
  ASSUME NEW W, NEW A, NEW B, IsFiniteSet(A), IsFiniteSet(B), A \cap B = {},
         \A x \in A \cup B : W[x] \in Nat
  PROVE  SumFunctionOnSet(W, A \cup B) = SumFunctionOnSet(W, A) + SumFunctionOnSet(W, B)
<1> DEFINE Sum(s) == SumFunctionOnSet(W, s)
           Bad == {r \in SUBSET B : Sum(A \cup r) # Sum(A) + Sum(r)}
<1>1. ASSUME NEW r \in SUBSET B PROVE IsFiniteSet(r) /\ Cardinality(r) \in Nat /\ IsFiniteSet(A \cup r)
  BY FS_Subset, FS_CardinalityType, FS_Union
<1>2. \A r \in Bad : IsFiniteSet(r) BY <1>1
<1>3. ASSUME NEW s \in SUBSET (A \cup B) PROVE Sum(s) \in Nat
  <2>1. IsFiniteSet(A \cup B) BY FS_Union
  <2>2. IsFiniteSet(s) BY <2>1, FS_Subset
  <2> QED BY <2>2, SumType
<1>4. Bad = {}
  <2> SUFFICES ASSUME Bad # {} PROVE FALSE OBVIOUS
  <2> HIDE DEF Bad
  <2>1. PICK r \in Bad : \A z \in Bad : ~(Cardinality(z) < Cardinality(r)) BY <1>2, SmallestSet
  <2> USE DEF Bad
  <2>3. r \in SUBSET B /\ Sum(A \cup r) # Sum(A) + Sum(r) OBVIOUS
  <2>4. r # {}
    <3>1. Sum({}) = 0 BY SumEmpty
    <3>2. Sum(A) \in Nat BY <1>3
    <3>3. r = {} => A \cup r = A OBVIOUS
    <3> HIDE DEF Sum
    <3> QED BY <2>3, <3>1, <3>2, <3>3
  <2> DEFINE x == Pick(r)
             q == r \ {x}
  <2>5. /\ x \in r /\ Cardinality(r) \in Nat /\ Cardinality(q) \in Nat
        /\ Cardinality(q) < Cardinality(r)
    BY <1>1, <2>3, <2>4, Taken
  <2>6. q \notin Bad BY <2>1, <2>5, Zenon
  <2>7. Sum(A \cup q) = Sum(A) + Sum(q) BY <2>3, <2>6
  <2> HIDE DEF Bad, x
  <2>8. Sum(r) = W[x] + Sum(q) BY <1>1, <2>3, <2>5, SumRemove
  <2>9. (A \cup r) \ {x} = A \cup q BY <2>3, <2>5
  <2>10. Sum(A \cup r) = W[x] + Sum((A \cup r) \ {x}) BY <1>1, <2>3, <2>5, SumRemove
  <2>11. W[x] \in Nat /\ Sum(A) \in Nat /\ Sum(q) \in Nat BY <1>3, <2>3, <2>5
  <2>12. Sum(A \cup r) = W[x] + Sum(A \cup q) BY <2>9, <2>10
  <2> HIDE DEF Sum, q
  <2> QED BY <2>3, <2>7, <2>8, <2>11, <2>12
<1> QED BY <1>4

=============================================================================
